SPECIFICATION Spec
CONSTANTS
    a = a
    b = b
    r = r
    s = s
    i = i
    j = j
    k = k
    Base = {a, b, r}
    Replacing = {r}
    NoBase = NoBase
    Inodes = {i, j, k}
    NoInode = NoInode
    MaxStops = 1
    MaxKills = 1
    MaxDeadlines = 1
    MaxSweeps = 1
SYMMETRY Symmetry
INVARIANTS
    
    
    SomeoneServes
CHECK_DEADLOCK FALSE
