SPECIFICATION Spec
CONSTANTS
    c1 = c1
    c2 = c2
    c3 = c3
    Conns = {c1, c2, c3}
    NoConn = NoConn
    HISTORY = 2
    OutCap = 2
    InCap = 2
    QueueCap = 1
    Sinces <- FromNowOrStart
    MaxData = 2
    MaxRestarts = 0
    MaxConnects = 3
SYMMETRY Symmetry
INVARIANT
    ResumesFromLastTaken
CHECK_DEADLOCK FALSE
