SPECIFICATION SpecDispatch
CONSTANTS
    N = 2
    P = 3
    tool = tool
    x = x
    b1 = b1
    Events = {tool, x}
    AspTool = tool
    Builds = {b1}
    Manifests <- Pair
    Configs = {"a"}
    AtStart = {"a"}
    Broken = Broken
    NoPlan = NoPlan
    MaxOps = 2
    MaxEdits = 1
    MaxCrashes = 0
    MaxLate = 1
    Calls = {1}
    Callers = {0, 2}
INVARIANTS
    NotHandledTwice
    AskedInOrder
    
    
CHECK_DEADLOCK FALSE
