SPECIFICATION FairSpec
CONSTANTS
    N = 2
    P = 3
    tool = tool
    x = x
    y = y
    b1 = b1
    b2 = b2
    Events = {tool, x, y}
    AspTool = tool
    Builds = {b1, b2}
    Manifests <- Rivals
    Configs = {"a"}
    AtStart = {"absent", "disabled", "a"}
    Broken = Broken
    NoPlan = NoPlan
    MaxOps = 2
    MaxEdits = 0
    MaxCrashes = 1
    MaxLate = 0
PROPERTIES
    OperationEnds
    ExitNoticed
CHECK_DEADLOCK FALSE
