SPECIFICATION Spec
CONSTANTS
    N = 2
    P = 3
    tool = tool
    x = x
    y = y
    b1 = b1
    b2 = b2
    Events = {tool, x, y}
    AspTool = tool
    Builds = {b1, b2}
    Manifests <- Rivals
    Configs = {"a"}
    AtStart = {"absent", "disabled", "a"}
    Broken = Broken
    NoPlan = NoPlan
    MaxOps = 3
    MaxEdits = 1
    MaxCrashes = 1
    MaxLate = 0
INVARIANT
    ActiveHasNode
CHECK_DEADLOCK FALSE
