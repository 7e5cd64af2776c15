SPECIFICATION Spec
CONSTANTS
    N = 3
    P = 4
    tool = tool
    x = x
    y = y
    b1 = b1
    b2 = b2
    Events = {tool, x, y}
    AspTool = tool
    Builds = {b1, b2}
    Manifests <- Chain
    Configs = {"a"}
    AtStart = {"absent", "a"}
    Broken = Broken
    NoPlan = NoPlan
    MaxOps = 2
    MaxEdits = 1
    MaxCrashes = 1
    MaxLate = 1
INVARIANTS
    TypeOK
    NoOrphanNode
    OneNodePerCartridge
    
    
    EdgesAgree
    EdgesComplete
    DirectoryDelivered
PROPERTIES
    SocketKept
    StoppedForCause
CHECK_DEADLOCK FALSE
