SPECIFICATION FairSpec
CONSTANTS
    None = None
    Bases = {"b1", "b2"}
    First = "b1"
    Conns = 3
    Lines = {"l1", "l2"}
    Requests = {"l1"}
    Room = 1
    Faults = 1
CHECK_DEADLOCK FALSE
INVARIANTS
    TwiceForCause
    AnsweredOnce
PROPERTIES
    IdleForCause
    LinesEnd
