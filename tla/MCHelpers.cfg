SPECIFICATION FairSpec
CONSTANTS
    None = None
    Requests = {"r1"}
    Nested = {"n1"}
    Sends = {"s1"}
    Asks = {"a1"}
    Notes = 1
    Room = 1
    OutRoom = 1
CHECK_DEADLOCK FALSE
INVARIANTS
    TornByCancelOnly
    AnswersArrive
PROPERTIES
    EndsOnce
    CallEnds
