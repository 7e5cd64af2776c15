SPECIFICATION FairSpec
CONSTANTS
    Calls = {1, 2, 3}
    InFlight = 2
    Room = 2
INVARIANTS
    NothingLeaks
PROPERTIES
    EndsOnce
    AnswersArrive
    CancelStops
CHECK_DEADLOCK FALSE
