SPECIFICATION Spec
CONSTANTS
    None = None
    Records = 3
    Unfit = {3}
    Capacity = 1
    Failures = 2
    Lines = 3
    QueueRoom = 1
    Cap = 2
    Faults = 1
    Others = 1
INVARIANTS
    Accounted
    FlushedIsSettled
    StreamCoherent
CHECK_DEADLOCK FALSE
