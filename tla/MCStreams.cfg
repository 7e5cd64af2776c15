SPECIFICATION FairSpec
CONSTANTS
    c1 = c1
    c2 = c2
    c3 = c3
    Conns = {c1, c2}
    NoConn = NoConn
    HISTORY = 2
    OutCap = 2
    InCap = 1
    QueueCap = 1
    Sinces <- FromNowOrStart
    MaxData = 2
    MaxRestarts = 1
    MaxConnects = 2
INVARIANTS
    Complete
    NoSilentLoss
PROPERTY
    Survives
CHECK_DEADLOCK FALSE
