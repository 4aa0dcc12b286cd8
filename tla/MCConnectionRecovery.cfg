SPECIFICATION FairSpec
CONSTANTS
    LoopIds = {l1, l2}
    NoLoop = NoLoop
    MaxAttempts = 2
    MaxReaders = 2
    AutoReconnect = TRUE
INVARIANTS
    RecoveryTypeOK
    StateMatchesCall
PROPERTIES
    ClosedStaysClosed
    CallsReturn
