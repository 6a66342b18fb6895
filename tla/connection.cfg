SPECIFICATION FairSpec
CONSTANTS
    s1 = s1
    s2 = s2
    s3 = s3
    NoSocket = NoSocket
    Socket = {s1, s2, s3}
    MaxAttempts = 4
    LateClose = FALSE
    FastReconnect = FALSE
INVARIANTS
    NoOrphanSocket
    SessionOnCurrentSocket
    RecoveryArmed
    LoginTimerOwned
PROPERTIES
    
    Recovers
    DeadPeerDetected
CHECK_DEADLOCK FALSE
