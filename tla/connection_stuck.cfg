SPECIFICATION Spec
CONSTANTS
    s1 = s1
    s2 = s2
    s3 = s3
    NoSocket = NoSocket
    Socket = {s1, s2, s3}
    MaxAttempts = 2
    LateClose = TRUE
    FastReconnect = TRUE
SYMMETRY Symmetry
INVARIANT OutageIsHandled
CHECK_DEADLOCK FALSE
