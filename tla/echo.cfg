SPECIFICATION FairSpec
CONSTANTS
    None = None
    Temp = {21, 36}
    Mode = {0, 3, 4}
    MaxAsks = 2
    MaxEvents = 1
    LateEcho = FALSE
INVARIANTS
    AcceptableState
PROPERTIES
    EchoWritesNothing
    ComesToRest
CHECK_DEADLOCK FALSE
