SPECIFICATION Spec
CONSTANTS
    None = None
    Kinds = {"light", "thermostat"}
    Value = {v1, v2}
    Name = {n1, n2}
    Pass = {p1}
    MaxRegs = 2
    MaxFlushes = 2
    MaxFaults = 3
SYMMETRY Symmetry
INVARIANTS
    ReadyWhenRegistered
    ShowsLatest
    NameArrives
    ShapeRemembered
    
CHECK_DEADLOCK FALSE
