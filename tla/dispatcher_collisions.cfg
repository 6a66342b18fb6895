SPECIFICATION Spec
CONSTANTS
    None = None
    Setpoint = Setpoint
    Mode = Mode
    Other = Other
    Sync = Sync
    ThermostatA = ThermostatA
    ThermostatB = ThermostatB
    Cmd = {Setpoint, Mode, Sync}
    Device = {ThermostatA, ThermostatB}
    DeviceOf <- MCDeviceOf
    Script <- MCScript
    Id = {i1, i2}
    UniqueIds = FALSE
    EchoIds = FALSE
SYMMETRY Symmetry
INVARIANTS
    EntryIsLive
    NoSilentSuccess
PROPERTIES
    ServesInOrder
CHECK_DEADLOCK FALSE
