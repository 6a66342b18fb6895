SPECIFICATION FairSpec
CONSTANTS
    None = None
    Setpoint = Setpoint
    Mode = Mode
    Other = Other
    Sync = Sync
    ThermostatA = ThermostatA
    ThermostatB = ThermostatB
    Cmd = {Setpoint, Mode, Other}
    Device = {ThermostatA, ThermostatB}
    DeviceOf <- MCDeviceOf
    Script <- MCScript
    Id = {i1, i2, i3, i4}
    UniqueIds = TRUE
    EchoIds = TRUE
INVARIANTS
    OneInFlight
    NeverStranded
    AnswerNotLost
    OneAnswerOneCommand
PROPERTIES
    EveryCallSettles
CHECK_DEADLOCK FALSE
