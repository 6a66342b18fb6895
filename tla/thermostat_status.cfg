SPECIFICATION Spec
CONSTANTS
    None = None
    bagno = bagno
    matrimoniale = matrimoniale
    Output = {bagno, matrimoniale}
    Id = {1, 2}
    OwnId <- MCOwnId
    ProgramOf <- MCProgramOf
    SensorOf <- MCSensorOf
    ManualSensor <- MCManual
    NamedSensor <- MCNamedSensor
    Setpoint = {20, 21}
    Default = 21
    Panels = {"domus", "standalone", "plain"}
    WireBound = 2
INVARIANTS
    OwnSetpoint
    ShowsPanels
    
