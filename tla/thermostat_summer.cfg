SPECIFICATION Spec
CONSTANTS
    None = None
    o1 = o1
    o2 = o2
    o3 = o3
    c1 = c1
    c2 = c2
    c3 = c3
    Output = {o1, o2, o3}
    Call = {c1, c2, c3}
    Id = {1, 2, 11, 12, 13}
    OwnId <- MCOwnId
    EntryOf <- MCEntryOf
    Wiring <- MCWiring
    Ask <- MCAsk
    Temp = {"low", "high"}
    InitConfig <- MCInitConfig
    MaxFaults = 0
PROPERTY SetpointAlwaysTakesEffect
CHECK_DEADLOCK FALSE
