SPECIFICATION FairSpec
CONSTANTS
    Uuid = {u1, u2}
    Run = {r1, r2}
    Threshold = 3
    CrashInPass = FALSE
    FaultyDisk = FALSE
    SlowProbe = TRUE
PROPERTIES
    RemovedOnlyAfterMisses
    ExposedNeverPruned
    DisabledIsRemoved
