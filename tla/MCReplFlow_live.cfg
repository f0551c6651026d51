SPECIFICATION LiveSpec
CONSTANTS
    Refs = {a, b}
    Batch = 1
    Conns = {c1}
    NoConn = none
    MaxWrites = 2
    MaxGen = 1
    MaxCuts = 1
    MaxBackupRestarts = 0
    MaxDrops = 0
    MaxSheds = 1
    MaxOversize = 1
    Window = 1
    ScanCuts = FALSE
    LostReports = FALSE
INVARIANTS
    ShownIsHeld
PROPERTIES
    Converges
    CatchesUp
