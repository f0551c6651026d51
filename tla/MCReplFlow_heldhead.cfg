SPECIFICATION LiveSpec
CONSTANTS
    Refs = {a, b}
    Batch = 1
    Conns = {c1}
    NoConn = none
    MaxWrites = 1
    MaxGen = 1
    MaxCuts = 0
    MaxBackupRestarts = 0
    MaxDrops = 0
    MaxSheds = 1
    MaxOversize = 0
    Window = 1
    ScanCuts = FALSE
    LostReports = FALSE
PROPERTY
    AlwaysCatchesUp
