SPECIFICATION Spec
CONSTANTS
    Refs = {a, b}
    Batch = 2
    Conns = {c1}
    NoConn = none
    MaxWrites = 2
    MaxGen = 2
    MaxCuts = 1
    MaxBackupRestarts = 0
    MaxDrops = 1
    MaxSheds = 0
    MaxOversize = 0
    Window = 2
    ScanCuts = FALSE
    LostReports = FALSE
INVARIANT
    ShownIsHeld
SYMMETRY FlowSymmetry
