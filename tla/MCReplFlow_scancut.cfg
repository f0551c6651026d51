SPECIFICATION Spec
CONSTANTS
    Refs = {a, b}
    Batch = 2
    Conns = {c1}
    NoConn = none
    MaxWrites = 1
    MaxGen = 1
    MaxCuts = 1
    MaxBackupRestarts = 0
    MaxDrops = 0
    MaxSheds = 0
    MaxOversize = 0
    Window = 2
    ScanCuts = TRUE
    LostReports = FALSE
INVARIANT
    DeleteKeptUntilApplied
SYMMETRY FlowSymmetry
