SPECIFICATION Spec
CONSTANTS
    Refs = {a}
    Batch = 2
    Conns = {c1, c2}
    NoConn = none
    MaxWrites = 2
    MaxGen = 1
    MaxCuts = 1
    MaxBackupRestarts = 0
    MaxDrops = 1
    MaxSheds = 0
    MaxOversize = 0
    Window = 1
    ScanCuts = FALSE
    LostReports = TRUE
INVARIANTS
    ShownIsHeld
    StreamsCounted
    ResumeSkipsNoPut
    DeleteKeptUntilApplied
SYMMETRY FlowSymmetry
