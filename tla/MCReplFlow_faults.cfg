SPECIFICATION Spec
CONSTANTS
    Refs = {a, b}
    Batch = 2
    Conns = {c1}
    NoConn = none
    MaxWrites = 2
    MaxGen = 2
    MaxCuts = 1
    MaxBackupRestarts = 1
    MaxDrops = 0
    MaxSheds = 0
    MaxOversize = 0
    Window = 1
    ScanCuts = TRUE
    LostReports = TRUE
INVARIANTS
    TypeOK
    PositionsWithinLog
    ShownIsHeld
    AppliedIsCurrent
    CaughtUpHoldsAll
SYMMETRY FlowSymmetry
