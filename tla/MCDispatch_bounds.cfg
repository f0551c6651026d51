CONSTANTS
    Calls <- MCCalls
    Depth = 2
    LifetimeCap = 2
    Concurrency = 2
    NewCallShare = 1
    QueueCap = 2
    Headroom = 1
    SweepAhead = 1
    Budgets <- MCBudgets

SPECIFICATION DispatchSpec

INVARIANTS
    DispatchTypeOK
    WaitingExact
    ReleaseLeadsNewCalls
    NothingStranded
    NewCallsKeepToShare
    
    CappedIsSentenced

PROPERTIES
    
    CondemnedCallEnds
    QueueOfNoCallCloses

CHECK_DEADLOCK FALSE
