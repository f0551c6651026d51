CONSTANTS
    MaxPush = 3
    MaxWrites = 2
    MaxFaults = 1
    MaxDrops = 1

SPECIFICATION OutboxSpec

INVARIANTS
    OutboxTypeOK
    SentOnItsOwnRelease
    ReleasedIsOut

PROPERTIES
    LeaveInOrder
    EntriesLeave

CHECK_DEADLOCK FALSE
