SPECIFICATION Spec
CONSTANTS
    m1 = m1
    m2 = m2
    m3 = m3
    m4 = m4
    MsgId <- MCMsgId
    Slot <- MCSlot
    Hashes <- MCHashes
    CAPACITY = 2
    TTL_SECONDS = 2
    REBUILD_EVICTION_THRESHOLD = 2
    MaxTime = 5
    MaxAccepts = 6
    MaxFalseDrops = 2
INVARIANTS
    FalsePositiveDropsOnce
CHECK_DEADLOCK FALSE
