SPECIFICATION Spec
CONSTANTS
    m1 = m1
    m2 = m2
    MsgId <- MCMsgId
    Slot <- MCSlot
    Hashes <- MCHashes
    EphemId = {e}
    HARNESS_EPHEM = e
    Neighbors <- MCComplete
    Message <- MCFrugal
    CAPACITY = 4
    TTL_SECONDS = 600
    REBUILD_EVICTION_THRESHOLD = 2
    WINDOW_SECONDS = 10
    MAX_MESSAGES_PER_WINDOW = 10
    BAN_SECONDS = 60
    BAN_VIOLATION_THRESHOLD = 3
    IDLE_EXPIRY_SECONDS = 600
    PRUNE_INTERVAL_CHECKS = 1000
    MAX_AGE_SECONDS = 300
    MAX_FUTURE_SECONDS = 30
    MaxProcessed = 2
INVARIANTS
    CopyBudget
CHECK_DEADLOCK FALSE
