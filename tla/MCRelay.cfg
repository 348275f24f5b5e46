SPECIFICATION Spec
CONSTANTS
    m1 = m1
    m2 = m2
    m3 = m3
    e1 = e1
    e2 = e2
    alice = alice
    bob = bob
    MsgId <- MCMsgId
    Slot <- MCSlot
    Hashes <- MCHashes
    EphemId = {e1, e2}
    Packet <- MCPacket
    Sender = {alice, bob}
    Token <- MCToken
    CAPACITY = 2
    TTL_SECONDS = 3
    REBUILD_EVICTION_THRESHOLD = 1
    WINDOW_SECONDS = 1
    MAX_MESSAGES_PER_WINDOW = 2
    BAN_SECONDS = 2
    BAN_VIOLATION_THRESHOLD = 2
    IDLE_EXPIRY_SECONDS = 2
    PRUNE_INTERVAL_CHECKS = 3
    MAX_AGE_SECONDS = 2
    MAX_FUTURE_SECONDS = 1
    MaxTime = 5
    U32_MAX = 7
    EXPIRY_S = 2
    MaxProcessed = 5
INVARIANTS
    TypeOK
    NoReplay
    VerificationBounded
    SprayWithinFirstBudget
    AttestedOnly
CHECK_DEADLOCK FALSE
