SPECIFICATION Spec
CONSTANTS
    EphemId = {e1, e2}
    WINDOW_SECONDS = 1
    MAX_MESSAGES_PER_WINDOW = 2
    BAN_SECONDS = 2
    BAN_VIOLATION_THRESHOLD = 2
    IDLE_EXPIRY_SECONDS = 2
    PRUNE_INTERVAL_CHECKS = 3
    MaxTime = 5
    MaxChecks = 8
INVARIANTS
    TypeOK
    RateBounded
    BanHonoured
    BanEnds
    IdleSendersForgotten
PROPERTIES
    ImplementsPolicy
CHECK_DEADLOCK FALSE
