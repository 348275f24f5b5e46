SPECIFICATION Spec
CONSTANTS
    Thread = {"t1", "t2"}
    Packet = {1, 2, 3, 4}
    Id <- MCId
    CAPACITY = 1
    REBUILD_EVICTION_THRESHOLD = 2
    MAX_MESSAGES_PER_WINDOW = 1
INVARIANTS
    TypeOK
    RateOvershootBounded
    CapacityAtRest
    FilterCoversAtRest
PROPERTIES
    HandlersEnd
CHECK_DEADLOCK FALSE
