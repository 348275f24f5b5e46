SPECIFICATION Spec
CONSTANTS
    ada = ada
    ben = ben
    n1 = n1
    n2 = n2
    Nonce = {n1, n2}
    EXPIRY_S = 2
    U32_MAX = 4
    MaxRequests = 2
    MaxTime = 3
SYMMETRY Symmetry
CHECK_DEADLOCK FALSE
INVARIANTS
    TypeOK
    MutualConsent
    ServedByConsent
    RevocationComplete
    LiveGrantHonoured
PROPERTIES
    DecisionsStand
