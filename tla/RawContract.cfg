CONSTANTS
    P = 59
    FIELD_BITS = 6
    FIELD_BYTES = 1
    EDWARDS_A = 12
    EDWARDS_D = 2
    BASE_X = 21
    BASE_Y = 7
    RawSecrets = {0, 12, 40, 255}
    RawPublics <- MCRawPublics
    Publics <- MCPublics
    Selections <- MCSelections
    Canon <- MCCanon
    PublicOf <- MCPublicOf
    Shared <- MCShared
    Absent = Absent
    Free = Free
    Broken = Broken
    Malformed = Malformed
    Unset = Unset
    Providers = {p1, p2}
    Host = p1
    Peer = p2
    Workers = {"worker1", "worker2"}
    Keys <- MCKeys
    KeyBoxes <- MCKeys
    Exchanges <- MCExchanges
    ExchangeBoxes <- MCExchanges
    SECRET_A = 0
    SECRET_B = 40
    TEST_RAND_SEED = 12
    PUBLIC_A = 50
    PUBLIC_B = 33
    SHARED_AA = 23
    SHARED_AB = 44
    TEST_RAND_PUBLIC = 30
    SMALL_ORDER_U <- MCSmallOrder
    FIELD_MODULUS = 59
    FIELD_TOP = 64
    AliasMasks <- MCAliasMasks
    Vectors <- MCVectors
    Modes = {"unset", "active", "inert"}
    ITERATIONS = 2
SPECIFICATION ContractSpec
PROPERTIES ContractHolds
CHECK_DEADLOCK FALSE
