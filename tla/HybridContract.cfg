CONSTANTS
    P = 59
    FIELD_BITS = 6
    FIELD_BYTES = 1
    EDWARDS_A = 12
    EDWARDS_D = 2
    BASE_X = 21
    BASE_Y = 7
    RawSecrets = {0, 40}
    RawPublics <- MCRawPublics
    Publics <- MCPublics
    Canon <- MCCanon
    PublicOf <- MCPublicOf
    Shared <- MCShared
    Absent = Absent
    Free = Free
    Malformed = Malformed
    Zero = Zero
    Untouched = Untouched
    Unset = Unset
    Providers = {p1}
    Host = p1
    Keys = {"private", "public", "temporary"}
    Contexts = {"context", "second"}
    Pairs = {m1, m2}
    OurPair = m1
    OtherPair = m2
    MaxNonce = 8
    FIELD_MODULUS = 59
    FIELD_TOP = 64
    AliasMasks <- MCAliasMasks
SPECIFICATION ContractSpec
PROPERTIES HybridContractHolds
CHECK_DEADLOCK FALSE
