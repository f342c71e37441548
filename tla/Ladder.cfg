CONSTANTS
    P = 59
    FIELD_BITS = 6
    FIELD_BYTES = 1
    EDWARDS_A = 12
    EDWARDS_D = 2
    BASE_X = 21
    BASE_Y = 7
    PrivateKeys <- MCPrivateKeys
    PublicInputs <- MCPublicInputs
SPECIFICATION LadderSpec
INVARIANTS LadderInvariant ResultIsTheMultiple
CHECK_DEADLOCK FALSE
