CONSTANTS
    P = 8171
    FIELD_BITS = 13
    FIELD_BYTES = 2
    EDWARDS_A = 16
    EDWARDS_D = 6
    BASE_X = 2544
    BASE_Y = 20
    Secrets <- MCSecrets
SPECIFICATION Spec
INVARIANTS DigitsFitTable AccumulatesMultiple AgreesWithLadder
CHECK_DEADLOCK FALSE
