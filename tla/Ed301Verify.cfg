SPECIFICATION Spec
CONSTANTS
    P = 8171
    FIELD_BITS = 13
    FIELD_BYTES = 2
    EDWARDS_A = 16
    EDWARDS_D = 6
    BASE_X = 2544
    BASE_Y = 20
    ORDER = 2083
    WNAF_WIDTH = 6
    PRIME_ORDER_WNAF_DESC <- MCSchedule
    Inputs <- MCInputs
INVARIANTS RecodingIsNonAdjacent RecodingKeepsScalar VerdictIsTheEquation
CHECK_DEADLOCK FALSE
