SPECIFICATION Spec
CONSTANTS
    RADIX = 64
    TOP_RADIX = 4
    FOLD_RADIX = 4
    STEP_RADIX = 8
    FOLD_SUBTRAHEND = 3
    Multipliers = {0, 5}
    Samples = {0, 1, 16777215, 67108610, 67108611, 67108863, 134217221, 134217222, 201325832, 268434443}
    MaxOperations = 2
INVARIANTS LimbsFollowTheField
CHECK_DEADLOCK FALSE
