CONSTANTS
    P = 59
    FIELD_BITS = 6
    FIELD_BYTES = 1
    EDWARDS_A = 12
    EDWARDS_D = 2
    BASE_X = 21
    BASE_Y = 7
    RawSecrets = {0, 40}
    RawPublics = {50, 33, 1, 114}
    Publics = {50, 33, 1}
    Canon <- MCCanon
    PublicOf <- MCPublicOf
    Shared <- MCShared
    Absent = Absent
    Free = Free
    Malformed = Malformed
    Zero = Zero
    Untouched = Untouched
    Providers = {p1, p2}
    Keys = {k1, k2}
    Contexts = {c1}
    Pairs = {m1, m2}
    MaxNonce = 1
SPECIFICATION Spec
INVARIANTS KeysAreWhole ContextFitsKey OutputIsWhole SecretsAgree NothingIsLeft
PROPERTIES ImplementsKem
SYMMETRY Symmetry
