CONSTANTS
    P = 59
    FIELD_BITS = 6
    FIELD_BYTES = 1
    EDWARDS_A = 12
    EDWARDS_D = 2
    BASE_X = 21
    BASE_Y = 7
    RawSecrets = {0, 40}
    RawPublics = {50, 33, 1, 114}
    Publics = {50, 33, 1}
    Selections <- MCSelections
    Canon <- MCCanon
    PublicOf <- MCPublicOf
    Shared <- MCShared
    Absent = Absent
    Free = Free
    Broken = Broken
    Malformed = Malformed
    Providers = {p1, p2}
    Keys = {k1, k2}
    KeyBoxes = {b1, b2}
    Exchanges = {x1, x2}
    ExchangeBoxes = {c1, c2}
SPECIFICATION Spec
INVARIANTS BoxesOwnedOnce PresentComponentsValidate ReportedKeysAreAccepted PeerIsLastAccepted ProvidersKeptApart DeriveIsAllOrNothing ExchangesAgree
PROPERTIES OnlyImportReplaces
SYMMETRY Symmetry

