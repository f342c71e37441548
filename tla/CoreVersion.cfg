CONSTANTS
    UINT_MAX = 33
    SUPPORTED_MAJOR = 3
    MaxLength = 5
    Dot = Dot
    Nul = Nul
    Other = Other
    Characters <- MCCharacters
    Texts <- MCTexts
SPECIFICATION VersionSpec
INVARIANTS NeverReadsPastEnd VerdictIsTheVersionRule
PROPERTIES NoWrapAround
