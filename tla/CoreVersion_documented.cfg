CONSTANTS
    UINT_MAX = 33
    SUPPORTED_MAJOR = 3
    MaxLength = 3
    Dot = Dot
    Nul = Nul
    Other = Other
    Characters <- MCCharacters
    Texts <- MCReleases
SPECIFICATION VersionSpec
INVARIANTS AcceptsEveryMinor
