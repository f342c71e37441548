CONSTANTS
    Absent = Absent
SPECIFICATION ContractSpec
PROPERTIES PolicyContractHolds DrbgFollowsPolicy CapabilityMatchesKeygen
