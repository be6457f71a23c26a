SPECIFICATION Spec
CONSTANTS
    Configs <- MCConfigs
    NoWeapon = NoWeapon
    MaxID = 70
    MaxRuns = 2
INVARIANTS
    TypeOK
    IdsAreContiguous
    WeaponSuffixesAreShared
    LastTierIsPlain
    PlainSuffixesAreComplete
    WrittenIdsFit
    NoMixedOutputs
CHECK_DEADLOCK FALSE
