SPECIFICATION Spec
CONSTANTS
    Configs <- MCLimitConfigs
    NoWeapon = NoWeapon
    MaxID = 8
    MaxRuns = 2
INVARIANT RefusedOnlyBeyondLimit
CHECK_DEADLOCK FALSE
