SPECIFICATION Spec
CONSTANTS
    Shape <- MCShape
    Stat <- MCStat
    Level <- MCLevel
    NoSpec = NoSpec
INVARIANTS
    ForcedIsLastResort
    ArmorSuitsWearer
    CasterItemSuitsCaster
    TankItemSuitsTank
    DrawnRoleHasSuffix
CHECK_DEADLOCK FALSE
