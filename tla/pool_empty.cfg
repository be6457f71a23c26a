SPECIFICATION Spec
CONSTANTS
    Shape <- MCShape
    Stat <- MCStat
    Level <- MCLevel
    NoSpec = NoSpec
INVARIANT PoolNeverEmpty
CHECK_DEADLOCK FALSE
