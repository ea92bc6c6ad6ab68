SPECIFICATION MCSpec
CONSTANTS
    Repeats = 3
    MaxFaults = 2
    MaxSeeds = 2
    TenColds = 4
INVARIANTS ColdsAccounted PassedReal ReadyReal
PROPERTY SuiteEnds
CHECK_DEADLOCK FALSE
