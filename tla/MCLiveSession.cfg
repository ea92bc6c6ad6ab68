SPECIFICATION Spec
CONSTANTS
    TickBudget = 3
    ChunkTicks = 1
    RequestTicks = 2
    Rounds = 2
    Points <- MCPoints
    DiskTicks = 2
    StallLimit = 2
    Names = {"frames", "events"}
    MaxFaults = 2
CONSTRAINT Explored
INVARIANTS PausesAccounted InterventionExact NothingSwallowed ProcessesOwned AuditKept
CHECK_DEADLOCK FALSE
