SPECIFICATION Spec
CONSTANTS
    MaxTicks = 2
    MaxCalls = 3
    MaxEpoch = 4
    MaxRevision = 6
    MaxBoards = 2
    MaxFaults = 1
INVARIANTS
    WorkTold
    VersionFresh
    PreparedSteps
PROPERTIES
    StoppedForGood
    PendingEnds
