SPECIFICATION MCSpec
CONSTANTS
    N = 2
    MaxFaults = 2
INVARIANTS FailureLocal LeaseVerdictExact EvidenceKept
PROPERTY RunEnds
CHECK_DEADLOCK FALSE
