SPECIFICATION Spec
CONSTANTS
    Outcomes <- MCOutcomes
    MaxRequests = 2
    MaxCalls = 2
    Harms <- MCHarms
CONSTRAINT Bounded
INVARIANTS
    EvidenceIntact
    ReplayHonest
    NoFalseAlarm
CHECK_DEADLOCK FALSE
