SPECIFICATION Spec
CONSTANTS
    s1 = s1
    s2 = s2
    s3 = s3
    Slots = {s1, s2, s3}
    Stages = {1}
    Phases = {0, 12}
    Capacity = 2
    MaxHappenings = 3
    MaxCalls = 2
    NestLimit = 2
    DepthLimit = 2
SYMMETRY Symmetry
CONSTRAINT Bounded
INVARIANTS
    EvidenceWhole
    NoFalseRefusal
    FirstKillReal
    BoundaryTold
CHECK_DEADLOCK FALSE
