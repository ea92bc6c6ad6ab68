SPECIFICATION MCSpec
CONSTANTS
    MaxGap = 1
    ScanEvery = 1
    MaxActs = 2
    MaxFailures = 1
INVARIANT VerdictHonest
PROPERTY ObserverCloses
CHECK_DEADLOCK FALSE
