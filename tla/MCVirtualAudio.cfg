SPECIFICATION Spec
CONSTANTS
    Soundscapes <- MCSoundscapes
    PitchRate <- MCPitchRate
    SamplesPerTick = 2
    MaxFoleyInstances = 2
    MaxManagerChannels = 2
    TooRecentUpdates = 1
    Ticks = 3
    MaxActions = 4
INVARIANTS
    ObserveOnly
    SlotsHold
    PlaceKept
    TrackHeard
CHECK_DEADLOCK FALSE
