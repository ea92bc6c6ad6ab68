SPECIFICATION Spec
CONSTANTS
    id1 = id1
    id2 = id2
    id3 = id3
    move = move
    pause = pause
    close = close
    ok = ok
    Closed = closed
    Incomplete = incomplete
    Lost = lost
    NoAnswer = noanswer
    Ids = {id1, id2, id3}
    Payloads = {move, pause, close}
    Answers = {ok, closed, incomplete, lost}
    Scopes = {"a", "b"}
    Root = "a"
    Buckets = {"b"}
    BucketOf <- MCBucketOf
    Class <- MCClass
    Weight <- MCWeight
    Slots <- MCSlots
    Bytes <- MCBytes
    NormalSlots = 2
    SpareSlots = 2
    NormalBytes = 4
    SpareBytes = 5
    CloseBytes = 2
    MaxEpoch = 2
SYMMETRY Symmetry
INVARIANT CloseSlotSurvives
CHECK_DEADLOCK FALSE
