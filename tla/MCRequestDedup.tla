--------------------------- MODULE MCRequestDedup ---------------------------
(* Instance of RequestDedup for TLC: all IDs share one bucket.             *)
EXTENDS RequestDedup, TLC

CONSTANTS id1, id2, id3, move, pause, close, ok

MCBucketOf == [id \in Ids |-> "b"]
MCClass == [p \in Payloads |-> CASE p = pause -> "control" [] p = close -> "close"
                                 [] OTHER -> "mutation"]
MCWeight == [b \in Payloads \cup Answers |-> 1]
CONSTANTS NormalSlots, SpareSlots, NormalBytes, SpareBytes
MCSlots == [f \in Files |-> IF f = Normal THEN NormalSlots ELSE SpareSlots]
MCBytes == [f \in Files |-> IF f = Normal THEN NormalBytes ELSE SpareBytes]
Symmetry == Permutations(Ids)
=============================================================================
