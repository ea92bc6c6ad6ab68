--------------------------- MODULE LifecycleEvents -------------------------
(***************************************************************************)
(* The lines of lifecycle-events.jsonl: the recorder writes each captured  *)
(* event in an envelope, and every reader works on the events inside.      *)
(***************************************************************************)
EXTENDS Integers, Sequences, FiniteSets

\* A line of the stream.
Envelope(place, session, event) == [fileSeq |-> place, session |-> session, event |-> event]

Events(lines) == [i \in 1..Len(lines) |-> lines[i].event]

\* Event j comes before event i: by its capture sequence, equal ones as they came.
Precedes(events, j, i) ==
    events[j].seq < events[i].seq \/ (events[j].seq = events[i].seq /\ j < i)
Earlier(events, i) == {j \in 1..Len(events) : Precedes(events, j, i)}

\* Events in capture order.
InOrder(events) ==
    [k \in 1..Len(events) |-> events[CHOOSE i \in 1..Len(events) : Cardinality(Earlier(events, i)) = k - 1]]
=============================================================================
