--------------------------- MODULE MCLifecycleRun -------------------------
(* Three slots, so that births nest deeper than the hook follows and a     *)
(* first kill has a rival; two calls, one before and one inside the window.*)
EXTENDS LifecycleRun, TLC

CONSTANTS s1, s2, s3
Symmetry == Permutations({s1, s2, s3})

Crowd == Cardinality({s \in Slots : pool[s].used}) = Cardinality(Slots)

\* Every zombie lives in its first phase, or dies.
Settled == \A s \in Slots : pool[s].stage \in {0} \cup Death

\* The last happening leaves no fault and no zombie in another phase, or is
\* the birth that nests deeper than the hook follows: only then are three
\* slots held.
Bounded ==
    IF Crowd THEN "spawn" \in faults
    ELSE happened = MaxHappenings => faults = {} /\ Settled
=============================================================================
