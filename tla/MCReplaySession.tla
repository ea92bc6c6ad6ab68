--------------------------- MODULE MCReplaySession ---------------------------
(* Two requests and two updates per run; the replayed game begins one      *)
(* revision later than its source.  When the environment interferes, at    *)
(* most one update of each game is out of the ordinary and the replay goes *)
(* to the end or to tick one: the faults are explored on small games, the  *)
(* games freely when nothing interferes.                                   *)
EXTENDS ReplaySession

MCOutcomes ==
    {[Pick0 EXCEPT !.g = g] : g \in Values}
        \cup {[Pick0 EXCEPT !.birth = 1]}
        \cup {[Pick0 EXCEPT !.end = e] : e \in {"wave", "scene", "zero"}}

MCHarms == AllHarms

Odd(went) ==
    LET OddCall(c) == c.birth # 0 \/ c.to # 0 \/ c.ui # Fight
    IN FoldLeft(+, 0, [i \in DOMAIN went |->
           Cardinality({k \in DOMAIN went[i].path : OddCall(went[i].path[k])})
               + (IF went[i].stop = "wave_changed" THEN 1 ELSE 0)])

Bounded ==
    /\ live # Nothing => begin.rev = 1
    /\ harm # "none" => /\ Odd(src.went) <= 1
                        /\ live # Nothing => Odd(live.went) <= 1 /\ target \in {NoTarget, 1}
=============================================================================
