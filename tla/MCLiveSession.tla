--------------------------- MODULE MCLiveSession ---------------------------
(* Source runs of three ticks with two pause points, and replays.  Every    *)
(* plan is played; a session goes wrong where the plain plan is played and  *)
(* ends after at most one commit, so that not every cleanup is run after    *)
(* every play.                                                              *)
EXTENDS LiveSession

MCPoints == <<1, 3>>

Plain == ~plan.stops /\ plan.intervention = NoIntervention
Explored ==
    /\ role = "cold" => Plain
    /\ faults = 0 \/ (Plain /\ Len(sent) <= 1)
=============================================================================
