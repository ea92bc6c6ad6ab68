-------------------------- MODULE MCWindowObserver --------------------------
(* Time starts when the observer is ready; it stops, and the game does no   *)
(* more, when a pass is no longer possible or the worker is gone.  Of the   *)
(* game, two changes: a window or the foreground may be held for longer     *)
(* than a pass allows and be given up before the end.  Another process      *)
(* takes a handle that the worker holds: any other one, to the observer, is *)
(* as good as none.                                                         *)
EXTENDS WindowObserver

PassPossible ==
    /\ parent.phase \in {"open", "signal", "join"} /\ parent.healthy /\ worker.phase # "exited"
    /\ ~(taken.gap \/ taken.bad \/ taken.front \/ taken.shown \/ worker.errors)
Timely == game' # game => PassPossible
TakesHeld == \A h \in Handles : game.win[h] # "foreign" /\ game'.win[h] = "foreign" => h \in worker.held
MCNext ==
    \/ Tick /\ PassPossible
    \/ Launch /\ Timely
    \/ GameActs /\ Timely /\ TakesHeld
    \/ GameDies /\ Timely
    \/ Monitor \/ Sampler \/ WorkerDies \/ Damage
MCSpec == ObserverInit /\ [][MCNext]_observerVars /\ WF_observerVars(Monitoring)
=============================================================================
