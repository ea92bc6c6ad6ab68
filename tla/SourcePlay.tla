----------------------------- MODULE SourcePlay -----------------------------
(***************************************************************************)
(* The source run of an evaluation (evaluation.py): _play_source asks the  *)
(* strategy for decisions and commits them until one of its ends, carries  *)
(* out at most one declared intervention, and probes the paused game at    *)
(* the plan's pause points (PauseSchedule).  Resources are looked at only  *)
(* at completed boundaries (BoundaryBudget).                               *)
(*                                                                         *)
(* A boundary is its version (tick and revision; one fight, one epoch),    *)
(* the screen, whether the wave of stop_when is reached, the rounds the    *)
(* run has completed (each after wave 20, on the expected scene), and      *)
(* whether the intervention's preconditions hold.                          *)
(***************************************************************************)
EXTENDS Integers, Sequences, FiniteSets

CONSTANTS
    TickBudget,   \* plan.tick_budget
    ChunkTicks,   \* plan.chunk_ticks
    RequestTicks, \* the most ticks of one request (100000)
    Rounds,       \* plan.rounds_to_complete
    Points,       \* plan.pause_points: an increasing sequence of ticks
    DiskTicks,    \* plan.disk_check_ticks
    StallLimit    \* decisions without a tick before strategy_no_progress (16)

ASSUME PlayAssumption ==
    /\ TickBudget \in Nat \ {0} /\ ChunkTicks \in 1..TickBudget
    /\ RequestTicks \in Nat /\ ChunkTicks <= RequestTicks /\ Rounds \in Nat \ {0}
    /\ DiskTicks \in Nat \ {0} /\ StallLimit \in Nat \ {0}
    /\ Points \in Seq(Nat)
    /\ \A i \in DOMAIN Points : Points[i] > (IF i = 1 THEN 0 ELSE Points[i - 1])

VARIABLES
    plan,     \* the declared intervention and stop condition
    obs,      \* the last observation
    play,     \* the loop: phase, decision, outcome, stalled
    fired,    \* intervention_record: fired, and at which version
    budget,   \* BoundaryBudget: stop, bucket
    pauses,   \* PauseSchedule: points left, completed, unexecuted
    sent      \* ghost: each commit with the version and the stop it was sent at

playVars == <<plan, obs, play, fired, budget, pauses, sent>>

Nowhere == [tick |-> 0, rev |-> 0]
Ends == {"none", "full_cycle_completed", "game_over", "round_handoff_required", "terminal_before_complete",
         "tick_budget_exhausted", "strategy_no_progress", "disk_reserve_stop",
         "wall_budget_exhausted", "stop_condition_reached", "intervention_not_reached",
         "intervention_precondition_failed", "intervention_failed", "other_stop"}

(* intervention_spec, stop_condition_spec and Plan.validate: a declared     *)
(* boundary within the budget, from B1 on; an action or the control branch  *)
(* without one; a stop condition only beside an intervention.               *)
NoIntervention == [at |-> Nowhere, acts |-> FALSE, ticks |-> 0]
Interventions == {i \in [at : [tick : 1..TickBudget, rev : 0..1], acts : BOOLEAN, ticks : 0..ChunkTicks] :
                     ~i.acts => i.ticks = 0}
PlayPlans == [intervention : Interventions \cup {NoIntervention}, stops : BOOLEAN]
ValidPlan(p) == p.stops => p.intervention # NoIntervention
Declared == plan.intervention # NoIntervention

Observations == [tick : Nat, rev : Nat, ui : {"play", "over", "select"}, wave : BOOLEAN,
                 rounds : 0..Rounds, fits : BOOLEAN]
(* Waves and preconditions are only told apart for a plan that asks.       *)
Asked(o) == (o.wave => plan.stops) /\ (~o.fits => Declared)
Version(o) == [tick |-> o.tick, rev |-> o.rev]

(* BoundaryBudget.check: the first stop stays; the disk is sampled once per *)
(* bucket, the wall clock is read every time.                               *)
Checked(b, o) ==
    IF b.stop # "none" THEN {b}
    ELSE LET bucket == o.tick \div DiskTicks
         IN {[stop |-> s, bucket |-> bucket] :
                s \in {"none", "wall_budget_exhausted"}
                      \cup (IF bucket # b.bucket THEN {"disk_reserve_stop"} ELSE {})}

(* Play begins after the first single step, which may have ended the fight, *)
(* and after a look at the resources that only notes a stop.               *)
PlayInit ==
    /\ plan \in {p \in PlayPlans : ValidPlan(p)}
    /\ obs \in {o \in [tick : {1}, rev : {0}, ui : {"play", "over", "select"}, wave : BOOLEAN,
                        rounds : {0}, fits : BOOLEAN] : Asked(o)}
    /\ play = [phase |-> "first", decision |-> 0, outcome |-> "none", stalled |-> 0]
    /\ fired = [done |-> FALSE, at |-> Nowhere]
    /\ budget \in Checked([stop |-> "none", bucket |-> 0], obs)
    /\ pauses = [points |-> Points, completed |-> <<>>, unexecuted |-> <<>>]
    /\ sent = <<>>

----------------------------------------------------------------------------
(* PauseSchedule.after_step: every point the boundary has reached is probed *)
(* in turn, or set aside when the run is out of resources or no longer in   *)
(* play.  A probe that fails leaves the loop with the rest still to come.   *)
DueNow(p, o) == {i \in DOMAIN p.points : p.points[i] < o.tick}
Due(p, o) == {i \in DOMAIN p.points : p.points[i] <= o.tick}
FirstOf(n, p) == SubSeq(p.points, 1, n)
AfterFirst(n, p) == SubSeq(p.points, n + 1, Len(p.points))
Unprobed(p, n) == [points |-> AfterFirst(n, p), completed |-> p.completed,
                   unexecuted |-> p.unexecuted \o FirstOf(n, p)]
Probed(p, n) == [points |-> AfterFirst(n, p), completed |-> p.completed \o FirstOf(n, p),
                 unexecuted |-> p.unexecuted]
ProbeFailed(p, n) == [points |-> AfterFirst(n + 1, p), completed |-> p.completed \o FirstOf(n, p),
                      unexecuted |-> Append(p.unexecuted, p.points[n + 1])]
AfterStep(p, o, stop) ==
    LET n == Cardinality(Due(p, o))
    IN IF stop # "none" \/ o.ui # "play" THEN {[failed |-> FALSE, p |-> Unprobed(p, n)]}
       ELSE {[failed |-> FALSE, p |-> Probed(p, n)]}
            \cup {[failed |-> TRUE, p |-> ProbeFailed(p, k)] : k \in 0..(n - 1)}

Leave(outcome) == play' = [play EXCEPT !.phase = "done", !.outcome = outcome]
Raise == play' = [play EXCEPT !.phase = "raised"]

(* The boundary after the first single step. *)
First ==
    /\ play.phase = "first"
    /\ \E r \in AfterStep(pauses, obs, budget.stop) :
          /\ pauses' = r.p
          /\ IF r.failed THEN Raise ELSE play' = [play EXCEPT !.phase = "top"]
    /\ UNCHANGED <<plan, obs, fired, budget, sent>>

----------------------------------------------------------------------------
(* The top of the loop, in the order of its tests. *)

(* intervention_relation: versions compare by tick, then revision. *)
Before(v, w) == v.tick < w.tick \/ (v.tick = w.tick /\ v.rev < w.rev)
AtOrPast(v, w) == ~Before(v, w)
At(v, w) == v = w
Relation(v, w) == IF At(v, w) THEN "at" ELSE IF Before(v, w) THEN "before" ELSE "past"

Stalled == play.stalled >= StallLimit

EarlyEnd ==
    IF obs.rounds >= Rounds THEN "full_cycle_completed"
    ELSE IF obs.ui = "over" THEN "game_over"
    ELSE IF obs.ui # "play" THEN IF obs.rounds >= 1 THEN "round_handoff_required"
                                 ELSE "terminal_before_complete"
    ELSE IF obs.tick >= TickBudget THEN "tick_budget_exhausted"
    ELSE IF Stalled THEN "strategy_no_progress"
    ELSE "none"

LateEnd ==
    CASE plan.stops /\ obs.wave -> IF fired.done THEN "stop_condition_reached"
                                   ELSE "intervention_not_reached"
      [] Declared /\ ~fired.done /\ Relation(Version(obs), plan.intervention.at) = "past" ->
             "intervention_not_reached"
      [] Declared /\ ~fired.done /\ Relation(Version(obs), plan.intervention.at) = "at" /\ ~obs.fits ->
             "intervention_precondition_failed"
      [] OTHER -> "none"

End == IF EarlyEnd # "none" THEN EarlyEnd ELSE IF budget'.stop # "none" THEN budget'.stop ELSE LateEnd

Intervening == /\ Declared /\ ~fired.done
               /\ Relation(Version(obs), plan.intervention.at) = "at"

(* One pass over the top: it ends the run, goes to the intervention, or to  *)
(* the strategy (through the control branch, which sends nothing).          *)
Top ==
    /\ play.phase = "top"
    /\ IF EarlyEnd # "none" THEN UNCHANGED budget ELSE budget' \in Checked(budget, obs)
    /\ IF End # "none" THEN Leave(End) /\ UNCHANGED fired
       ELSE IF Intervening /\ plan.intervention.acts
            THEN play' = [play EXCEPT !.phase = "intervene"] /\ UNCHANGED fired
       ELSE /\ play' = [play EXCEPT !.phase = "decide"]
            /\ fired' = IF Intervening THEN [done |-> TRUE, at |-> Version(obs)] ELSE fired
    /\ UNCHANGED <<plan, obs, pauses, sent>>

(* ScriptStrategy.decide: ticks within the remaining budget and one request;*)
(* anything else, and an exception of the script, raises.                   *)
Decisions == {n \in 0..(TickBudget - obs.tick) : n <= RequestTicks}

StrategyRaises ==
    /\ play.phase = "decide"
    /\ Raise
    /\ UNCHANGED <<plan, obs, fired, budget, pauses, sent>>

DecideUnchecked ==
    /\ play.phase = "decide"
    /\ \E n \in Decisions : \E b \in Checked(budget, obs) :
             /\ budget' = b
             /\ play' = [play EXCEPT !.phase = "commit", !.decision = n]
    /\ UNCHANGED <<plan, obs, fired, pauses, sent>>

(* The strategy takes its time; the budget is looked at again before a      *)
(* mutation is sent.                                                        *)
Decide ==
    /\ play.phase = "decide"
    /\ \E n \in Decisions : \E b \in Checked(budget, obs) :
             /\ budget' = b
             /\ IF b.stop # "none" THEN Leave(b.stop)
                ELSE play' = [play EXCEPT !.phase = "commit", !.decision = n]
    /\ UNCHANGED <<plan, obs, fired, pauses, sent>>

----------------------------------------------------------------------------
(* What the controller may answer a commit of n ticks with.  Actions move   *)
(* the revision, an update the tick, which starts the revision again; the   *)
(* client raises if it executed more ticks than were asked for.            *)
(* "scene_changed" is the update that left the fight with its board: it     *)
(* moved the clock, or it did not and the game is over.  "action_failed"    *)
(* runs no update.  "other_stop" is any reason the loop does not go on      *)
(* with: the runtime shuts down, or an update moved the clock by none or    *)
(* too many.  A replaced board is an error answer.                          *)
Moved(a) == a.tick > obs.tick
Answers(n, intervenes) ==
    {a \in [tick : obs.tick..(obs.tick + n), rev : {0, obs.rev, obs.rev + 1},
            ui : {"play", "over", "select"}, wave : BOOLEAN, rounds : obs.rounds..Rounds, fits : BOOLEAN,
            stop : {"budget_exhausted", "action_failed", "scene_changed", "other_stop"}] :
        /\ Asked(a)
        /\ a.ui = "play" /\ obs.wave => a.wave
        /\ a.rev \in IF Moved(a) THEN {0} ELSE IF intervenes THEN {obs.rev + 1} ELSE {obs.rev, obs.rev + 1}
        /\ a.stop = "budget_exhausted" =>
               /\ a.tick = obs.tick + n
               /\ Version(a) = Version(obs) => <<a.wave, a.rounds, a.fits>> = <<obs.wave, obs.rounds, obs.fits>>
        /\ a.stop = "action_failed" => ~Moved(a) /\ a.rev = obs.rev + 1
        /\ a.stop = "scene_changed" => n > 0 /\ (Moved(a) \/ a.ui = "over")
        /\ a.stop = "scene_changed" <=> a.ui # "play"}

(* A commit and everything the loop does with its answer before the next    *)
(* pass: a lost connection, an error answer or a failed probe raises; a     *)
(* failed intervention and an unknown stop end the run; any other answer,   *)
(* one that left the fight too, goes back to the top.                       *)
After(a, intervenes) ==
    IF intervenes /\ a.stop = "action_failed" THEN "intervention_failed"
    ELSE IF a.stop = "other_stop" THEN "other_stop" ELSE "none"
Unanswered == Raise /\ UNCHANGED <<obs, fired, budget, pauses>>
Answered(a, intervenes) ==
    /\ obs' = [tick |-> a.tick, rev |-> a.rev, ui |-> a.ui, wave |-> a.wave, rounds |-> a.rounds, fits |-> a.fits]
    /\ fired' = IF intervenes THEN [done |-> TRUE, at |-> Version(obs)] ELSE fired
    /\ \E b \in Checked(budget, obs') : \E r \in AfterStep(pauses, obs', b.stop) :
          /\ pauses' = r.p
          /\ budget' \in IF r.failed THEN {b} ELSE Checked(b, obs')
          /\ LET outcome == IF r.failed THEN "none" ELSE After(a, intervenes)
             IN play' = [play EXCEPT
                    !.phase = IF r.failed THEN "raised" ELSE IF outcome # "none" THEN "done" ELSE "top",
                    !.outcome = outcome,
                    !.stalled = IF Moved(a) THEN 0 ELSE @ + 1]
Commit(n, intervenes) ==
    /\ sent' = Append(sent, [at |-> Version(obs), stop |-> budget.stop, intervenes |-> intervenes])
    /\ Unanswered \/ \E a \in Answers(n, intervenes) : Answered(a, intervenes)
    /\ UNCHANGED plan

Intervene == play.phase = "intervene" /\ Commit(plan.intervention.ticks, TRUE)
Act == play.phase = "commit" /\ Commit(play.decision, FALSE)

PlayStep == First \/ Top \/ StrategyRaises \/ Decide \/ Intervene \/ Act

PlayOver == play.phase \in {"done", "raised"}

----------------------------------------------------------------------------
PlayType ==
    /\ plan \in PlayPlans /\ obs \in Observations
    /\ play.phase \in {"first", "top", "decide", "intervene", "commit", "done", "raised"}
    /\ play.outcome \in Ends /\ play.stalled \in 0..StallLimit /\ play.decision \in 0..RequestTicks
    /\ fired.done \in BOOLEAN /\ budget.stop \in Ends

(* Every pause point is accounted for once and in the plan's order, however *)
(* many fall due at one boundary and wherever the run ends: first the probed*)
(* ones, then those set aside, then those beyond the last boundary; nothing *)
(* is probed once a point was set aside.  A coverage report that passes     *)
(* means that the game was probed at every point the run reached.           *)
PausesAccounted ==
    /\ pauses.completed \o pauses.unexecuted \o pauses.points = Points
    /\ play.phase = "done" /\ pauses.unexecuted = <<>> =>
           \A i \in DOMAIN Points : Points[i] <= obs.tick =>
               \E j \in DOMAIN pauses.completed : pauses.completed[j] = Points[i]

(* The declared action is sent at most once and only at exactly the declared*)
(* version, never late; nothing is sent after a resource stop was observed; *)
(* and a run that ended by its stop condition did intervene.                *)
InterventionExact ==
    /\ \A i \in DOMAIN sent : sent[i].stop = "none"
    /\ \A i \in DOMAIN sent : sent[i].intervenes =>
           /\ sent[i].at = plan.intervention.at
           /\ \A j \in DOMAIN sent : sent[j].intervenes => i = j
    /\ play.phase = "done" /\ plan.intervention.acts =>
           fired.done = (\E i \in DOMAIN sent : sent[i].intervenes)
    /\ play.outcome = "stop_condition_reached" /\ plan.intervention.acts =>
           \E i \in DOMAIN sent : sent[i].intervenes
=============================================================================
