---------------------------- MODULE ColdWorkers ----------------------------
(***************************************************************************)
(* Cold replays of one recorded source in at most two worker processes     *)
(* (cold_workers.py).  The parent polls its workers, collects and verifies *)
(* the receipt of each one that exited, ends the ones past their deadline, *)
(* and fills a vacancy only while nothing has failed.  A worker waits until*)
(* the parent has put it in a job object and armed it, replays the source, *)
(* checks that the source and the code are unchanged and writes a receipt. *)
(***************************************************************************)
EXTENDS Integers, Sequences, FiniteSets

CONSTANTS
    Repeats,      \* the replays 1..Repeats (plan.cold_starts - 1)
    MaxFaults     \* bound: failures of a whole suite

ASSUME ColdAssumption == Repeats \in Nat \ {0} /\ MaxFaults \in Nat

VARIABLES
    cold,     \* the scheduler: phase, queue, running, toPoll, results, started, failed, primary
    hosts,    \* the worker of each repeat, with its job, game and receipt
    kept,     \* the source archive and the package are what the tasks name
    faults    \* ghost: failures so far

coldVars == <<cold, hosts, kept, faults>>

Colds == 1..Repeats
NoReceipt == [passed |-> FALSE, unchanged |-> FALSE, written |-> FALSE]
NoHost == [proc |-> "none", armed |-> FALSE, game |-> FALSE, job |-> FALSE, late |-> FALSE,
           real |-> FALSE, receipt |-> NoReceipt, code |-> 0]
NoSchedule == [phase |-> "idle", queue |-> [i \in Colds |-> i], running |-> <<>>, toPoll |-> <<>>,
               results |-> <<>>, started |-> {}, failed |-> FALSE, primary |-> FALSE]

ColdInit ==
    /\ cold = NoSchedule
    /\ hosts = [r \in Colds |-> NoHost]
    /\ kept = TRUE /\ faults = 0

Alive(r) == hosts[r].proc \notin {"none", "exited"}
Fault == faults < MaxFaults /\ faults' = faults + 1
Well == UNCHANGED faults

----------------------------------------------------------------------------
(* worker *)

HostStep(r, from, h) == hosts[r].proc = from /\ hosts' = [hosts EXCEPT ![r] = h]

(* Armed, with the cache, the source and the code it was told of, it starts *)
(* its game; otherwise, or when it is never armed, it fails.               *)
HostBegin(r) ==
    /\ \/ /\ hosts[r].armed /\ kept
          /\ HostStep(r, "waiting", [hosts[r] EXCEPT !.proc = "working", !.game = TRUE])
       \/ HostStep(r, "waiting", [hosts[r] EXCEPT !.proc = "sealing"])
    /\ UNCHANGED <<cold, kept, faults>>

(* run_cold_attempt: a complete replay that is equal, with every gate of a *)
(* cold passed and its game stopped; or a failure, which may leave the game.*)
HostAttempt(r) ==
    /\ \/ HostStep(r, "working", [hosts[r] EXCEPT !.proc = "sealing", !.game = FALSE, !.real = TRUE]) /\ Well
       \/ /\ \E g \in BOOLEAN : HostStep(r, "working", [hosts[r] EXCEPT !.proc = "sealing", !.game = g])
          /\ Fault
    /\ UNCHANGED <<cold, kept>>

(* The last checks turn a success into a failure. *)
HostSeal(r) ==
    /\ HostStep(r, "sealing", [hosts[r] EXCEPT !.proc = "exiting",
           !.receipt = [passed |-> hosts[r].real /\ kept, unchanged |-> kept, written |-> TRUE]])
    /\ UNCHANGED <<cold, kept, faults>>

HostExit(r) ==
    /\ HostStep(r, "exiting", [hosts[r] EXCEPT !.proc = "exited",
           !.code = IF hosts[r].receipt.passed THEN 0 ELSE 1])
    /\ UNCHANGED <<cold, kept, faults>>

HostDies(r) ==
    /\ Alive(r) /\ Fault
    /\ hosts' = [hosts EXCEPT ![r] = [@ EXCEPT !.proc = "exited", !.code = 1]]
    /\ UNCHANGED <<cold, kept>>

HostWorks == \E r \in Colds : HostBegin(r) \/ HostAttempt(r) \/ HostSeal(r) \/ HostExit(r)

(* The source archive or the package changes on disk. *)
Touch ==
    /\ kept /\ Fault /\ kept' = FALSE
    /\ UNCHANGED <<cold, hosts>>

(* The wall clock passes the worker's deadline. *)
Expire(r) ==
    /\ Alive(r) /\ ~hosts[r].late
    /\ hosts' = [hosts EXCEPT ![r].late = TRUE]
    /\ UNCHANGED <<cold, kept, faults>>

----------------------------------------------------------------------------
(* WorkerProcess *)

(* Closing the job ends everything in it. *)
JobClosed(h) == [h EXCEPT !.job = FALSE, !.game = FALSE,
                          !.proc = IF h.proc = "exited" THEN @ ELSE "exited",
                          !.code = IF h.proc = "exited" THEN @ ELSE 1]

(* __init__ with its failures: nothing was created, or the host was created *)
(* and ended, or it was not even put in the job and could not be ended: it  *)
(* will never be armed.                                                     *)
StartedHost == [NoHost EXCEPT !.proc = "waiting", !.armed = TRUE, !.job = TRUE]
UnstartedHosts == {NoHost, [NoHost EXCEPT !.proc = "exited", !.code = 1], [NoHost EXCEPT !.proc = "waiting"]}

(* verify_result of what the worker left. *)
VerifiedReceipt(h) == h.receipt.written /\ ~h.game /\ h.receipt.passed /\ h.receipt.unchanged
Verified(h) ==
    /\ h.receipt.written
    /\ ~h.game
    /\ h.receipt.passed /\ h.receipt.unchanged /\ h.code = 0 /\ kept

(* finish, or emergency_finish when that raises.  What cannot be closed is  *)
(* left behind.                                                             *)
Collect(r, passed) ==
    \/ passed = Verified(hosts[r]) /\ hosts' = [hosts EXCEPT ![r] = JobClosed(@)] /\ Well
    \/ /\ passed = FALSE /\ Fault
       /\ \E h \in {hosts[r], JobClosed(hosts[r])} : hosts' = [hosts EXCEPT ![r] = h]
Emergency(r, passed) ==
    /\ passed = FALSE
    /\ \/ hosts' = [hosts EXCEPT ![r] = JobClosed(@)] /\ Well
       \/ UNCHANGED hosts /\ Fault

(* collect_if_finished: a status query that fails counts as a failure.      *)
Finished(r, passed) ==
    \/ hosts[r].proc = "exited" /\ Collect(r, passed)
    \/ hosts[r].proc # "exited" /\ hosts[r].late /\ Emergency(r, passed)
    \/ /\ passed = FALSE /\ Fault
       /\ \E h \in {hosts[r], JobClosed(hosts[r])} : hosts' = [hosts EXCEPT ![r] = h]
StillRunningLate(r) == hosts[r].proc # "exited"
StillRunning(r) == hosts[r].proc # "exited" /\ ~hosts[r].late

----------------------------------------------------------------------------
(* schedule *)

(* What is left of the running ones, in their order, without one of them. *)
Without(s, r) == [i \in 1..(Len(s) - 1) |-> IF \E j \in 1..i : s[j] = r THEN s[i + 1] ELSE s[i]]

(* One worker of the pass over the running ones. *)
PollOne ==
    /\ cold.phase \in {"poll", "drain"} /\ cold.toPoll # <<>>
    /\ LET r == Head(cold.toPoll)
       IN \/ /\ StillRunning(r)
             /\ cold' = [cold EXCEPT !.toPoll = Tail(@)]
             /\ UNCHANGED <<hosts, faults>>
          \/ \E passed \in BOOLEAN :
                /\ Finished(r, passed)
                /\ cold' = [cold EXCEPT !.toPoll = Tail(@), !.running = Without(@, r),
                                        !.results = Append(@, [repeat |-> r, passed |-> passed]),
                                        !.failed = @ \/ ~passed]
    /\ UNCHANGED kept

(* Every running worker was polled. *)
PassEnds ==
    /\ cold.toPoll = <<>>
    /\ \/ cold.phase = "poll" /\ cold' = [cold EXCEPT !.phase = "refill"]
       \/ cold.phase = "drain" /\ cold' = [cold EXCEPT !.phase = IF cold.running = <<>> THEN "query" ELSE "rest"]
    /\ UNCHANGED <<hosts, kept, faults>>

Vacancy == ~cold.failed /\ cold.queue # <<>> /\ Len(cold.running) < 2

Refill ==
    /\ cold.phase = "refill" /\ Vacancy
    /\ LET r == Head(cold.queue)
       IN \/ /\ hosts' = [hosts EXCEPT ![r] = StartedHost]
             /\ cold' = [cold EXCEPT !.queue = Tail(@), !.running = Append(@, r), !.started = @ \cup {r}]
             /\ Well
          \/ /\ \E h \in UnstartedHosts : hosts' = [hosts EXCEPT ![r] = h]
             /\ cold' = [cold EXCEPT !.queue = Tail(@), !.failed = TRUE,
                                     !.results = Append(@, [repeat |-> r, passed |-> FALSE])]
             /\ Fault
    /\ UNCHANGED kept

(* Nothing to start now: the loop ends, or sleeps. *)
Settle ==
    /\ cold.phase = "refill" /\ ~Vacancy
    /\ cold' = [cold EXCEPT !.phase = IF cold.running # <<>> THEN "wait" ELSE "query"]
    /\ UNCHANGED <<hosts, kept, faults>>

(* The sleep, which an interrupt may end: from then on the parent only      *)
(* collects what is in flight.                                              *)
Poll(next) == [cold EXCEPT !.phase = next, !.toPoll = cold.running]
Sleep ==
    /\ \/ cold.phase = "wait" /\ cold' = Poll("poll") /\ Well
       \/ cold.phase = "rest" /\ cold' = Poll("drain") /\ Well
       \/ /\ cold.phase \in {"wait", "rest"} /\ Fault
          /\ cold' = [Poll("drain") EXCEPT !.failed = TRUE, !.primary = TRUE]
    /\ UNCHANGED <<hosts, kept>>

(* The last query, the summary, and run_parallel_colds: an error of the     *)
(* parent takes the pass of the last result, so that the suite cannot claim *)
(* a success.                                                               *)
Dead(r) == hosts[r].proc = "exited"
LastRepeat == CHOOSE i \in DOMAIN cold.results :
                  \A j \in DOMAIN cold.results : cold.results[j].repeat <= cold.results[i].repeat
DemotedNever(error) == cold.results
Demoted(error) ==
    IF error /\ cold.results # <<>> /\ \A i \in DOMAIN cold.results : cold.results[i].passed
    THEN [cold.results EXCEPT ![LastRepeat].passed = FALSE] ELSE cold.results
Summary ==
    /\ cold.phase = "query"
    /\ \E error \in {cold.primary \/ \E r \in cold.started : ~Dead(r), TRUE} :
          /\ IF error /\ ~cold.primary /\ (\A r \in cold.started : Dead(r)) THEN Fault ELSE Well
          /\ cold' = [cold EXCEPT !.phase = "done", !.primary = error, !.results = Demoted(error)]
    /\ UNCHANGED <<hosts, kept>>

Scheduler == PollOne \/ PassEnds \/ Refill \/ Settle \/ Sleep \/ Summary

ColdStep == Scheduler \/ HostWorks \/ Touch \/ (\E r \in Colds : HostDies(r) \/ Expire(r))

(* What the suite makes of the results. *)
AllCold == \A i \in DOMAIN cold.results : cold.results[i].passed

----------------------------------------------------------------------------
ColdType ==
    /\ cold \in [phase : {"idle", "poll", "drain", "refill", "wait", "rest", "query", "done"},
                 queue : Seq(Colds), running : Seq(Colds), toPoll : Seq(Colds),
                 results : Seq([repeat : Colds, passed : BOOLEAN]), started : SUBSET Colds,
                 failed : BOOLEAN, primary : BOOLEAN]
    /\ hosts \in [Colds -> [proc : {"none", "waiting", "working", "sealing", "exiting", "exited"},
                            armed : BOOLEAN, game : BOOLEAN, job : BOOLEAN, late : BOOLEAN,
                            real : BOOLEAN, code : {0, 1},
                            receipt : [passed : BOOLEAN, unchanged : BOOLEAN, written : BOOLEAN]]]
    /\ kept \in BOOLEAN /\ faults \in 0..MaxFaults

(* Whatever is interrupted or fails, every replay is queued, running or     *)
(* reported, once; never more than two games run; and a worker or a game    *)
(* left behind at the end, which only a failed clean-up can leave, takes    *)
(* the suite's pass.                                                        *)
Reported == {cold.results[i].repeat : i \in DOMAIN cold.results}
Waiting == {cold.queue[i] : i \in DOMAIN cold.queue}
Flying == {cold.running[i] : i \in DOMAIN cold.running}
ColdsAccounted ==
    /\ ColdType
    /\ Reported \cup Waiting \cup Flying = Colds
    /\ Len(cold.results) + Len(cold.queue) + Len(cold.running) = Repeats
    /\ cold.phase = "done" /\ AllCold =>
           cold.queue = <<>> /\ \A r \in Colds : Dead(r) /\ ~hosts[r].game
    /\ Cardinality({r \in Colds : hosts[r].game}) <= 2

(* A replay counts as passed only when its worker really replayed the whole *)
(* source, found it unchanged afterwards, and exited normally with nothing  *)
(* of its tree left.                                                        *)
PassedReal ==
    \A i \in DOMAIN cold.results : cold.results[i].passed =>
        LET h == hosts[cold.results[i].repeat]
        IN h.real /\ h.receipt.unchanged /\ h.code = 0 /\ ~h.game /\ Dead(cold.results[i].repeat)
=============================================================================
