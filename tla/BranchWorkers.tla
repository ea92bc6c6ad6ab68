---------------------------- MODULE BranchWorkers ----------------------------
(***************************************************************************)
(* The parallel branch workers (branch_workers.py): the scheduler of       *)
(* run_branches starts one process per branch, at most plan.workers at a   *)
(* time, collects each one when it exits or passes its deadline, seals the *)
(* device windows that dead workers left open and writes the report.  A    *)
(* worker waits to be armed, takes the device lease if the plan asks for   *)
(* one, runs its executor, writes its release line, drops the lock, seals  *)
(* its evidence and writes its receipt.                                    *)
(*                                                                         *)
(* Branches are 1..N in plan order.  A directory is the number of foreign  *)
(* writes made into it, so two manifests differ iff the numbers differ.    *)
(* A journal line is an event of a branch: a worker has one token.         *)
(***************************************************************************)
EXTENDS Integers, Sequences, FiniteSets

CONSTANTS
    N,           \* branches of the plan
    MaxFaults    \* bound: faults (crashes, failed calls, foreign writes) in a run

ASSUME NAssumption == N \in Nat \ {0}
ASSUME FaultAssumption == MaxFaults \in Nat

Branches == 1..N
Nobody == 0

VARIABLES
    plan,      \* the validated plan: workers, policy, steps, group
    pc,        \* each worker's place in worker()
    good,      \* receipt["status"] = "pass" so far
    acquired,  \* DeviceLease.acquired
    frames,    \* what the executor's frames say: they are equal or they are not
    lock,      \* the holder of the device mutex
    journal,   \* device-lease.jsonl
    dir,       \* foreign writes into each branch directory
    receipt,   \* each worker's receipt: its status and its evidence manifest
    late,      \* the branches past their deadline
    parent,    \* the scheduler: phase, branch at hand, armed workers, interrupted
    pending, running,
    result,    \* collect()'s results
    report,    \* report.json
    faults,    \* faults so far
    excused,   \* ghost: branches something was done to
    unseen     \* ghost: branches written to between collect()'s check and its manifest

workers == <<pc, good, acquired, frames, lock, journal, receipt>>
ghosts == <<faults, excused, unseen>>
vars == <<plan, workers, dir, late, parent, pending, running, result, report, ghosts>>

Policies == {"exclusive_lease", "shared_declared"}

(* Plan.from_dict, _device, _branches and _comparisons: workers within the *)
(* branches, and a group of at least two branches with the same steps.     *)
Groups(steps) == {{}} \cup {g \in SUBSET Branches : Cardinality(g) >= 2
                               /\ \A a, b \in g : steps[a] = steps[b]}
Plans == {p \in [workers : Branches, policy : Policies,
                 steps : [Branches -> {"s", "t"}], group : SUBSET Branches] :
              p.group \in Groups(p.steps)}

NoReceipt == [written |-> FALSE, good |-> FALSE, dir |-> 0]
NoResult == [status |-> "none", dir |-> 0]
NoReport == [written |-> FALSE, status |-> "none", of |-> {}, passed |-> {}, lease |-> "none",
             final |-> [b \in Branches |-> 0], verified |-> "none"]

Init ==
    /\ plan \in Plans
    /\ pc = [b \in Branches |-> "absent"]
    /\ good = [b \in Branches |-> FALSE]
    /\ acquired = [b \in Branches |-> FALSE]
    /\ frames = [b \in Branches |-> "equal"]
    /\ lock = Nobody
    /\ journal = <<>>
    /\ dir = [b \in Branches |-> 0]
    /\ receipt = [b \in Branches |-> NoReceipt]
    /\ late = {}
    /\ parent = [phase |-> "running", at |-> Nobody, armed |-> {}, primary |-> FALSE]
    /\ pending = [b \in Branches |-> b]
    /\ running = {}
    /\ result = [b \in Branches |-> NoResult]
    /\ report = NoReport
    /\ faults = 0
    /\ excused = {}
    /\ unseen = {}

Leased == plan.policy = "exclusive_lease"
Live(b) == pc[b] \notin {"absent", "exited", "killed"}
Line(e, b) == [event |-> e, branch |-> b]

(* A fault, charged to the branches it is done to. *)
Fault(bs) ==
    /\ faults < MaxFaults
    /\ faults' = faults + 1
    /\ excused' = excused \cup bs
    /\ UNCHANGED unseen

----------------------------------------------------------------------------
(* worker() *)

At(b, here) == pc[b] = here
Goes(b, there) == pc' = [pc EXCEPT ![b] = there]
Away == UNCHANGED <<plan, dir, late, parent, pending, running, result, report>>

(* A branch with a lease goes on to take it; in the end both kinds seal. *)
AfterArm == IF Leased THEN "acquiring" ELSE "executing"
AfterWork == IF Leased THEN "releasing" ELSE "sealing"

(* wait_for_arm: no work before the parent's arm receipt. *)
Armed(b) ==
    /\ At(b, "spawned") /\ b \in parent.armed
    /\ Goes(b, AfterArm)
    /\ Away
    /\ UNCHANGED <<good, acquired, frames, lock, journal, receipt, ghosts>>

(* wait_for_arm: the parent exited first. *)
Unarmed(b) ==
    /\ At(b, "spawned") /\ b \notin parent.armed /\ parent.phase = "dead"
    /\ Goes(b, "sealing")
    /\ Away
    /\ UNCHANGED <<good, acquired, frames, lock, journal, receipt, ghosts>>

(* DeviceLease.acquire: the mutex is granted... *)
Acquire(b) ==
    /\ At(b, "acquiring") /\ lock = Nobody
    /\ lock' = b
    /\ acquired' = [acquired EXCEPT ![b] = TRUE]
    /\ Goes(b, "locked")
    /\ Away
    /\ UNCHANGED <<good, frames, journal, receipt, ghosts>>

(* ...or lease_timeout_seconds pass while a sibling holds it: the worker   *)
(* fails with nothing to release.                                          *)
LeaseTimeout(b) ==
    /\ At(b, "acquiring") /\ lock # Nobody
    /\ Goes(b, "sealing")
    /\ excused' = excused \cup {b}
    /\ Away
    /\ UNCHANGED <<good, acquired, frames, lock, journal, receipt, faults, unseen>>

(* The acquire line; when it cannot be written the lock is already held    *)
(* and release() still runs.                                               *)
AcquireLine(b) ==
    /\ At(b, "locked")
    /\ \/ /\ journal' = Append(journal, Line("acquire", b))
          /\ Goes(b, "executing")
          /\ UNCHANGED ghosts
       \/ /\ Goes(b, "releasing")
          /\ Fault({b})
          /\ UNCHANGED journal
    /\ Away
    /\ UNCHANGED <<good, acquired, frames, lock, receipt>>

(* The executor and collect_frames: it passes, with the frames its steps   *)
(* determine or with others, or it raises.                                 *)
Execute(b) ==
    /\ At(b, "executing")
    /\ \/ good' = [good EXCEPT ![b] = TRUE] /\ UNCHANGED <<frames, ghosts>>
       \/ /\ good' = [good EXCEPT ![b] = TRUE]
          /\ frames' = [frames EXCEPT ![b] = "other"]
          /\ Fault({})
       \/ Fault({b}) /\ UNCHANGED <<good, frames>>
    /\ Goes(b, AfterWork)
    /\ Away
    /\ UNCHANGED <<acquired, lock, journal, receipt>>

(* DeviceLease.release: the line first.  When it cannot be written the     *)
(* mutex stays taken until the process exits.                              *)
ReleaseLine(b) ==
    /\ At(b, "releasing")
    /\ \/ /\ journal' = Append(journal, Line("release", b))
          /\ Goes(b, "unlocking")
          /\ acquired' = [acquired EXCEPT ![b] = FALSE]
          /\ UNCHANGED <<good, ghosts>>
       \/ /\ good' = [good EXCEPT ![b] = FALSE]
          /\ Goes(b, "sealing")
          /\ Fault({b})
          /\ UNCHANGED <<journal, acquired>>
    /\ Away
    /\ UNCHANGED <<frames, lock, receipt>>

(* _unlock. *)
Unlock(b) ==
    /\ At(b, "unlocking")
    /\ lock' = Nobody
    /\ Goes(b, "sealing")
    /\ Away
    /\ UNCHANGED <<good, acquired, frames, journal, receipt, ghosts>>

(* The evidence manifest and the receipt that carries it. *)
SealReceipt(b) ==
    /\ At(b, "sealing")
    /\ receipt' = [receipt EXCEPT ![b] = [written |-> TRUE, good |-> good[b], dir |-> dir[b]]]
    /\ Goes(b, "sealed")
    /\ Away
    /\ UNCHANGED <<good, acquired, frames, lock, journal, ghosts>>

(* A process that ends gives the mutex up. *)
Freed(bs) == IF lock \in bs THEN Nobody ELSE lock

Exit(b) ==
    /\ At(b, "sealed")
    /\ Goes(b, "exited")
    /\ lock' = Freed({b})
    /\ Away
    /\ UNCHANGED <<good, acquired, frames, journal, receipt, ghosts>>

Crash(b) ==
    /\ Live(b)
    /\ Goes(b, "killed")
    /\ lock' = Freed({b})
    /\ Fault({b})
    /\ Away
    /\ UNCHANGED <<good, acquired, frames, journal, receipt>>

Worker(b) ==
    \/ Armed(b) \/ Unarmed(b) \/ Acquire(b) \/ LeaseTimeout(b) \/ AcquireLine(b) \/ Execute(b)
    \/ ReleaseLine(b) \/ Unlock(b) \/ SealReceipt(b) \/ Exit(b) \/ Crash(b)

----------------------------------------------------------------------------
(* run_branches() *)

Phase(p) == parent' = [parent EXCEPT !.phase = p]
Handles(b, p) == parent' = [parent EXCEPT !.phase = p, !.at = b]

(* terminate_tree: every branch has a job of its own. *)
TerminatedAll(b) == {a \in Branches : Live(a)}
Terminated(b) == {a \in {b} : Live(a)}

(* The workers bs are killed. *)
Kill(bs) ==
    /\ pc' = [b \in Branches |-> IF b \in bs THEN "killed" ELSE pc[b]]
    /\ lock' = Freed(bs)
    /\ UNCHANGED <<good, acquired, frames, journal, receipt>>

(* WorkerProcess: the directory, the task of task_for and the process... *)
Dispatch ==
    /\ parent.phase = "running"
    /\ pending # <<>> /\ Cardinality(running) < plan.workers
    /\ Goes(Head(pending), "spawned")
    /\ pending' = Tail(pending)
    /\ Handles(Head(pending), "arming")
    /\ UNCHANGED <<plan, good, acquired, frames, lock, journal, receipt, dir, late, running,
                   result, report, ghosts>>

(* ...its job and its arm receipt... *)
Arm ==
    /\ parent.phase = "arming"
    /\ running' = running \cup {parent.at}
    /\ parent' = [parent EXCEPT !.phase = "running", !.armed = @ \cup {parent.at}]
    /\ UNCHANGED <<plan, workers, dir, late, pending, result, report, ghosts>>

(* ...or one of them fails: the worker is terminated and the branch fails  *)
(* at its start; the others go on.                                         *)
StartFails ==
    /\ parent.phase = "arming"
    /\ Kill(Terminated(parent.at))
    /\ result' = [result EXCEPT ![parent.at] = [status |-> "failed", dir |-> dir[parent.at]]]
    /\ Phase("running")
    /\ Fault({parent.at})
    /\ UNCHANGED <<plan, dir, late, pending, running, report>>

(* _read_receipt and the evidence check of collect, for a worker that      *)
(* exited, or was killed just now.                                         *)
ReceiptTrusted(b) == receipt[b].written /\ receipt[b].good /\ pc[b] = "exited"
ReceiptPasses(b) ==
    /\ receipt[b].written /\ receipt[b].good
    /\ pc[b] = "exited"
    /\ receipt[b].dir = dir[b]

Check(b, reason) ==
    /\ Handles(b, "collecting")
    /\ result' = [result EXCEPT ![b] =
          [status |-> IF ReceiptPasses(b) /\ ~reason THEN "passed" ELSE "failed", dir |-> 0]]
    /\ UNCHANGED <<plan, dir, late, pending, running, report, ghosts>>

(* The scheduler polls a worker that exited: it is collected, and fails if *)
(* it finished past its deadline. *)
Poll(b) ==
    /\ parent.phase = "running" /\ b \in running /\ ~Live(b)
    /\ Check(b, b \in late)
    /\ UNCHANGED workers

(* emergency_finish of a worker past its deadline. *)
ExpiredAfterExit(b) == b \in late /\ pc[b] = "exited"
Expired(b) == b \in late
Deadline(b) ==
    /\ parent.phase = "running" /\ b \in running /\ Live(b) /\ Expired(b)
    /\ Kill(Terminated(b))
    /\ Check(b, TRUE)

(* The rest of collect: the completion manifest. *)
Manifest ==
    /\ parent.phase = "collecting"
    /\ result' = [result EXCEPT ![parent.at].dir = dir[parent.at]]
    /\ running' = running \ {parent.at}
    /\ Phase(IF parent.primary THEN "cleaning" ELSE "running")
    /\ UNCHANGED <<plan, workers, dir, late, pending, report, ghosts>>

(* An exception out of the loop ends it: every worker is terminated. *)
Interrupt ==
    /\ parent.phase \in {"running", "collecting"} /\ ~parent.primary
    /\ parent' = [parent EXCEPT !.phase = "cleaning", !.primary = TRUE]
    /\ Fault(Branches)
    /\ UNCHANGED <<plan, workers, dir, late, pending, running, result, report>>

Clean(b) ==
    /\ parent.phase = "cleaning" /\ b \in running
    /\ Kill(Terminated(b))
    /\ Check(b, TRUE)

LoopEnds ==
    /\ parent.phase \in {"running", "cleaning"} /\ running = {}
    /\ parent.phase = "running" => pending = <<>>
    /\ Phase("sealing")
    /\ UNCHANGED <<plan, workers, dir, late, pending, running, result, report, ghosts>>

Results == {b \in Branches : result[b].status # "none"}

(* lease_open_records of a branch: an acquire line that nothing closed. *)
OpenWindow(b) ==
    /\ \E i \in DOMAIN journal : journal[i] = Line("acquire", b)
    /\ \A i \in DOMAIN journal : journal[i] \notin {Line("release", b), Line("abandoned", b)}

(* close_open_lease for every result that did not pass, in plan order: the *)
(* workers are gone, so the parent's lines come one after another.         *)
AbandonedNone == {}
Abandoned == {b \in Results : result[b].status # "passed" /\ OpenWindow(b)}

SealWindow(b) ==
    /\ parent.phase = "sealing" /\ Leased
    /\ b \in Abandoned /\ \A a \in Abandoned : b <= a
    /\ \/ /\ journal' = Append(journal, Line("abandoned", b))
          /\ UNCHANGED <<parent, ghosts>>
       \/ /\ Phase("raised")
          /\ Fault({})
          /\ UNCHANGED journal
    /\ UNCHANGED <<plan, pc, good, acquired, frames, lock, receipt, dir, late, pending, running,
                   result, report>>

WindowsSealed ==
    /\ parent.phase = "sealing" /\ (Leased => Abandoned = {})
    /\ Phase("reporting")
    /\ UNCHANGED <<plan, workers, dir, late, pending, running, result, report, ghosts>>

----------------------------------------------------------------------------
(* verify_lease_journal: every close has an open acquire, no window is     *)
(* left open, and neighbouring timed windows do not overlap.               *)

Places(e, b) == {i \in DOMAIN journal : journal[i] = Line(e, b)}
Paired == \A i \in DOMAIN journal : journal[i].event # "acquire" =>
              \E j \in Places("acquire", journal[i].branch) : j < i
Closed == \A i \in DOMAIN journal : journal[i].event = "acquire" => ~OpenWindow(journal[i].branch)
Timed == {w \in (DOMAIN journal) \X (DOMAIN journal) :
             \E b \in Branches : w[1] \in Places("acquire", b) /\ w[2] \in Places("release", b)
                                 /\ w[1] < w[2]}
Overlap == \E v, w \in Timed : v[1] < w[1] /\ w[1] < v[2]
                /\ ~ \E x \in Timed : v[1] < x[1] /\ x[1] < w[1]
LeaseStatus == IF ~Leased THEN "not_applicable"
               ELSE IF Paired /\ Closed /\ ~Overlap THEN "passed" ELSE "failed"

(* _report_branch: a directory that changed since its completion manifest  *)
(* fails its branch. *)
Interfered(b) == result[b].dir # dir[b]
Passed == {b \in Results : result[b].status = "passed" /\ ~Interfered(b)}

(* compare_branch_frames over the plan's group. *)
Comparable == plan.group \subseteq Passed
FramesEqual == \A a, b \in plan.group : frames[a] = frames[b]

(* A group with a branch that never started has no entry in by_id. *)
KeyError == ~(plan.group \subseteq Results)

Verdict == IF Passed = Branches /\ LeaseStatus # "failed" /\ ~parent.primary
              /\ (plan.group = {} \/ (Comparable /\ FramesEqual))
           THEN "passed" ELSE "failed"

Report ==
    /\ parent.phase = "reporting" /\ ~KeyError
    /\ report' = [written |-> TRUE, status |-> Verdict, of |-> Results, passed |-> Passed,
                  lease |-> LeaseStatus, final |-> dir, verified |-> "none"]
    /\ Phase("done")
    /\ UNCHANGED <<plan, workers, dir, late, pending, running, result, ghosts>>

ReportRaises ==
    /\ parent.phase = "reporting" /\ KeyError
    /\ Phase("raised")
    /\ UNCHANGED <<plan, workers, dir, late, pending, running, result, report, ghosts>>

(* verify_workspace: everything again, from the disk. *)
Verify ==
    /\ parent.phase = "done" /\ report.verified = "none"
    /\ report' = [report EXCEPT !.verified =
          IF /\ \A b \in report.of : report.final[b] = dir[b]
             /\ LeaseStatus # "failed"
             /\ Comparable => FramesEqual
          THEN "passed" ELSE "failed"]
    /\ UNCHANGED <<plan, workers, dir, late, parent, pending, running, result, ghosts>>

ParentDies ==
    /\ parent.phase \notin {"done", "raised", "dead"}
    /\ Phase("dead")
    /\ \/ Kill({b \in running : Live(b)}) \* closing the jobs kills what they own (Windows)
       \/ UNCHANGED workers
    /\ Fault(Branches)
    /\ UNCHANGED <<plan, dir, late, pending, running, result, report>>

Parent ==
    \/ Dispatch \/ Arm \/ Manifest \/ LoopEnds \/ WindowsSealed \/ Report \/ ReportRaises
    \/ \E b \in Branches : Poll(b) \/ Deadline(b) \/ Clean(b) \/ SealWindow(b)

----------------------------------------------------------------------------
(* The deadlines: every worker has the same timeout, so they pass in the   *)
(* order of the dispatches. *)
Expire(b) ==
    /\ b \in running /\ b \notin late /\ parent.phase # "dead"
    /\ \A a \in running : a < b => a \in late
    /\ late' = late \cup {b}
    /\ excused' = excused \cup {b}
    /\ UNCHANGED <<plan, workers, dir, parent, pending, running, result, report, faults, unseen>>

(* Somebody else writes into a branch directory (until it is verified). *)
ForeignWrite(b) ==
    /\ pc[b] # "absent" /\ report.verified = "none" /\ faults < MaxFaults
    /\ faults' = faults + 1
    /\ dir' = [dir EXCEPT ![b] = @ + 1]
    /\ excused' = excused \cup {b}
    /\ unseen' = IF parent.phase = "collecting" /\ parent.at = b THEN unseen \cup {b} ELSE unseen
    /\ UNCHANGED <<plan, workers, late, parent, pending, running, result, report>>

Next ==
    \/ Parent \/ StartFails \/ Interrupt \/ ParentDies \/ Verify
    \/ \E b \in Branches : Worker(b) \/ Expire(b) \/ ForeignWrite(b)

(* The scheduler runs and time passes; a worker may hang for ever. *)
Fairness == WF_vars(Parent) /\ \A b \in Branches : WF_vars(Expire(b))
Spec == Init /\ [][Next]_vars /\ Fairness
----------------------------------------------------------------------------
(* Every variable has its type, and run_branches never has more workers    *)
(* under way than the plan allows, a branch being started included.        *)
TypeOK ==
    /\ plan \in Plans
    /\ pc \in [Branches -> {"absent", "spawned", "acquiring", "locked", "executing", "releasing",
                             "unlocking", "sealing", "sealed", "exited", "killed"}]
    /\ good \in [Branches -> BOOLEAN] /\ acquired \in [Branches -> BOOLEAN]
    /\ frames \in [Branches -> {"equal", "other"}]
    /\ lock \in Branches \cup {Nobody}
    /\ journal \in Seq([event : {"acquire", "release", "abandoned"}, branch : Branches])
    /\ dir \in [Branches -> Nat]
    /\ receipt \in [Branches -> [written : BOOLEAN, good : BOOLEAN, dir : Nat]]
    /\ late \subseteq Branches /\ running \subseteq Branches
    /\ parent \in [phase : {"running", "arming", "collecting", "cleaning", "sealing", "reporting",
                             "done", "raised", "dead"},
                    at : Branches \cup {Nobody}, armed : SUBSET Branches, primary : BOOLEAN]
    /\ pending \in Seq(Branches)
    /\ Cardinality(running) + (IF parent.phase = "arming" THEN 1 ELSE 0) <= plan.workers
    /\ result \in [Branches -> [status : {"none", "passed", "failed"}, dir : Nat]]
    /\ report \in [written : BOOLEAN, status : {"none", "passed", "failed"},
                    of : SUBSET Branches, passed : SUBSET Branches,
                    lease : {"none", "not_applicable", "passed", "failed"},
                    final : [Branches -> Nat], verified : {"none", "passed", "failed"}]
    /\ faults \in 0..MaxFaults /\ excused \subseteq Branches /\ unseen \subseteq Branches

(* "Keep a failure local": a branch fails only if something was done to it *)
(* (it crashed, raised, was written to, ran past its deadline, waited too  *)
(* long for the device, or the scheduler was interrupted), whatever happens*)
(* to its siblings and whatever the scheduler does about them.             *)
FailureLocal == \A b \in Branches : result[b].status = "failed" => b \in excused

(* The lease verdict of the report is neither silent nor a false alarm:    *)
(* the journal verifies unless a worker took the device and lost its       *)
(* acquire line, whoever crashed or was killed while holding the device    *)
(* and whichever sibling took it next.                                     *)
LostLine(b) == Places("release", b) # {} /\ Places("acquire", b) = {}
LeaseVerdictExact ==
    report.written /\ Leased => (report.lease = "failed") = (\E b \in Branches : LostLine(b))

(* A branch that passed, in a workspace that verifies, has the evidence    *)
(* its worker sealed: a foreign write after the seal fails the branch at   *)
(* its collection, in the report or at verification.  The exception is a   *)
(* write between collect's comparison and its completion manifest, which   *)
(* no later comparison can see.                                            *)
EvidenceKept ==
    /\ TypeOK
    /\ report.verified = "passed" =>
           \A b \in report.passed \ unseen : dir[b] = receipt[b].dir

(* However the workers crash or hang, and whoever waits for the device,    *)
(* run_branches returns or raises, unless its own process dies.            *)
RunEnds == <>(parent.phase \in {"done", "raised", "dead"})
=============================================================================
