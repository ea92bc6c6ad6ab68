------------------------- MODULE BranchWorkersProofs -------------------------
(***************************************************************************)
(* The theorems about BranchWorkers, for any number of branches and any    *)
(* number of faults: the types and the limit on the workers, that failures *)
(* stay local, that the lease verdict is exact and that the evidence of a  *)
(* branch that passed is the one its worker sealed.                        *)
(***************************************************************************)
EXTENDS BranchWorkers, FiniteSetTheorems, TLAPS

Stages == {"absent", "spawned", "acquiring", "locked", "executing", "releasing",
           "unlocking", "sealing", "sealed", "exited", "killed"}
Lines == [event : {"acquire", "release", "abandoned"}, branch : Branches]

(* TypeOK without the limit on the workers, in two parts.                  *)
WorkerTypes ==
    /\ pc \in [Branches -> Stages]
    /\ good \in [Branches -> BOOLEAN] /\ acquired \in [Branches -> BOOLEAN]
    /\ frames \in [Branches -> {"equal", "other"}]
    /\ lock \in Branches \cup {Nobody}
    /\ journal \in Seq(Lines)
    /\ receipt \in [Branches -> [written : BOOLEAN, good : BOOLEAN, dir : Nat]]

Phases == {"running", "arming", "collecting", "cleaning", "sealing", "reporting",
           "done", "raised", "dead"}
Schedulers == [phase : Phases, at : Branches \cup {Nobody}, armed : SUBSET Branches,
               primary : BOOLEAN]
Reports == [written : BOOLEAN, status : {"none", "passed", "failed"},
            of : SUBSET Branches, passed : SUBSET Branches,
            lease : {"none", "not_applicable", "passed", "failed"},
            final : [Branches -> Nat], verified : {"none", "passed", "failed"}]
ParentTypes ==
    /\ plan \in Plans
    /\ dir \in [Branches -> Nat]
    /\ late \subseteq Branches /\ running \subseteq Branches
    /\ parent \in Schedulers
    /\ pending \in Seq(Branches)
    /\ result \in [Branches -> [status : {"none", "passed", "failed"}, dir : Nat]]
    /\ report \in Reports
    /\ faults \in 0..MaxFaults /\ excused \subseteq Branches /\ unseen \subseteq Branches

(* The branch at hand is a branch.                                          *)
AtHand == parent.phase \in {"arming", "collecting"} => parent.at \in Branches

Limit == Cardinality(running) + (IF parent.phase = "arming" THEN 1 ELSE 0) <= plan.workers

(* The steps of a worker leave the scheduler's side alone, but for the     *)
(* faults they are charged with.                                           *)
LEMMA WorkerKeepsTypes ==
    ASSUME TypeOK, NEW b \in Branches, Worker(b)
    PROVE  TypeOK'
<1> USE FaultAssumption
<1>0. \A e \in {"acquire", "release", "abandoned"} : Append(journal, Line(e, b)) \in Seq(Lines)
  BY DEF TypeOK, Line, Lines
<1>1. WorkerTypes'
  <2>1. CASE Armed(b)
    BY <2>1, SMT DEF Armed, At, Goes, Away, AfterArm, TypeOK, WorkerTypes, Lines, Stages
  <2>2. CASE Unarmed(b)
    BY <2>2, SMT DEF Unarmed, At, Goes, Away, AfterArm, TypeOK, WorkerTypes, Lines, Stages
  <2>3. CASE Acquire(b)
    BY <2>3, SMT DEF Acquire, At, Goes, Away, AfterArm, TypeOK, WorkerTypes, Lines, Stages
  <2>4. CASE LeaseTimeout(b)
    BY <2>4, SMT DEF LeaseTimeout, At, Goes, Away, AfterArm, TypeOK, WorkerTypes, Lines, Stages
  <2>5. CASE AcquireLine(b)
    <3>1. journal' \in Seq(Lines)
      BY <1>0, <2>5 DEF AcquireLine, TypeOK, Lines
    <3>2. pc' \in [Branches -> Stages]
      BY <2>5 DEF AcquireLine, Goes, TypeOK, Stages
    <3>3. QED
      BY <2>5, <3>1, <3>2 DEF AcquireLine, TypeOK, WorkerTypes, Lines
  <2>6. CASE Execute(b)
    <3>1. pc' \in [Branches -> Stages]
      BY <2>6 DEF Execute, Goes, AfterWork, TypeOK, Stages
    <3>2. good' \in [Branches -> BOOLEAN] /\ frames' \in [Branches -> {"equal", "other"}]
      BY <2>6 DEF Execute, TypeOK
    <3>3. QED
      BY <2>6, <3>1, <3>2 DEF Execute, TypeOK, WorkerTypes, Lines
  <2>7. CASE ReleaseLine(b)
    <3>1. journal' \in Seq(Lines)
      BY <1>0, <2>7 DEF ReleaseLine, TypeOK, Lines
    <3>2. pc' \in [Branches -> Stages]
      BY <2>7 DEF ReleaseLine, Goes, TypeOK, Stages
    <3>3. good' \in [Branches -> BOOLEAN] /\ acquired' \in [Branches -> BOOLEAN]
      BY <2>7 DEF ReleaseLine, TypeOK
    <3>4. QED
      BY <2>7, <3>1, <3>2, <3>3 DEF ReleaseLine, TypeOK, WorkerTypes, Lines
  <2>8. CASE Unlock(b)
    BY <2>8, SMT DEF Unlock, At, Goes, Away, TypeOK, WorkerTypes, Lines, Stages
  <2>9. CASE SealReceipt(b)
    BY <2>9, SMT DEF SealReceipt, At, Goes, Away, TypeOK, WorkerTypes, Lines, Stages
  <2>10. CASE Exit(b)
    BY <2>10, SMT DEF Exit, At, Goes, Away, TypeOK, WorkerTypes, Lines, Stages, Freed
  <2>11. CASE Crash(b)
    BY <2>11, SMT DEF Crash, At, Goes, Away, TypeOK, WorkerTypes, Lines, Stages, Freed
  <2>12. QED
    BY <2>1, <2>2, <2>3, <2>4, <2>5, <2>6, <2>7, <2>8, <2>9, <2>10, <2>11 DEF Worker
<1>2. UNCHANGED <<plan, dir, late, parent, pending, running, result, report>>
  BY DEF Worker, Armed, Unarmed, Acquire, LeaseTimeout, AcquireLine, Execute, ReleaseLine, Unlock,
         SealReceipt, Exit, Crash, Away
<1>3. faults' \in 0..MaxFaults /\ excused' \subseteq Branches /\ unseen' \subseteq Branches
  <2>1. faults \in 0..MaxFaults /\ excused \subseteq Branches /\ unseen \subseteq Branches
    BY DEF TypeOK
  <2>2. QED
    BY <2>1 DEF Worker, Armed, Unarmed, Acquire, LeaseTimeout, AcquireLine, Execute, ReleaseLine,
                Unlock, SealReceipt, Exit, Crash, Fault, ghosts
<1>4. ParentTypes /\ Limit
  BY DEF TypeOK, ParentTypes, Limit, Reports, Schedulers, Phases
<1>5. ParentTypes'
  BY <1>2, <1>3, <1>4 DEF ParentTypes
<1>6. Limit'
  BY <1>2, <1>4 DEF Limit
<1>7. QED
  BY <1>1, <1>5, <1>6
     DEF TypeOK, WorkerTypes, Lines, Stages, ParentTypes, Limit, Reports, Schedulers, Phases
(* The plan names its workers, so the limit is a number.                    *)
LEMMA PlanTypes ==
    ASSUME TypeOK
    PROVE  /\ plan.workers \in Branches /\ N \in Nat
           /\ IsFiniteSet(running) /\ Cardinality(running) \in Nat
           /\ IsFiniteSet(Branches)
<1>1. plan.workers \in Branches /\ N \in Nat
  BY NAssumption DEF TypeOK, Plans
<1>2. IsFiniteSet(Branches)
  BY <1>1, FS_Interval DEF Branches
<1>3. IsFiniteSet(running)
  BY <1>2, FS_Subset DEF TypeOK
<1>4. QED
  BY <1>1, <1>2, <1>3, FS_CardinalityType

(* Killing workers keeps the types of what the workers have.                *)
LEMMA KillTypes ==
    ASSUME TypeOK, NEW bs, Kill(bs)
    PROVE  WorkerTypes'
BY SMT DEF Kill, Freed, TypeOK, WorkerTypes, Lines, Stages

(* A step that leaves the workers alone keeps their types.                  *)
LEMMA SameWorkersTypes ==
    ASSUME TypeOK, UNCHANGED workers
    PROVE  WorkerTypes'
BY SMT DEF workers, TypeOK, WorkerTypes, Lines, Stages

(* What a change of phase leaves of the scheduler.                           *)
LEMMA PhaseSteps ==
    ASSUME TypeOK, NEW p \in Phases, Phase(p)
    PROVE  /\ parent' \in Schedulers /\ parent'.phase = p /\ parent'.at = parent.at
           /\ parent'.armed = parent.armed /\ parent'.primary = parent.primary
<1>1. parent \in Schedulers
  BY DEF TypeOK, Schedulers, Phases
<1>2. QED
  BY <1>1 DEF Phase, Schedulers

(* What taking a branch in hand leaves of the scheduler.                    *)
LEMMA HandlesSteps ==
    ASSUME TypeOK, NEW p \in Phases, NEW b \in Branches, Handles(b, p)
    PROVE  /\ parent' \in Schedulers /\ parent'.phase = p /\ parent'.at = b
           /\ parent'.armed = parent.armed /\ parent'.primary = parent.primary
<1>1. parent \in Schedulers
  BY DEF TypeOK, Schedulers, Phases
<1>2. QED
  BY <1>1 DEF Handles, Schedulers

(* The three ways to collect b: it exited, it is past its deadline, or the  *)
(* loop was interrupted.                                                    *)
Collects(b) ==
    /\ Handles(b, "collecting") /\ b \in running /\ parent.phase \in {"running", "cleaning"}
    /\ \/ Poll(b) /\ ~Live(b) /\ UNCHANGED workers
       \/ Kill(Terminated(b)) /\ (b \in late \/ parent.phase = "cleaning")
    /\ \E verdict \in {"passed", "failed"} :
           /\ result' = [result EXCEPT ![b] = [status |-> verdict, dir |-> 0]]
           /\ verdict = "passed" => Poll(b) /\ ReceiptPasses(b)
           /\ verdict = "failed" => ~ReceiptPasses(b) \/ b \in late \/ parent.phase = "cleaning"
    /\ UNCHANGED <<plan, dir, late, pending, running, report, ghosts>>

(* A poll, an expired deadline and the cleaning of the loop all collect.    *)
LEMMA CollectSteps ==
    ASSUME NEW b, Poll(b) \/ Deadline(b) \/ Clean(b)
    PROVE  Collects(b)
<1>1. CASE Poll(b)
  BY <1>1 DEF Poll, Check, Collects
<1>2. CASE Deadline(b)
  BY <1>2 DEF Deadline, Check, Collects, Expired
<1>3. CASE Clean(b)
  BY <1>3 DEF Clean, Check, Collects
<1>4. QED
  BY <1>1, <1>2, <1>3

(* Collecting a branch keeps every type: its result is passed or failed.    *)
LEMMA CollectTypes ==
    ASSUME TypeOK, NEW b \in Branches, Collects(b)
    PROVE  WorkerTypes' /\ ParentTypes'
<1>1. parent' \in Schedulers
  BY HandlesSteps DEF Collects, Phases
<1>2. result' \in [Branches -> [status : {"none", "passed", "failed"}, dir : Nat]]
  BY DEF Collects, TypeOK
<1>3. WorkerTypes'
  BY SameWorkersTypes, KillTypes DEF Collects
<1>4. QED
  BY <1>1, <1>2, <1>3 DEF Collects, TypeOK, ParentTypes, ghosts, Reports

(* The steps of the scheduler up to its report keep every type; the branch  *)
(* at hand is one that a fault can be charged to.                           *)
LEMMA ParentStepTypes ==
    ASSUME TypeOK, AtHand, NEW b \in Branches,
           \/ Dispatch \/ Arm \/ StartFails \/ Poll(b) \/ Deadline(b) \/ Clean(b)
           \/ Manifest \/ Interrupt \/ LoopEnds \/ SealWindow(b) \/ WindowsSealed
    PROVE  WorkerTypes' /\ ParentTypes'
<1>0. ParentTypes
  BY DEF TypeOK, ParentTypes, Schedulers, Phases, Reports
<1>1. CASE Dispatch
  <2>1. Head(pending) \in Branches /\ Tail(pending) \in Seq(Branches)
    BY <1>1 DEF Dispatch, TypeOK
  <2>2. pc' \in [Branches -> Stages]
    BY <1>1, <2>1 DEF Dispatch, Goes, TypeOK, Stages
  <2>3. parent' \in Schedulers
    BY <1>1, <2>1, HandlesSteps DEF Dispatch, Phases
  <2>4. QED
    BY <1>0, <1>1, <2>1, <2>2, <2>3 DEF Dispatch, TypeOK, WorkerTypes, Lines, ParentTypes, ghosts
<1>2. CASE Arm
  <2>1. parent.at \in Branches
    BY <1>2 DEF Arm, AtHand
  <2>2. parent' \in Schedulers
    BY <1>0, <1>2, <2>1 DEF Arm, ParentTypes, Schedulers, Phases
  <2>3. QED
    BY <1>0, <1>2, <2>1, <2>2, SameWorkersTypes DEF Arm, ParentTypes, ghosts
<1>3. CASE StartFails
  <2>1. parent' \in Schedulers
    BY <1>3, PhaseSteps DEF StartFails, Phases
  <2>2. result' \in [Branches -> [status : {"none", "passed", "failed"}, dir : Nat]]
    BY <1>3 DEF StartFails, TypeOK, AtHand
  <2>3. QED
    BY <1>0, <1>3, <2>1, <2>2, KillTypes, FaultAssumption
       DEF StartFails, Fault, ParentTypes, AtHand
<1>4. CASE Poll(b) \/ Deadline(b) \/ Clean(b)
  BY <1>4, CollectSteps, CollectTypes
<1>7. CASE Manifest
  <2>1. parent' \in Schedulers
    BY <1>7, PhaseSteps DEF Manifest, Phases
  <2>2. result' \in [Branches -> [status : {"none", "passed", "failed"}, dir : Nat]]
    <3>1. parent.at \in Branches
      BY <1>7 DEF Manifest, AtHand
    <3>2. /\ result \in [Branches -> [status : {"none", "passed", "failed"}, dir : Nat]]
          /\ dir[parent.at] \in Nat
      BY <3>1 DEF TypeOK
    <3>3. QED
      BY <1>7, <3>1, <3>2 DEF Manifest
  <2>3. QED
    BY <1>0, <1>7, <2>1, <2>2, SameWorkersTypes DEF Manifest, ParentTypes, ghosts
<1>8. CASE Interrupt
  <2>1. parent' \in Schedulers
    BY <1>0, <1>8 DEF Interrupt, ParentTypes, Schedulers, Phases
  <2>2. QED
    BY <1>0, <1>8, <2>1, SameWorkersTypes, FaultAssumption DEF Interrupt, Fault, ParentTypes
<1>9. CASE LoopEnds
  <2>1. parent' \in Schedulers
    BY <1>9, PhaseSteps DEF LoopEnds, Phases
  <2>2. QED
    BY <1>0, <1>9, <2>1, SameWorkersTypes DEF LoopEnds, ParentTypes, ghosts
<1>10. CASE SealWindow(b)
  <2>1. parent' \in Schedulers
    BY <1>0, <1>10, PhaseSteps DEF SealWindow, Phases, ParentTypes
  <2>2. journal' \in Seq(Lines)
    <3>1. Append(journal, Line("abandoned", b)) \in Seq(Lines)
      BY DEF TypeOK, Line, Lines
    <3>2. QED
      BY <1>10, <3>1 DEF SealWindow, TypeOK, Lines
  <2>3. faults' \in 0..MaxFaults /\ excused' \subseteq Branches /\ unseen' \subseteq Branches
    BY <1>10, FaultAssumption DEF SealWindow, Fault, TypeOK, ghosts
  <2>4. QED
    BY <1>0, <1>10, <2>1, <2>2, <2>3
       DEF SealWindow, TypeOK, WorkerTypes, Stages, Lines, ParentTypes
<1>11. CASE WindowsSealed
  <2>1. parent' \in Schedulers
    BY <1>11, PhaseSteps DEF WindowsSealed, Phases
  <2>2. QED
    BY <1>0, <1>11, <2>1, SameWorkersTypes DEF WindowsSealed, ParentTypes, ghosts
<1>12. QED
  BY <1>1, <1>2, <1>3, <1>4, <1>7, <1>8, <1>9, <1>10, <1>11

(* The steps from the report on, and those of time and of other writers.    *)
LEMMA EndStepTypes ==
    ASSUME TypeOK, NEW b \in Branches,
           \/ Report \/ ReportRaises \/ Verify \/ ParentDies \/ Expire(b) \/ ForeignWrite(b)
    PROVE  WorkerTypes' /\ ParentTypes'
<1>0. ParentTypes
  BY DEF TypeOK, ParentTypes, Schedulers, Phases, Reports
<1>1. CASE Report
  <2>1. /\ Verdict \in {"none", "passed", "failed"} /\ Results \in SUBSET Branches
        /\ LeaseStatus \in {"none", "not_applicable", "passed", "failed"}
        /\ Passed \in SUBSET Branches /\ dir \in [Branches -> Nat]
    BY DEF Verdict, LeaseStatus, Results, Passed, TypeOK
  <2>2. report' \in Reports
    BY <1>1, <2>1 DEF Report, Reports
  <2>3. QED
    BY <1>0, <1>1, <2>2, SameWorkersTypes, PhaseSteps DEF Report, ParentTypes, Phases, ghosts
<1>2. CASE ReportRaises
  <2>1. parent' \in Schedulers
    BY <1>2, PhaseSteps DEF ReportRaises, Phases
  <2>2. QED
    BY <1>0, <1>2, <2>1, SameWorkersTypes DEF ReportRaises, ParentTypes, ghosts
<1>3. CASE Verify
  <2>1. PICK verdict \in {"passed", "failed"} : report' = [report EXCEPT !.verified = verdict]
    BY <1>3 DEF Verify
  <2>2. report' \in Reports
    BY <1>0, <2>1 DEF ParentTypes, Reports
  <2>3. QED
    BY <1>0, <1>3, <2>2, SameWorkersTypes DEF Verify, ParentTypes, ghosts
<1>4. CASE ParentDies
  <2>1. parent' \in Schedulers
    BY <1>4, PhaseSteps DEF ParentDies, Phases
  <2>2. WorkerTypes'
    BY <1>4, SameWorkersTypes, KillTypes DEF ParentDies
  <2>3. QED
    BY <1>0, <1>4, <2>1, <2>2, FaultAssumption DEF ParentDies, Fault, ParentTypes
<1>5. CASE Expire(b)
  BY <1>0, <1>5, SameWorkersTypes, SMT DEF Expire, ParentTypes, Phases
<1>6. CASE ForeignWrite(b)
  BY <1>0, <1>6, SameWorkersTypes, FaultAssumption, SMT DEF ForeignWrite, ParentTypes, Phases
<1>7. QED
  BY <1>1, <1>2, <1>3, <1>4, <1>5, <1>6

(* The limit: a branch that is being started counts; it counts as running   *)
(* once it is armed, and a branch is collected out of the running ones.     *)
LEMMA LimitKept ==
    ASSUME TypeOK, AtHand, Next
    PROVE  Limit' /\ AtHand'
<1>1. PICK n \in Nat, size \in Nat : size = Cardinality(running) /\ n = plan.workers
  BY PlanTypes DEF Branches
<1>2. parent.phase # "arming" => size <= n
  BY <1>1 DEF TypeOK
<1>3. parent.phase = "arming" => size + 1 <= n
  BY <1>1 DEF TypeOK
<1>4. ASSUME UNCHANGED <<plan, running>>, parent'.phase # "arming"
      PROVE  Limit'
  BY <1>1, <1>2, <1>3, <1>4 DEF Limit
<1>5. CASE Dispatch
  <2>0. Head(pending) \in Branches
    BY <1>5 DEF Dispatch, TypeOK
  <2>1. parent'.phase = "arming" /\ parent'.at \in Branches
    BY <1>5, <2>0, HandlesSteps DEF Dispatch, Phases
  <2>2. size + 1 <= n
    BY <1>1, <1>5 DEF Dispatch
  <2>3. QED
    BY <1>1, <1>5, <2>1, <2>2 DEF Dispatch, Limit, AtHand
<1>6. CASE Arm
  <2>1. parent'.phase = "running"
    BY <1>6 DEF Arm, TypeOK
  <2>2. Cardinality(running') \in Nat /\ Cardinality(running') <= size + 1
    BY <1>1, <1>6, PlanTypes, FS_AddElement DEF Arm
  <2>3. QED
    BY <1>1, <1>3, <1>6, <2>1, <2>2 DEF Arm, Limit, AtHand
<1>7. CASE Manifest
  <2>1. parent'.phase \in {"cleaning", "running"}
    BY <1>7, PhaseSteps DEF Manifest, Phases
  <2>2. Cardinality(running') \in Nat /\ Cardinality(running') <= size
    <3>1. running' = running \ {parent.at}
      BY <1>7 DEF Manifest
    <3>2. QED
      BY <1>1, <3>1, PlanTypes, FS_Subset, FS_CardinalityType
  <2>3. QED
    BY <1>1, <1>2, <1>7, <2>1, <2>2 DEF Manifest, Limit, AtHand
<1>8. ASSUME NEW b \in Branches, Poll(b) \/ Deadline(b) \/ Clean(b)
      PROVE  Limit' /\ AtHand'
  <2>1. Collects(b)
    BY <1>8, CollectSteps
  <2>2. parent'.phase = "collecting" /\ parent'.at = b
    BY <2>1, HandlesSteps DEF Collects, Phases
  <2>3. QED
    BY <1>4, <2>1, <2>2 DEF Collects, AtHand
<1>9. CASE StartFails \/ LoopEnds \/ WindowsSealed \/ Report \/ ReportRaises \/ ParentDies
  <2>1. parent'.phase \notin {"arming", "collecting"}
    BY <1>9, PhaseSteps
       DEF StartFails, LoopEnds, WindowsSealed, Report, ReportRaises, ParentDies, Phases
  <2>2. UNCHANGED <<plan, running>>
    BY <1>9 DEF StartFails, LoopEnds, WindowsSealed, Report, ReportRaises, ParentDies
  <2>3. QED
    BY <1>4, <2>1, <2>2 DEF AtHand
<1>10. CASE Interrupt
  <2>1. parent'.phase = "cleaning"
    BY <1>10 DEF Interrupt, TypeOK
  <2>2. QED
    BY <1>4, <1>10, <2>1 DEF Interrupt, AtHand
<1>11. ASSUME NEW b \in Branches, SealWindow(b)
       PROVE  Limit' /\ AtHand'
  <2>1. parent'.phase \in {"sealing", "raised"}
    BY <1>11, PhaseSteps DEF SealWindow, Phases
  <2>2. QED
    BY <1>4, <1>11, <2>1 DEF SealWindow, AtHand
<1>12. ASSUME NEW b \in Branches, Worker(b) \/ Expire(b) \/ ForeignWrite(b) \/ Verify
       PROVE  Limit' /\ AtHand'
  <2>1. UNCHANGED <<plan, running, parent>>
    BY <1>12
       DEF Worker, Armed, Unarmed, Acquire, LeaseTimeout, AcquireLine, Execute, ReleaseLine,
           Unlock, SealReceipt, Exit, Crash, Away, Expire, ForeignWrite, Verify
  <2>2. QED
    BY <1>1, <1>2, <1>3, <2>1 DEF Limit, AtHand
<1>13. QED
  BY <1>5, <1>6, <1>7, <1>8, <1>9, <1>10, <1>11, <1>12, NAssumption DEF Next, Parent, Branches

(* The types and the branch at hand are inductive.                          *)
LEMMA TypesInductive ==
    ASSUME TypeOK, AtHand, [Next]_vars
    PROVE  TypeOK' /\ AtHand'
<1>1. CASE Next
  <2>1. Limit' /\ AtHand'
    BY <1>1, LimitKept
  <2>2. ASSUME WorkerTypes', ParentTypes'
        PROVE  TypeOK'
    BY <2>1, <2>2 DEF TypeOK, Limit, WorkerTypes, ParentTypes, Lines, Stages, Schedulers, Phases, Reports
  <2>3. QED
    BY <1>1, <2>1, <2>2, WorkerKeepsTypes, ParentStepTypes, EndStepTypes, NAssumption
       DEF Next, Parent, Branches
<1>2. CASE UNCHANGED vars
  BY <1>2 DEF vars, workers, ghosts, TypeOK, AtHand
<1>3. QED
  BY <1>1, <1>2

(* The initial states have their types, with no worker under way.           *)
LEMMA InitTypes ==
    ASSUME Init
    PROVE  TypeOK /\ AtHand
<1>1. plan.workers \in Nat /\ plan.workers >= 1
  BY NAssumption DEF Init, Plans, Branches
<1>2. Cardinality(running) = 0
  BY FS_EmptySet DEF Init
<1>3. pending \in Seq(Branches)
  BY NAssumption DEF Init, Branches
<1>4. journal \in Seq([event : {"acquire", "release", "abandoned"}, branch : Branches])
  BY DEF Init
<1>5. QED
  BY <1>1, <1>2, <1>3, <1>4, FaultAssumption
     DEF Init, TypeOK, AtHand, NoReceipt, NoResult, NoReport, Nobody

(* Every variable has its type, and there are never more workers under way  *)
(* than plan.workers, the branch being started included, for every plan.    *)
THEOREM TypeCorrect == Spec => []TypeOK
<1>1. TypeOK /\ AtHand /\ [Next]_vars => TypeOK' /\ AtHand'
  BY TypesInductive
<1>2. Init => TypeOK /\ AtHand
  BY InitTypes
<1>3. QED
  BY <1>1, <1>2, PTL DEF Spec

----------------------------------------------------------------------------
(* The scheduler's books.  An absent worker is still pending, and the       *)
(* pending branches are in plan order...                                    *)
Queued ==
    /\ \A i \in DOMAIN pending : pc[pending[i]] = "absent"
    /\ \A i, j \in DOMAIN pending : i < j => pending[i] < pending[j]

(* ...a branch that is running was started; one at hand is dead and has its *)
(* result while it is collected...                                          *)
Starting(b) == parent.phase = "arming" /\ parent.at = b
Handled ==
    /\ \A b \in running : pc[b] # "absent"
    /\ parent.phase = "arming" => pc[parent.at] # "absent"
    /\ parent.phase = "collecting" =>
           parent.at \in running /\ ~Live(parent.at) /\ result[parent.at].status # "none"

(* ...and a branch that was started is running, is being started or has its *)
(* result; it has ended in the last case, as long as the scheduler lives.   *)
Accounted ==
    \A b \in Branches : b \notin running /\ ~Starting(b) /\ parent.phase # "dead" =>
        ~Live(b) /\ (pc[b] # "absent" => result[b].status # "none")

(* Once the loop has ended no worker is left.                               *)
Over == parent.phase \in {"sealing", "reporting", "done", "raised"}
Scheduled == Queued /\ Handled /\ Accounted /\ (Over => running = {})

(* What any step of a worker does to the workers' places.                   *)
LEMMA WorkerMoves ==
    ASSUME TypeOK, NEW b \in Branches, Worker(b)
    PROVE  /\ Live(b) /\ pc'[b] # "absent"
           /\ \A a \in Branches : a # b => pc'[a] = pc[a]
           /\ UNCHANGED <<plan, dir, late, parent, pending, running, result, report>>
<1>1. \E p \in Stages \ {"absent"} : Goes(b, p) /\ Live(b)
  BY DEF Worker, Armed, Unarmed, Acquire, LeaseTimeout, AcquireLine, Execute, ReleaseLine, Unlock,
         SealReceipt, Exit, Crash, At, Live, AfterArm, AfterWork, Stages
<1>2. Away
  BY DEF Worker, Armed, Unarmed, Acquire, LeaseTimeout, AcquireLine, Execute, ReleaseLine, Unlock,
         SealReceipt, Exit, Crash
<1>3. QED
  BY <1>1, <1>2 DEF Goes, Away, TypeOK, Stages

(* A kill ends live workers and moves no other.                             *)
LEMMA KillMoves ==
    ASSUME TypeOK, NEW bs \in SUBSET {a \in Branches : Live(a)}, Kill(bs)
    PROVE  /\ \A a \in Branches : pc'[a] = IF a \in bs THEN "killed" ELSE pc[a]
           /\ \A a \in Branches : (pc'[a] = "absent") = (pc[a] = "absent")
           /\ \A a \in Branches : ~Live(a) => pc'[a] = pc[a]
           /\ \A a \in bs : Live(a) /\ ~Live(a)'
           /\ \A a \in Branches : Live(a)' => Live(a)
BY DEF Kill, TypeOK, Live

(* terminate_tree ends the one worker it is for.                            *)
LEMMA TerminatedMoves ==
    ASSUME TypeOK, NEW b \in Branches, Kill(Terminated(b))
    PROVE  /\ \A a \in Branches : pc'[a] = IF a = b /\ Live(b) THEN "killed" ELSE pc[a]
           /\ \A a \in Branches : (pc'[a] = "absent") = (pc[a] = "absent")
           /\ ~Live(b)'
           /\ \A a \in Branches : Live(a)' => Live(a)
BY DEF Terminated, Kill, TypeOK, Live

(* A collected branch is dead, has a verdict and is the only one touched; it*)
(* passes only if its receipt does.                                         *)
LEMMA CollectMoves ==
    ASSUME TypeOK, NEW b \in Branches, Collects(b)
    PROVE  /\ \A a \in Branches : pc'[a] = IF a = b /\ Live(b) THEN "killed" ELSE pc[a]
           /\ ~Live(b)' /\ \A a \in Branches : Live(a)' => Live(a)
           /\ parent'.phase = "collecting" /\ parent'.at = b /\ parent'.primary = parent.primary
           /\ result'[b].status \in {"passed", "failed"} /\ result'[b].dir = 0
           /\ \A a \in Branches : a # b => result'[a] = result[a]
           /\ result'[b].status = "passed" => Poll(b) /\ ReceiptPasses(b)
           /\ result'[b].status = "failed" =>
                  ~ReceiptPasses(b) \/ b \in late \/ parent.phase = "cleaning"
<1>1. parent'.phase = "collecting" /\ parent'.at = b /\ parent'.primary = parent.primary
  BY HandlesSteps DEF Collects, Phases
<1>2. /\ \A a \in Branches : pc'[a] = IF a = b /\ Live(b) THEN "killed" ELSE pc[a]
      /\ ~Live(b)' /\ \A a \in Branches : Live(a)' => Live(a)
  BY TerminatedMoves DEF Collects, workers, Live, TypeOK
<1>3. PICK verdict \in {"passed", "failed"} :
           /\ result' = [result EXCEPT ![b] = [status |-> verdict, dir |-> 0]]
           /\ verdict = "passed" => Poll(b) /\ ReceiptPasses(b)
           /\ verdict = "failed" => ~ReceiptPasses(b) \/ b \in late \/ parent.phase = "cleaning"
  BY DEF Collects
<1>4. result'[b].status = verdict /\ result'[b].dir = 0
  BY <1>3 DEF TypeOK
<1>5. \A a \in Branches : a # b => result'[a] = result[a]
  BY <1>3 DEF TypeOK
<1>6. QED
  BY <1>1, <1>2, <1>3, <1>4, <1>5

(* The next branch is the first of the queue, before the others of it.      *)
LEMMA DispatchMoves ==
    ASSUME TypeOK, Queued, Dispatch
    PROVE  /\ Queued'
           /\ parent'.phase = "arming" /\ parent'.at \in Branches /\ pc'[parent'.at] = "spawned"
           /\ pc[parent'.at] = "absent"
           /\ \A a \in Branches : a # parent'.at => pc'[a] = pc[a]
           /\ parent'.primary = parent.primary
<1>1. Head(pending) \in Branches /\ pending # <<>> /\ pending \in Seq(Branches)
  BY DEF Dispatch, TypeOK
<1>2. Head(pending) = pending[1] /\ 1 \in DOMAIN pending
  BY <1>1
<1>3. parent'.phase = "arming" /\ parent'.at = Head(pending) /\ parent'.primary = parent.primary
  BY <1>1, HandlesSteps DEF Dispatch, Phases
<1>4. /\ pc'[Head(pending)] = "spawned"
      /\ \A a \in Branches : a # Head(pending) => pc'[a] = pc[a]
  BY <1>1 DEF Dispatch, Goes, TypeOK
<1>5. pc[Head(pending)] = "absent"
  BY <1>2 DEF Queued
<1>6. \A i \in DOMAIN pending' : i + 1 \in DOMAIN pending /\ pending'[i] = pending[i + 1]
          /\ 1 < i + 1 /\ i \in Nat
  BY <1>1 DEF Dispatch
<1>7. ASSUME NEW i \in DOMAIN pending'
      PROVE  pc'[pending'[i]] = "absent"
  <2>1. pending[1] < pending[i + 1]
    BY <1>2, <1>6 DEF Queued
  <2>2. pending[i + 1] \in Branches /\ pc[pending[i + 1]] = "absent"
    BY <1>1, <1>6 DEF Queued
  <2>3. pending[i + 1] # pending[1]
    BY <2>1, <1>1, <1>2, <2>2, NAssumption DEF Branches
  <2>4. QED
    BY <1>2, <1>4, <1>6, <2>2, <2>3
<1>8. \A i, j \in DOMAIN pending' : i < j => pending'[i] < pending'[j]
  BY <1>6 DEF Queued
<1>9. QED
  BY <1>1, <1>3, <1>4, <1>5, <1>7, <1>8 DEF Queued

(* Every step of the scheduler and of its environment keeps the books.      *)
LEMMA ScheduledKept ==
    ASSUME TypeOK, AtHand, Scheduled, Next
    PROVE  Scheduled'
<1>0. /\ TypeOK' /\ AtHand'
      /\ pending \in Seq(Branches)
      /\ \A i \in DOMAIN pending : pending[i] \in Branches
  <2>1. TypeOK' /\ AtHand'
    BY TypesInductive
  <2>2. pending \in Seq(Branches)
    BY DEF TypeOK
  <2>3. QED
    BY <2>1, <2>2
<1>1. ASSUME \A a \in Branches : (pc'[a] = "absent") = (pc[a] = "absent"), UNCHANGED pending
      PROVE  Queued'
  BY <1>0, <1>1 DEF Scheduled, Queued
<1>2. CASE Dispatch
  <2>1. Queued' /\ parent'.phase = "arming" /\ parent'.at \in Branches
        /\ pc'[parent'.at] = "spawned"
        /\ \A a \in Branches : a # parent'.at => pc'[a] = pc[a]
    BY <1>2, DispatchMoves DEF Scheduled
  <2>2. UNCHANGED <<running, result>> /\ parent.phase = "running"
    BY <1>2 DEF Dispatch
  <2>3. Handled'
    <3>1. running \subseteq Branches
      BY DEF TypeOK
    <3>2. QED
      BY <2>1, <2>2, <3>1 DEF Scheduled, Handled
  <2>4. Accounted'
    BY <2>1, <2>2 DEF Scheduled, Accounted, Starting, Live
  <2>5. QED
    BY <2>1, <2>3, <2>4 DEF Scheduled, Over
<1>3. CASE Arm
  <2>1. parent'.phase = "running" /\ running' = running \cup {parent.at}
        /\ UNCHANGED <<pc, pending, result>> /\ parent.phase = "arming"
    BY <1>3 DEF Arm, workers, TypeOK
  <2>2. Queued'
    BY <1>1, <2>1
  <2>3. Handled'
    BY <2>1 DEF Scheduled, Handled
  <2>4. Accounted'
    BY <2>1 DEF Scheduled, Accounted, Starting, Live
  <2>5. QED
    BY <2>1, <2>2, <2>3, <2>4 DEF Scheduled, Over
<1>4. CASE StartFails
  <2>0. PICK at \in Branches : at = parent.at
    BY <1>4 DEF StartFails, AtHand
  <2>1. parent'.phase = "running" /\ UNCHANGED <<pending, running>> /\ parent.phase = "arming"
    BY <1>4, PhaseSteps DEF StartFails, Phases
  <2>2. /\ \A a \in Branches : (pc'[a] = "absent") = (pc[a] = "absent")
        /\ ~Live(at)' /\ \A a \in Branches : Live(a)' => Live(a)
    BY <1>4, <2>0, TerminatedMoves DEF StartFails
  <2>3. /\ result'[at].status = "failed"
        /\ \A a \in Branches : a # at => result'[a] = result[a]
    BY <1>4, <2>0 DEF StartFails, TypeOK
  <2>4. Queued'
    BY <1>1, <2>1, <2>2
  <2>5. Handled'
    BY <2>1, <2>2 DEF Scheduled, Handled, TypeOK
  <2>6. ASSUME NEW b \in Branches, b \notin running'
        PROVE  ~Live(b)' /\ (pc'[b] # "absent" => result'[b].status # "none")
    <3>1. CASE b = at
      BY <2>2, <2>3, <3>1
    <3>2. CASE b # at
      BY <2>0, <2>1, <2>2, <2>3, <2>6, <3>2 DEF Scheduled, Accounted, Starting
    <3>3. QED
      BY <3>1, <3>2
  <2>7. QED
    BY <2>1, <2>4, <2>5, <2>6 DEF Scheduled, Accounted, Over
<1>5. ASSUME NEW b \in Branches, Collects(b)
      PROVE  Scheduled'
  <2>1. UNCHANGED <<pending, running>> /\ b \in running
    BY <1>5 DEF Collects
  <2>2. /\ \A a \in Branches : (pc'[a] = "absent") = (pc[a] = "absent")
        /\ ~Live(b)' /\ \A a \in Branches : Live(a)' => Live(a)
        /\ parent'.phase = "collecting" /\ parent'.at = b
        /\ result'[b].status # "none"
        /\ \A a \in Branches : a # b => result'[a] = result[a]
    BY <1>5, CollectMoves DEF Live
  <2>3. parent.phase \in {"running", "cleaning"}
    BY <1>5 DEF Collects
  <2>4. Queued'
    BY <1>1, <2>1, <2>2
  <2>5. Handled'
    BY <2>1, <2>2 DEF Scheduled, Handled, TypeOK
  <2>6. Accounted'
    BY <2>1, <2>2, <2>3 DEF Scheduled, Accounted, Starting
  <2>7. QED
    BY <2>2, <2>4, <2>5, <2>6 DEF Scheduled, Over
<1>6. CASE Manifest
  <2>1. /\ parent'.phase = IF parent.primary THEN "cleaning" ELSE "running"
        /\ parent.phase = "collecting" /\ parent.at \in Branches
        /\ running' = running \ {parent.at} /\ UNCHANGED <<pc, pending>>
    BY <1>6, PhaseSteps DEF Manifest, workers, Phases, AtHand
  <2>2. \A a \in Branches : result'[a].status = result[a].status
    BY <1>6, <2>1 DEF Manifest, TypeOK, AtHand
  <2>3. Queued'
    BY <1>1, <2>1
  <2>4. Handled'
    BY <2>1 DEF Scheduled, Handled
  <2>5. ASSUME NEW b \in Branches, b \notin running'
        PROVE  ~Live(b)' /\ (pc'[b] # "absent" => result'[b].status # "none")
    <3>1. CASE b = parent.at
      BY <2>1, <2>2, <3>1 DEF Scheduled, Handled, Live
    <3>2. CASE b # parent.at
      BY <2>1, <2>2, <2>5, <3>2 DEF Scheduled, Accounted, Starting, Live
    <3>3. QED
      BY <3>1, <3>2
  <2>6. QED
    BY <2>1, <2>3, <2>4, <2>5 DEF Scheduled, Accounted, Over
<1>7. CASE Interrupt
  <2>1. parent'.phase = "cleaning" /\ UNCHANGED <<pc, pending, running, result>>
        /\ parent.phase \in {"running", "collecting"}
    BY <1>7 DEF Interrupt, workers, TypeOK
  <2>2. Queued'
    BY <1>1, <2>1
  <2>3. QED
    BY <2>1, <2>2 DEF Scheduled, Handled, Accounted, Starting, Over, Live
<1>8. CASE LoopEnds
  <2>1. parent'.phase = "sealing" /\ UNCHANGED <<pc, pending, running, result>>
        /\ parent.phase \in {"running", "cleaning"} /\ running = {}
    BY <1>8, PhaseSteps DEF LoopEnds, workers, Phases
  <2>2. Queued'
    BY <1>1, <2>1
  <2>3. QED
    BY <2>1, <2>2 DEF Scheduled, Handled, Accounted, Starting, Live
<1>9. ASSUME NEW b \in Branches, SealWindow(b) \/ WindowsSealed \/ Report \/ ReportRaises
      PROVE  Scheduled'
  <2>1. parent.phase \in {"sealing", "reporting"}
        /\ UNCHANGED <<pc, pending, running, result>>
    BY <1>9 DEF SealWindow, WindowsSealed, Report, ReportRaises, workers
  <2>2. Over' /\ Over
    BY <1>9, <2>1, PhaseSteps DEF SealWindow, WindowsSealed, Report, ReportRaises, Phases, Over
  <2>3. Queued'
    BY <1>1, <2>1
  <2>4. QED
    BY <2>1, <2>2, <2>3 DEF Scheduled, Handled, Accounted, Starting, Over, Live
<1>10. CASE ParentDies
  <2>1. parent'.phase = "dead" /\ UNCHANGED <<pending, running, result>>
    BY <1>10, PhaseSteps DEF ParentDies, Phases
  <2>2. \A a \in Branches : (pc'[a] = "absent") = (pc[a] = "absent")
    <3>1. running \subseteq Branches
      BY DEF TypeOK
    <3>2. CASE UNCHANGED workers
      BY <3>2 DEF workers
    <3>3. CASE Kill({b \in running : Live(b)})
      BY <3>1, <3>3, KillMoves
    <3>4. QED
      BY <1>10, <3>2, <3>3 DEF ParentDies
  <2>3. Queued'
    BY <1>1, <2>1, <2>2
  <2>4. Handled'
    BY <2>1, <2>2 DEF Scheduled, Handled, TypeOK
  <2>5. QED
    BY <2>1, <2>3, <2>4 DEF Scheduled, Accounted, Over
<1>11. ASSUME NEW b \in Branches, Worker(b)
       PROVE  Scheduled'
  <2>1. /\ Live(b) /\ pc'[b] # "absent" /\ pc[b] # "absent"
        /\ \A a \in Branches : a # b => pc'[a] = pc[a]
        /\ UNCHANGED <<parent, pending, running, result>>
    BY <1>11, WorkerMoves DEF Live
  <2>2. Queued'
    BY <1>1, <2>1
  <2>3. \A a \in Branches : Live(a)' => Live(a)
    BY <2>1 DEF Live
  <2>4. Handled'
    <3>1. \A a \in running : pc'[a] # "absent"
      BY <2>1 DEF Scheduled, Handled, TypeOK
    <3>2. parent.phase = "arming" => pc'[parent.at] # "absent"
      BY <2>1 DEF Scheduled, Handled, AtHand
    <3>3. ASSUME parent.phase = "collecting"
          PROVE  parent.at \in running /\ ~Live(parent.at)' /\ result[parent.at].status # "none"
      <4>1. PICK at \in Branches : at = parent.at
        BY <3>3 DEF AtHand
      <4>2. at \in running /\ ~Live(at) /\ result[at].status # "none"
        BY <3>3, <4>1 DEF Scheduled, Handled
      <4>3. ~Live(at)'
        BY <2>3, <4>2
      <4>4. QED
        BY <2>1, <4>1, <4>2, <4>3
    <3>4. QED
      BY <2>1, <3>1, <3>2, <3>3 DEF Handled
  <2>5. Accounted'
    BY <2>1, <2>3 DEF Scheduled, Accounted, Starting
  <2>6. QED
    BY <2>1, <2>2, <2>4, <2>5 DEF Scheduled, Over
<1>12. ASSUME NEW b \in Branches, Verify \/ Expire(b) \/ ForeignWrite(b)
       PROVE  Scheduled'
  <2>1. UNCHANGED <<pc, pending, running, result, parent>>
    BY <1>12 DEF Verify, Expire, ForeignWrite, workers
  <2>2. Queued'
    BY <1>1, <2>1
  <2>3. QED
    BY <2>1, <2>2 DEF Scheduled, Handled, Accounted, Starting, Over, Live
<1>13. QED
  BY <1>2, <1>3, <1>4, <1>5, <1>6, <1>7, <1>8, <1>9, <1>10, <1>11, <1>12, CollectSteps, NAssumption
     DEF Next, Parent, Branches

(* The books are inductive under the types.                                 *)
LEMMA ScheduledInductive ==
    ASSUME TypeOK, AtHand, Scheduled, [Next]_vars
    PROVE  Scheduled'
<1>1. CASE UNCHANGED vars
  BY <1>1 DEF vars, workers, Scheduled, Queued, Handled, Accounted, Starting, Over, Live
<1>2. QED
  BY <1>1, ScheduledKept

(* They hold at the start: every branch is pending, in plan order.          *)
LEMMA InitScheduled ==
    ASSUME Init
    PROVE  Scheduled
<1>1. Queued
  BY NAssumption DEF Init, Queued, Branches
<1>2. QED
  BY <1>1 DEF Init, Scheduled, Handled, Accounted, Over, Live

----------------------------------------------------------------------------
(* Failures stay local.  A branch that nothing was done to is on its way to *)
(* a good receipt, and the scheduler has no reason to fail it.              *)
OnCourse(b) ==
    /\ pc[b] # "killed" /\ b \notin late /\ dir[b] = 0
    /\ result[b].status # "failed"
    /\ pc[b] \in {"releasing", "unlocking", "sealing", "sealed", "exited"} => good[b]
    /\ pc[b] \in {"sealed", "exited"} =>
           receipt[b].written /\ receipt[b].good /\ receipt[b].dir = 0

(* A dead or an interrupted scheduler excuses every branch.                 *)
LocalInv ==
    /\ parent.phase = "dead" \/ parent.primary => excused = Branches
    /\ parent.phase = "cleaning" => parent.primary
    /\ \A b \in Branches : b \notin excused => OnCourse(b)

(* The steps of a worker keep every branch on its course that they are not  *)
(* an excuse for.                                                           *)
LEMMA WorkerOnCourse ==
    ASSUME TypeOK, LocalInv, NEW b \in Branches, Worker(b)
    PROVE  LocalInv'
<1>1. /\ UNCHANGED <<parent, late, dir, result>>
      /\ excused \subseteq excused' /\ excused' \subseteq Branches /\ excused \subseteq Branches
  BY DEF Worker, Armed, Unarmed, Acquire, LeaseTimeout, AcquireLine, Execute, ReleaseLine, Unlock,
         SealReceipt, Exit, Crash, Away, ghosts, Fault, TypeOK
<1>2. ASSUME NEW a \in Branches, a # b
      PROVE  UNCHANGED <<pc[a], good[a], receipt[a]>>
  <2>1. pc'[a] = pc[a]
    BY <1>2, WorkerMoves
  <2>2. good'[a] = good[a]
    BY <1>2 DEF Worker, Armed, Unarmed, Acquire, LeaseTimeout, AcquireLine, Execute, ReleaseLine,
                Unlock, SealReceipt, Exit, Crash, TypeOK
  <2>3. receipt'[a] = receipt[a]
    BY <1>2 DEF Worker, Armed, Unarmed, Acquire, LeaseTimeout, AcquireLine, Execute, ReleaseLine,
                Unlock, SealReceipt, Exit, Crash, TypeOK
  <2>4. QED
    BY <2>1, <2>2, <2>3
<1>3. ASSUME b \notin excused'
      PROVE  OnCourse(b)'
  <2>1. OnCourse(b) /\ b \notin excused
    BY <1>1, <1>3 DEF LocalInv
  <2>2. CASE Armed(b) \/ Unarmed(b) \/ Acquire(b)
    <3>1. parent.phase # "dead"
      BY <2>1 DEF LocalInv
    <3>2. pc'[b] \in {"acquiring", "executing", "locked"}
      BY <2>2, <3>1 DEF Armed, Unarmed, Acquire, Goes, AfterArm, TypeOK
    <3>3. QED
      BY <1>1, <2>1, <3>2 DEF OnCourse
  <2>3. CASE AcquireLine(b) \/ LeaseTimeout(b) \/ Crash(b)
    <3>1. pc'[b] = "executing"
      BY <1>3, <2>3 DEF AcquireLine, LeaseTimeout, Crash, Fault, Goes, TypeOK
    <3>2. QED
      BY <1>1, <2>1, <3>1 DEF OnCourse
  <2>4. CASE Execute(b)
    <3>1. pc'[b] \in {"releasing", "sealing"} /\ good'[b]
      BY <1>3, <2>4 DEF Execute, Fault, Goes, AfterWork, TypeOK
    <3>2. QED
      BY <1>1, <2>1, <3>1 DEF OnCourse
  <2>5. CASE ReleaseLine(b) \/ Unlock(b)
    <3>1. pc[b] \in {"releasing", "unlocking"}
      BY <2>5 DEF ReleaseLine, Unlock, At
    <3>2. pc'[b] \in {"unlocking", "sealing"} /\ good'[b] = good[b]
      BY <1>3, <2>5 DEF ReleaseLine, Unlock, Fault, Goes, TypeOK
    <3>3. QED
      BY <1>1, <2>1, <3>1, <3>2 DEF OnCourse
  <2>6. CASE SealReceipt(b)
    <3>1. pc[b] = "sealing" /\ pc'[b] = "sealed" /\ good'[b] = good[b]
      BY <2>6 DEF SealReceipt, At, Goes, TypeOK
    <3>2. receipt'[b].written /\ receipt'[b].good = good[b] /\ receipt'[b].dir = dir[b]
      BY <2>6 DEF SealReceipt, TypeOK
    <3>3. QED
      BY <1>1, <2>1, <3>1, <3>2 DEF OnCourse
  <2>7. CASE Exit(b)
    <3>1. pc[b] = "sealed" /\ pc'[b] = "exited" /\ good'[b] = good[b] /\ receipt'[b] = receipt[b]
      BY <2>7 DEF Exit, At, Goes, TypeOK
    <3>2. QED
      BY <1>1, <2>1, <3>1 DEF OnCourse
  <2>8. QED
    BY <2>2, <2>3, <2>4, <2>5, <2>6, <2>7 DEF Worker
<1>4. ASSUME NEW a \in Branches, a \notin excused', a # b
      PROVE  OnCourse(a)'
  BY <1>1, <1>2, <1>4 DEF LocalInv, OnCourse
<1>5. QED
  BY <1>1, <1>3, <1>4 DEF LocalInv

(* The steps of the scheduler: it fails a branch, or ends its process, only *)
(* with an excuse.                                                          *)
LEMMA ParentOnCourse ==
    ASSUME TypeOK, AtHand, Scheduled, LocalInv, Next
    PROVE  LocalInv'
<1>0. /\ TypeOK' /\ excused \subseteq Branches
      /\ excused' \subseteq Branches
  <2>1. TypeOK'
    BY TypesInductive
  <2>2. QED
    BY <2>1 DEF TypeOK
<1>1. ASSUME UNCHANGED <<pc, good, receipt, late, dir>>, excused \subseteq excused',
             \A a \in Branches : result'[a].status = "failed" =>
                 a \in excused' \/ result[a].status = "failed"
      PROVE  \A a \in Branches : a \notin excused' => OnCourse(a)'
  BY <1>1 DEF LocalInv, OnCourse
<1>2. CASE Dispatch
  <2>1. parent'.phase = "arming" /\ parent'.primary = parent.primary
        /\ \A a \in Branches : pc'[a] = pc[a] \/ pc'[a] = "spawned"
    BY <1>2, DispatchMoves DEF Scheduled
  <2>2. UNCHANGED <<good, receipt, late, dir, result, excused>>
    BY <1>2 DEF Dispatch, ghosts
  <2>3. QED
    BY <2>1, <2>2 DEF LocalInv, OnCourse
<1>3. CASE Arm
  <2>1. parent'.phase = "running" /\ parent'.primary = parent.primary
    BY <1>3 DEF Arm, TypeOK
  <2>2. UNCHANGED <<pc, good, receipt, late, dir, result, excused>>
    BY <1>3 DEF Arm, ghosts, workers
  <2>3. QED
    BY <1>1, <2>1, <2>2 DEF LocalInv
<1>4. CASE StartFails
  <2>0. PICK at \in Branches : at = parent.at
    BY <1>4 DEF StartFails, AtHand
  <2>1. parent'.phase = "running" /\ parent'.primary = parent.primary
    BY <1>4, PhaseSteps DEF StartFails, Phases
  <2>2. /\ UNCHANGED <<good, receipt, late, dir>> /\ excused' = excused \cup {at}
        /\ \A a \in Branches : a # at => result'[a] = result[a]
    BY <1>4, <2>0 DEF StartFails, Kill, Fault, TypeOK
  <2>3. \A a \in Branches : a # at => pc'[a] = pc[a]
    BY <1>4, <2>0, TerminatedMoves DEF StartFails
  <2>4. QED
    BY <1>0, <2>1, <2>2, <2>3 DEF LocalInv, OnCourse
<1>5. ASSUME NEW b \in Branches, Collects(b)
      PROVE  LocalInv'
  <2>1. UNCHANGED <<good, receipt, late, dir, excused>> /\ b \in running
    BY <1>5 DEF Collects, Kill, workers, ghosts
  <2>2. /\ parent'.phase = "collecting" /\ parent'.primary = parent.primary
        /\ \A a \in Branches : a # b => pc'[a] = pc[a] /\ result'[a] = result[a]
    BY <1>5, CollectMoves
  <2>3. ASSUME b \notin excused
        PROVE  OnCourse(b)'
    <3>1. OnCourse(b) /\ b \notin late /\ parent.phase # "cleaning"
      BY <2>3 DEF LocalInv, OnCourse
    <3>2. ~Live(b) /\ pc'[b] = pc[b]
      BY <1>5, <3>1 DEF Collects, workers
    <3>3. pc[b] = "exited"
      BY <2>1, <3>1, <3>2 DEF Live, OnCourse, Scheduled, Handled
    <3>4. ReceiptPasses(b)
      BY <3>1, <3>3 DEF ReceiptPasses, OnCourse
    <3>5. result'[b].status # "failed"
      BY <1>5, <3>1, <3>4, CollectMoves
    <3>6. QED
      BY <2>1, <3>1, <3>2, <3>5 DEF OnCourse
  <2>4. QED
    BY <2>1, <2>2, <2>3 DEF LocalInv, OnCourse
<1>6. CASE Manifest
  <2>1. /\ parent'.phase = IF parent.primary THEN "cleaning" ELSE "running"
        /\ parent'.primary = parent.primary
    BY <1>6, PhaseSteps DEF Manifest, Phases
  <2>2. UNCHANGED <<pc, good, receipt, late, dir, excused>>
    BY <1>6 DEF Manifest, ghosts, workers
  <2>3. \A a \in Branches : result'[a].status = result[a].status
    BY <1>6 DEF Manifest, TypeOK, AtHand
  <2>4. QED
    BY <1>1, <2>1, <2>2, <2>3 DEF LocalInv
<1>7. CASE Interrupt \/ ParentDies
  <2>1. excused' = Branches
    BY <1>0, <1>7 DEF Interrupt, ParentDies, Fault
  <2>2. parent'.phase = "cleaning" => parent'.primary
    <3>1. CASE Interrupt
      BY <3>1 DEF Interrupt, TypeOK
    <3>2. CASE ParentDies
      BY <3>2, PhaseSteps DEF ParentDies, Phases
    <3>3. QED
      BY <1>7, <3>1, <3>2
  <2>3. QED
    BY <2>1, <2>2 DEF LocalInv
<1>8. ASSUME NEW b \in Branches,
             LoopEnds \/ SealWindow(b) \/ WindowsSealed \/ Report \/ ReportRaises
      PROVE  LocalInv'
  <2>1. parent'.phase \notin {"dead", "cleaning"} /\ parent'.primary = parent.primary
    BY <1>8, PhaseSteps DEF LoopEnds, SealWindow, WindowsSealed, Report, ReportRaises, Phases
  <2>2. UNCHANGED <<pc, good, receipt, late, dir, result>> /\ excused' = excused
    BY <1>8 DEF LoopEnds, SealWindow, WindowsSealed, Report, ReportRaises, ghosts, workers, Fault
  <2>3. QED
    BY <1>1, <2>1, <2>2 DEF LocalInv
<1>9. ASSUME NEW b \in Branches, Verify \/ Expire(b)
      PROVE  LocalInv'
  <2>1. UNCHANGED <<pc, good, receipt, dir, result, parent>>
    BY <1>9 DEF Verify, Expire, workers
  <2>2. late' \ late \subseteq excused' /\ excused \subseteq excused'
    BY <1>9 DEF Verify, Expire, ghosts
  <2>3. QED
    BY <1>0, <2>1, <2>2 DEF LocalInv, OnCourse
<1>10. ASSUME NEW b \in Branches, ForeignWrite(b)
       PROVE  LocalInv'
  <2>1. UNCHANGED <<pc, good, receipt, late, result, parent>> /\ excused' = excused \cup {b}
        /\ \A a \in Branches : a # b => dir'[a] = dir[a]
    BY <1>10 DEF ForeignWrite, workers, TypeOK
  <2>2. QED
    BY <1>0, <2>1 DEF LocalInv, OnCourse
<1>11. QED
  BY <1>2, <1>3, <1>4, <1>5, <1>6, <1>7, <1>8, <1>9, <1>10, CollectSteps, WorkerOnCourse, NAssumption
     DEF Next, Parent, Branches

(* The courses of the branches are inductive under the books.               *)
LEMMA LocalInductive ==
    ASSUME TypeOK, AtHand, Scheduled, LocalInv, [Next]_vars
    PROVE  LocalInv'
<1>1. CASE UNCHANGED vars
  BY <1>1 DEF vars, workers, ghosts, LocalInv, OnCourse
<1>2. QED
  BY <1>1, ParentOnCourse

(* "Keep a failure local", for any number of branches and whatever happens  *)
(* to the others: a branch that the scheduler fails was excused.            *)
THEOREM FailuresLocal == Spec => []FailureLocal
<1> DEFINE Inv == TypeOK /\ AtHand /\ Scheduled /\ LocalInv
<1>1. Init => Inv
  <2>1. Init => LocalInv
    BY DEF Init, LocalInv, OnCourse, NoResult
  <2>2. QED
    BY <2>1, InitTypes, InitScheduled
<1>2. Inv /\ [Next]_vars => Inv'
  BY TypesInductive, ScheduledInductive, LocalInductive
<1>3. Inv => FailureLocal
  BY DEF LocalInv, OnCourse, FailureLocal
<1>4. QED
  BY <1>1, <1>2, <1>3, PTL DEF Spec

----------------------------------------------------------------------------
(* The evidence.  A branch that passed exited with its receipt.  Its        *)
(* directory is compared with the receipt, then with its completion         *)
(* manifest, then with the report; unseen is the gap between the first two. *)
Kept(b, d) == d = receipt[b].dir \/ b \in unseen

ResultsKept ==
    /\ \A b \in Branches : result[b].status = "passed" => pc[b] = "exited"
    /\ parent.phase = "collecting" /\ result[parent.at].status = "passed" =>
           Kept(parent.at, dir[parent.at])
    /\ \A b \in Branches :
           result[b].status = "passed" /\ b \notin running => Kept(b, result[b].dir)

ReportKept ==
    /\ report.written <=> parent.phase = "done"
    /\ report.passed \subseteq report.of /\ report.of \subseteq Branches
    /\ report.written =>
           \A b \in report.passed : pc[b] = "exited" /\ Kept(b, report.final[b])
    /\ report.verified # "none" => report.written
    /\ report.verified = "passed" => \A b \in report.of : report.final[b] = dir[b]

(* A step of a worker is of one that has not exited.                        *)
LEMMA WorkerKeepsEvidence ==
    ASSUME TypeOK, AtHand, ResultsKept, ReportKept, NEW b \in Branches, Worker(b)
    PROVE  ResultsKept' /\ ReportKept'
<1>1. /\ Live(b) /\ \A a \in Branches : a # b => pc'[a] = pc[a]
      /\ UNCHANGED <<plan, dir, late, parent, pending, running, result, report>>
  BY WorkerMoves
<1>2. \A a \in Branches : a # b => receipt'[a] = receipt[a]
  BY DEF Worker, Armed, Unarmed, Acquire, LeaseTimeout, AcquireLine, Execute, ReleaseLine, Unlock,
         SealReceipt, Exit, Crash, TypeOK
<1>3. unseen' = unseen
  BY DEF Worker, Armed, Unarmed, Acquire, LeaseTimeout, AcquireLine, Execute, ReleaseLine, Unlock,
         SealReceipt, Exit, Crash, Fault, ghosts
<1>4. \A a \in Branches : pc[a] = "exited" => pc'[a] = "exited" /\ receipt'[a] = receipt[a]
  BY <1>1, <1>2 DEF Live
<1>5. ASSUME NEW a \in Branches, pc[a] = "exited", NEW d, Kept(a, d)
      PROVE  Kept(a, d)'
  BY <1>3, <1>4, <1>5 DEF Kept
<1>6. ResultsKept'
  BY <1>1, <1>4, <1>5 DEF ResultsKept, AtHand
<1>7. ReportKept'
  BY <1>1, <1>4, <1>5 DEF ReportKept
<1>8. QED
  BY <1>6, <1>7

(* The scheduler's steps up to the end of the loop: nothing is reported.    *)
LEMMA CollectKeepsEvidence ==
    ASSUME TypeOK, AtHand, Scheduled, ResultsKept, Next,
           NEW b \in Branches, Dispatch \/ Arm \/ StartFails \/ Collects(b) \/ Manifest
    PROVE  ResultsKept'
<1>1. CASE Dispatch
  <2>1. /\ parent'.phase = "arming" /\ pc[parent'.at] = "absent"
        /\ \A a \in Branches : a # parent'.at => pc'[a] = pc[a]
    BY <1>1, DispatchMoves DEF Scheduled
  <2>2. UNCHANGED <<receipt, unseen, running, result>>
    BY <1>1 DEF Dispatch, ghosts
  <2>3. QED
    BY <2>1, <2>2 DEF ResultsKept, Kept
<1>2. CASE Arm
  <2>1. parent'.phase = "running" /\ running \subseteq running'
    BY <1>2 DEF Arm, TypeOK
  <2>2. UNCHANGED <<pc, receipt, unseen, result>>
    BY <1>2 DEF Arm, ghosts, workers
  <2>3. QED
    BY <2>1, <2>2 DEF ResultsKept, Kept
<1>3. CASE StartFails
  <2>0. PICK at \in Branches : at = parent.at
    BY <1>3 DEF StartFails, AtHand
  <2>1. parent'.phase = "running"
    BY <1>3, PhaseSteps DEF StartFails, Phases
  <2>2. /\ UNCHANGED <<receipt, running, unseen>> /\ result'[at].status = "failed"
        /\ \A a \in Branches : a # at => result'[a] = result[a]
    BY <1>3, <2>0 DEF StartFails, Kill, Fault, TypeOK
  <2>3. \A a \in Branches : a # at => pc'[a] = pc[a]
    BY <1>3, <2>0, TerminatedMoves DEF StartFails
  <2>4. QED
    BY <2>1, <2>2, <2>3 DEF ResultsKept, Kept
<1>4. CASE Collects(b)
  <2>1. /\ UNCHANGED <<receipt, running, dir, unseen>> /\ b \in running
    BY <1>4 DEF Collects, Kill, workers, ghosts
  <2>2. /\ parent'.phase = "collecting" /\ parent'.at = b
        /\ \A a \in Branches : a # b => result'[a] = result[a] /\ pc'[a] = pc[a]
        /\ result'[b].status = "passed" => Poll(b) /\ ReceiptPasses(b)
    BY <1>4, CollectMoves
  <2>3. ASSUME result'[b].status = "passed"
        PROVE  pc'[b] = "exited" /\ dir[b] = receipt[b].dir
    BY <2>2, <2>3 DEF Poll, ReceiptPasses, workers
  <2>4. QED
    BY <2>1, <2>2, <2>3 DEF ResultsKept, Kept
<1>5. CASE Manifest
  <2>0. PICK at \in Branches : at = parent.at
    BY <1>5 DEF Manifest, AtHand
  <2>1. parent'.phase # "collecting" /\ parent.phase = "collecting"
    BY <1>5, PhaseSteps DEF Manifest, Phases
  <2>2. UNCHANGED <<pc, receipt, dir, unseen>> /\ running' = running \ {at}
    BY <1>5, <2>0 DEF Manifest, ghosts, workers
  <2>3. /\ result'[at].status = result[at].status /\ result'[at].dir = dir[at]
        /\ \A a \in Branches : a # at => result'[a] = result[a]
    BY <1>5, <2>0 DEF Manifest, TypeOK
  <2>4. result[at].status = "passed" => Kept(at, dir[at])
    BY <2>0, <2>1 DEF ResultsKept
  <2>5. QED
    BY <2>0, <2>1, <2>2, <2>3, <2>4 DEF ResultsKept, Kept
<1>6. QED
  BY <1>1, <1>2, <1>3, <1>4, <1>5

(* The other steps of the scheduler, of its environment and of time.        *)
LEMMA OthersKeepResults ==
    ASSUME TypeOK, AtHand, ResultsKept, Next, NEW b \in Branches,
           \/ Interrupt \/ LoopEnds \/ SealWindow(b) \/ WindowsSealed \/ Report \/ ReportRaises
           \/ ParentDies \/ Verify \/ Expire(b) \/ ForeignWrite(b)
    PROVE  ResultsKept'
<1>1. CASE Interrupt \/ LoopEnds \/ SealWindow(b) \/ WindowsSealed \/ Report \/ ReportRaises
           \/ ParentDies
  <2>1. parent'.phase # "collecting"
    <3>1. CASE Interrupt
      BY <3>1 DEF Interrupt, TypeOK
    <3>2. CASE ~Interrupt
      BY <1>1, <3>2, PhaseSteps
         DEF LoopEnds, SealWindow, WindowsSealed, Report, ReportRaises, ParentDies, Phases
    <3>3. QED
      BY <3>1, <3>2
  <2>2. UNCHANGED <<receipt, result, running, unseen>>
    BY <1>1 DEF Interrupt, LoopEnds, SealWindow, WindowsSealed, Report, ReportRaises, ParentDies,
                Kill, Fault, ghosts, workers
  <2>3. \A a \in Branches : pc[a] = "exited" => pc'[a] = "exited"
    <3>1. CASE ParentDies
      <4>1. running \subseteq Branches
        BY DEF TypeOK
      <4>2. QED
        BY <3>1, <4>1, KillMoves DEF ParentDies, workers, Live
    <3>2. CASE ~ParentDies
      BY <1>1, <3>2
         DEF Interrupt, LoopEnds, SealWindow, WindowsSealed, Report, ReportRaises, workers
    <3>3. QED
      BY <3>1, <3>2
  <2>4. QED
    BY <2>1, <2>2, <2>3 DEF ResultsKept, Kept
<1>2. CASE Verify \/ Expire(b)
  <2>1. UNCHANGED <<pc, receipt, dir, parent, running, result, unseen>>
    BY <1>2 DEF Verify, Expire, ghosts, workers
  <2>2. QED
    BY <2>1 DEF ResultsKept, Kept
<1>3. CASE ForeignWrite(b)
  <2>1. /\ UNCHANGED <<pc, receipt, parent, running, result>> /\ unseen \subseteq unseen'
        /\ parent.phase = "collecting" /\ parent.at = b => b \in unseen'
        /\ \A a \in Branches : a # b => dir'[a] = dir[a]
    BY <1>3 DEF ForeignWrite, workers, TypeOK
  <2>2. parent.phase = "collecting" => parent.at \in Branches
    BY DEF AtHand
  <2>3. QED
    BY <2>1, <2>2 DEF ResultsKept, Kept
<1>4. QED
  BY <1>1, <1>2, <1>3

(* What is reported of the branches that passed stays as it was reported,   *)
(* and the workspace is verified against it once.                           *)
LEMMA ReportKeeps ==
    ASSUME TypeOK, AtHand, Scheduled, ResultsKept, ReportKept, Next
    PROVE  ReportKept'
<1>0. report \in Reports
  BY DEF TypeOK, Reports
<1>1. ASSUME parent.phase # "done", parent'.phase # "done", UNCHANGED report
      PROVE  ReportKept'
  BY <1>1 DEF ReportKept
<1>2. CASE Dispatch \/ Arm \/ StartFails \/ Manifest \/ Interrupt \/ LoopEnds \/ WindowsSealed
           \/ ReportRaises \/ ParentDies
  <2>1. UNCHANGED report /\ parent.phase # "done"
    BY <1>2 DEF Dispatch, Arm, StartFails, Manifest, Interrupt, LoopEnds, WindowsSealed,
                ReportRaises, ParentDies
  <2>2. parent'.phase # "done"
    <3>1. CASE Dispatch
      BY <3>1, DispatchMoves DEF Scheduled
    <3>2. CASE Arm \/ Interrupt
      BY <3>2 DEF Arm, Interrupt, TypeOK
    <3>3. CASE StartFails \/ Manifest \/ LoopEnds \/ WindowsSealed \/ ReportRaises \/ ParentDies
      BY <3>3, PhaseSteps
         DEF StartFails, Manifest, LoopEnds, WindowsSealed, ReportRaises, ParentDies, Phases
    <3>4. QED
      BY <1>2, <3>1, <3>2, <3>3
  <2>3. QED
    BY <1>1, <2>1, <2>2
<1>3. ASSUME NEW b \in Branches, Collects(b) \/ SealWindow(b)
      PROVE  ReportKept'
  <2>1. UNCHANGED report /\ parent.phase # "done"
    BY <1>3 DEF Collects, SealWindow
  <2>2. parent'.phase # "done"
    BY <1>3, CollectMoves, PhaseSteps DEF SealWindow, Phases
  <2>3. QED
    BY <1>1, <2>1, <2>2
<1>4. CASE Report
  <2>1. /\ report'.written /\ report'.passed = Passed /\ report'.of = Results
        /\ report'.final = dir /\ report'.verified = "none"
    BY <1>4 DEF Report
  <2>2. UNCHANGED <<pc, receipt, unseen>> /\ parent'.phase = "done" /\ running = {}
    BY <1>4, PhaseSteps DEF Report, workers, ghosts, Phases, Scheduled, Over
  <2>3. Passed \subseteq Results /\ Results \subseteq Branches
    BY DEF Passed, Results
  <2>4. ASSUME NEW b \in Passed
        PROVE  pc[b] = "exited" /\ Kept(b, dir[b])
    <3>1. result[b].status = "passed" /\ result[b].dir = dir[b] /\ b \in Branches
      BY <2>3 DEF Passed, Interfered
    <3>2. QED
      BY <2>2, <3>1 DEF ResultsKept
  <2>5. QED
    BY <2>1, <2>2, <2>3, <2>4 DEF ReportKept, Kept
<1>5. CASE Verify
  <2>1. PICK verdict \in {"passed", "failed"} :
            /\ report' = [report EXCEPT !.verified = verdict]
            /\ verdict = "passed" => \A b \in report.of : report.final[b] = dir[b]
    BY <1>5 DEF Verify
  <2>2. /\ report'.verified = verdict /\ report'.written = report.written
        /\ report'.passed = report.passed /\ report'.of = report.of
        /\ report'.final = report.final
    BY <1>0, <2>1 DEF Reports
  <2>3. UNCHANGED <<pc, receipt, dir, unseen, parent>> /\ parent.phase = "done"
    BY <1>5 DEF Verify, workers, ghosts
  <2>4. report.written
    BY <2>3 DEF ReportKept
  <2>5. \A b \in report.passed : b \in Branches /\ pc[b] = "exited" /\ Kept(b, report.final[b])
    BY <2>4 DEF ReportKept
  <2>6. QED
    BY <2>1, <2>2, <2>3, <2>4, <2>5 DEF ReportKept, Kept
<1>6. ASSUME NEW b \in Branches, Expire(b)
      PROVE  ReportKept'
  <2>1. UNCHANGED <<pc, receipt, dir, parent, report, unseen>>
    BY <1>6 DEF Expire, workers
  <2>2. QED
    BY <2>1 DEF ReportKept, Kept
<1>7. ASSUME NEW b \in Branches, ForeignWrite(b)
      PROVE  ReportKept'
  <2>1. UNCHANGED <<pc, receipt, parent, report>> /\ unseen \subseteq unseen'
        /\ report.verified = "none"
    BY <1>7 DEF ForeignWrite, workers
  <2>2. QED
    BY <2>1 DEF ReportKept, Kept
<1>8. QED
  BY <1>2, <1>3, <1>4, <1>5, <1>6, <1>7, CollectSteps, WorkerKeepsEvidence, NAssumption
     DEF Next, Parent, Branches

(* What is known of results and report is inductive under the books.        *)
LEMMA EvidenceInductive ==
    ASSUME TypeOK, AtHand, Scheduled, ResultsKept, ReportKept, [Next]_vars
    PROVE  ResultsKept' /\ ReportKept'
<1>1. CASE UNCHANGED vars
  BY <1>1 DEF vars, workers, ghosts, ResultsKept, ReportKept, Kept
<1>2. CASE Next
  <2>1. ReportKept'
    BY <1>2, ReportKeeps
  <2>2. ResultsKept'
    BY <1>2, WorkerKeepsEvidence, CollectKeepsEvidence, OthersKeepResults, CollectSteps, NAssumption
       DEF Next, Parent, Branches
  <2>3. QED
    BY <2>1, <2>2
<1>3. QED
  BY <1>1, <1>2

(* Whatever writes into the directories, and whenever: a branch that passed *)
(* in a workspace that verified has the evidence its worker sealed, but for *)
(* a write between collect's comparison and its completion manifest.        *)
THEOREM SealedEvidence == Spec => []EvidenceKept
<1> DEFINE Inv == TypeOK /\ AtHand /\ Scheduled /\ ResultsKept /\ ReportKept
<1>1. Init => Inv
  <2>1. Init => ResultsKept /\ ReportKept
    BY DEF Init, ResultsKept, ReportKept, NoResult, NoReport
  <2>2. QED
    BY <2>1, InitTypes, InitScheduled
<1>2. Inv /\ [Next]_vars => Inv'
  BY TypesInductive, ScheduledInductive, EvidenceInductive
<1>3. ASSUME Inv
      PROVE  EvidenceKept
  <2>1. ASSUME report.verified = "passed", NEW b \in report.passed \ unseen
        PROVE  dir[b] = receipt[b].dir
    BY <1>3, <2>1 DEF ReportKept, Kept
  <2>2. QED
    BY <1>3, <2>1 DEF EvidenceKept
<1>4. QED
  BY <1>1, <1>2, <1>3, PTL DEF Spec

----------------------------------------------------------------------------
(* The lease.  A worker writes only while it holds the device, so its       *)
(* acquire line is the last one until its release line follows it: timed    *)
(* windows never overlap.                                                   *)
Holder(b) == pc[b] \in {"locked", "executing", "releasing", "unlocking"} => lock = b

Before(b) == pc[b] \in {"absent", "spawned", "acquiring", "locked"}
Wrote(i, e, b) == journal[i].event = e /\ journal[i].branch = b
Windows(b) ==
    /\ Before(b) => \A i \in DOMAIN journal : journal[i].branch # b
    /\ pc[b] \in {"executing", "releasing"} =>
           \A i \in DOMAIN journal : journal[i].branch = b =>
               journal[i].event = "acquire" /\ i = Len(journal)
    /\ \A i, k \in DOMAIN journal :
           Wrote(i, "acquire", b) /\ Wrote(k, "release", b) => k = i + 1
    /\ \A k \in DOMAIN journal : Wrote(k, "abandoned", b) =>
           \E i \in DOMAIN journal : i < k /\ Wrote(i, "acquire", b)

(* A branch that passed wrote its release line.                             *)
Released(b) == \E i \in DOMAIN journal : Wrote(i, "release", b)
Outcome(b) ==
    /\ Before(b) \/ pc[b] = "executing" => ~good[b]
    /\ pc[b] \in {"unlocking", "sealing", "sealed", "exited"} /\ good[b] => Released(b)
    /\ receipt[b].good => Released(b)
    /\ result[b].status = "passed" => Released(b)

LeaseInv == Leased => \A b \in Branches : Holder(b) /\ Windows(b) /\ Outcome(b)

(* What one more line does to the journal.                                  *)
LEMMA LineAdded ==
    ASSUME TypeOK, NEW b \in Branches, NEW e \in {"acquire", "release", "abandoned"},
           journal' = Append(journal, Line(e, b))
    PROVE  /\ Len(journal) \in Nat /\ DOMAIN journal = 1..Len(journal)
           /\ Len(journal') = Len(journal) + 1 /\ DOMAIN journal' = 1..(Len(journal) + 1)
           /\ \A i \in DOMAIN journal : journal'[i] = journal[i]
           /\ journal'[Len(journal) + 1].event = e /\ journal'[Len(journal) + 1].branch = b
<1>1. journal \in Seq(Lines)
  BY DEF TypeOK, Lines
<1>2. Line(e, b).event = e /\ Line(e, b).branch = b
  BY DEF Line
<1>3. QED
  BY <1>1, <1>2

(* The lines a worker writes, and where it stands then.                     *)
LEMMA LineSteps ==
    ASSUME TypeOK, Leased, LeaseInv, NEW b \in Branches, Worker(b)
    PROVE  \/ UNCHANGED journal
           \/ /\ journal' = Append(journal, Line("acquire", b)) /\ lock = b
              /\ pc[b] = "locked" /\ pc'[b] = "executing" /\ UNCHANGED <<good, receipt>>
           \/ /\ journal' = Append(journal, Line("release", b)) /\ lock = b
              /\ pc[b] = "releasing" /\ pc'[b] = "unlocking" /\ UNCHANGED <<good, receipt>>
<1>1. CASE AcquireLine(b)
  BY <1>1 DEF AcquireLine, At, Goes, LeaseInv, Holder, TypeOK
<1>2. CASE ReleaseLine(b)
  BY <1>2 DEF ReleaseLine, At, Goes, LeaseInv, Holder, TypeOK
<1>3. CASE ~AcquireLine(b) /\ ~ReleaseLine(b)
  BY <1>3 DEF Worker, Armed, Unarmed, Acquire, LeaseTimeout, Execute, Unlock, SealReceipt, Exit,
              Crash
<1>4. QED
  BY <1>1, <1>2, <1>3

(* Who holds the device: nobody else can take it.                           *)
LEMMA WorkerHolders ==
    ASSUME TypeOK, Leased, LeaseInv, NEW b \in Branches, Worker(b), NEW a \in Branches
    PROVE  Holder(a)'
<1>1. \A c \in Branches : Holder(c) /\ c # Nobody
  BY NAssumption DEF LeaseInv, Branches, Nobody
<1>2. CASE a # b
  <2>1. pc'[a] = pc[a]
    BY <1>2, WorkerMoves
  <2>2. CASE Acquire(b)
    BY <1>1, <2>1, <2>2 DEF Acquire, Holder
  <2>3. CASE Unlock(b)
    BY <1>1, <1>2, <2>1, <2>3 DEF Unlock, At, Holder
  <2>4. CASE Exit(b) \/ Crash(b)
    BY <1>1, <1>2, <2>1, <2>4 DEF Exit, Crash, Freed, Holder
  <2>5. CASE lock' = lock
    BY <1>1, <2>1, <2>5 DEF Holder
  <2>6. QED
    BY <2>2, <2>3, <2>4, <2>5
       DEF Worker, Armed, Unarmed, LeaseTimeout, AcquireLine, Execute, ReleaseLine, SealReceipt
<1>3. CASE a = b
  <2>1. CASE Acquire(b)
    BY <1>3, <2>1 DEF Acquire, Holder
  <2>2. CASE AcquireLine(b) \/ Execute(b) \/ ReleaseLine(b)
    <3>1. pc[b] \in {"locked", "executing", "releasing"} /\ lock' = lock
      BY <2>2 DEF AcquireLine, Execute, ReleaseLine, At
    <3>2. QED
      BY <1>1, <1>3, <3>1 DEF Holder
  <2>3. CASE Armed(b) \/ Unarmed(b) \/ LeaseTimeout(b) \/ Unlock(b) \/ SealReceipt(b) \/ Exit(b)
             \/ Crash(b)
    <3>1. pc'[b] \in {"acquiring", "sealing", "sealed", "exited", "killed"}
      BY <2>3 DEF Armed, Unarmed, LeaseTimeout, Unlock, SealReceipt, Exit, Crash, Goes, AfterArm,
                  TypeOK
    <3>2. QED
      BY <1>3, <3>1 DEF Holder
  <2>4. QED
    BY <2>1, <2>2, <2>3 DEF Worker
<1>4. QED
  BY <1>2, <1>3

(* The places of the worker that moves, in a run with the lease.            *)
LEMMA LeasedMoves ==
    ASSUME TypeOK, Leased, NEW b \in Branches, Worker(b)
    PROVE  /\ Before(b)' => Before(b)
           /\ pc'[b] \in {"executing", "releasing"} =>
                  pc[b] = "executing" \/ (Before(b) /\ pc[b] = "locked")
           /\ pc'[b] = "executing" => pc[b] = "locked"
<1>1. CASE Armed(b)
  BY <1>1 DEF Armed, At, Goes, AfterArm, TypeOK, Before
<1>2. CASE Unarmed(b) \/ Acquire(b) \/ LeaseTimeout(b)
  BY <1>2 DEF Unarmed, Acquire, LeaseTimeout, At, Goes, TypeOK, Before
<1>3. CASE AcquireLine(b) \/ Execute(b)
  BY <1>3 DEF AcquireLine, Execute, At, Goes, AfterWork, TypeOK, Before
<1>4. CASE ReleaseLine(b) \/ Unlock(b) \/ SealReceipt(b) \/ Exit(b) \/ Crash(b)
  <2>1. pc'[b] \in {"unlocking", "sealing", "sealed", "exited", "killed"}
    BY <1>4 DEF ReleaseLine, Unlock, SealReceipt, Exit, Crash, Goes, TypeOK
  <2>2. QED
    BY <2>1 DEF Before
<1>5. QED
  BY <1>1, <1>2, <1>3, <1>4 DEF Worker

(* The windows after a line of b: those of the others are as they were.     *)
LEMMA LineWindows ==
    ASSUME TypeOK, NEW b \in Branches, NEW e \in {"acquire", "release", "abandoned"},
           journal' = Append(journal, Line(e, b)),
           NEW a \in Branches, a # b, Windows(a),
           Before(a)' => Before(a), pc'[a] \notin {"executing", "releasing"}
    PROVE  Windows(a)'
<1>1. /\ Len(journal) \in Nat /\ DOMAIN journal = 1..Len(journal)
      /\ Len(journal') = Len(journal) + 1 /\ DOMAIN journal' = 1..(Len(journal) + 1)
      /\ \A i \in DOMAIN journal : journal'[i] = journal[i]
      /\ journal'[Len(journal) + 1].event = e /\ journal'[Len(journal) + 1].branch = b
  BY LineAdded
<1>2. \A i \in DOMAIN journal' : journal'[i].branch = a =>
          i \in DOMAIN journal /\ journal'[i] = journal[i]
  BY <1>1
<1>3. \A i \in DOMAIN journal : i \in DOMAIN journal' /\ journal'[i] = journal[i]
  BY <1>1
<1>4. Before(a)' => \A i \in DOMAIN journal' : journal'[i].branch # a
  BY <1>2 DEF Windows
<1>5. \A i, k \in DOMAIN journal' :
          Wrote(i, "acquire", a)' /\ Wrote(k, "release", a)' => k = i + 1
  BY <1>2 DEF Windows, Wrote
<1>6. ASSUME NEW k \in DOMAIN journal', Wrote(k, "abandoned", a)'
      PROVE  \E i \in DOMAIN journal' : i < k /\ Wrote(i, "acquire", a)'
  <2>1. k \in DOMAIN journal /\ Wrote(k, "abandoned", a)
    BY <1>2, <1>6 DEF Wrote
  <2>2. PICK i \in DOMAIN journal : i < k /\ Wrote(i, "acquire", a)
    BY <2>1 DEF Windows
  <2>3. QED
    BY <1>3, <2>2 DEF Wrote
<1>7. QED
  BY <1>4, <1>5, <1>6 DEF Windows

(* The windows of the worker that writes.                                   *)
LEMMA WorkerWindows ==
    ASSUME TypeOK, Leased, LeaseInv, NEW b \in Branches, Worker(b), NEW a \in Branches
    PROVE  Windows(a)'
<1>1. Windows(a) /\ Holder(a)
  BY DEF LeaseInv
<1>2. a # b => pc'[a] = pc[a]
  BY WorkerMoves
<1>3. CASE UNCHANGED journal
  <2>1. CASE a # b
    BY <1>1, <1>2, <1>3, <2>1 DEF Windows, Before, Wrote
  <2>2. CASE a = b
    <3>1. /\ Before(b)' => Before(b)
          /\ pc'[b] \in {"executing", "releasing"} => pc[b] = "executing" \/ Before(b)
      BY LeasedMoves
    <3>2. QED
      BY <1>1, <1>3, <2>2, <3>1 DEF Windows, Wrote
  <2>3. QED
    BY <2>1, <2>2
<1>4. CASE a # b /\ ~UNCHANGED journal
  <2>1. PICK e \in {"acquire", "release"} : journal' = Append(journal, Line(e, b))
    BY <1>4, LineSteps
  <2>2. lock = b
    BY <1>4, LineSteps
  <2>3. pc'[a] \notin {"executing", "releasing"} /\ (Before(a)' => Before(a))
    BY <1>1, <1>2, <1>4, <2>2 DEF Holder, Before
  <2>4. QED
    BY <1>1, <1>4, <2>1, <2>3, LineWindows
<1>5. CASE a = b /\ ~UNCHANGED journal
  <2> DEFINE n == Len(journal)
  <2>1. CASE pc[b] = "locked"
    <3>1. journal' = Append(journal, Line("acquire", b)) /\ pc'[b] = "executing"
      BY <1>5, <2>1, LineSteps
    <3>2. /\ Len(journal) \in Nat /\ DOMAIN journal = 1..Len(journal)
          /\ Len(journal') = Len(journal) + 1 /\ DOMAIN journal' = 1..(Len(journal) + 1)
          /\ \A i \in DOMAIN journal : journal'[i] = journal[i]
          /\ journal'[Len(journal) + 1].event = "acquire"
      BY <3>1, LineAdded
    <3>3. \A i \in DOMAIN journal : journal[i].branch # b
      BY <1>1, <1>5, <2>1 DEF Windows, Before
    <3>4. \A i \in DOMAIN journal' : journal'[i].branch = b =>
              journal'[i].event = "acquire" /\ i = Len(journal')
      BY <3>2, <3>3
    <3>5. QED
      BY <1>5, <3>1, <3>4 DEF Windows, Before, Wrote
  <2>2. CASE pc[b] # "locked"
    <3>1. journal' = Append(journal, Line("release", b)) /\ pc'[b] = "unlocking"
          /\ pc[b] = "releasing"
      BY <1>5, <2>2, LineSteps
    <3>2. /\ Len(journal) \in Nat /\ DOMAIN journal = 1..Len(journal)
          /\ Len(journal') = Len(journal) + 1 /\ DOMAIN journal' = 1..(Len(journal) + 1)
          /\ \A i \in DOMAIN journal : journal'[i] = journal[i]
          /\ journal'[Len(journal) + 1].event = "release"
      BY <3>1, LineAdded
    <3>3. \A i \in DOMAIN journal : journal[i].branch = b =>
              journal[i].event = "acquire" /\ i = Len(journal)
      BY <1>1, <1>5, <3>1 DEF Windows
    <3>4. \A i \in DOMAIN journal' : journal'[i].branch = b =>
              \/ journal'[i].event = "acquire" /\ i = Len(journal)
              \/ journal'[i].event = "release" /\ i = Len(journal) + 1
      BY <3>2, <3>3
    <3>5. \A i, k \in DOMAIN journal' :
              Wrote(i, "acquire", b)' /\ Wrote(k, "release", b)' => k = i + 1
      BY <3>4 DEF Wrote
    <3>6. \A k \in DOMAIN journal' : ~Wrote(k, "abandoned", b)'
      BY <3>4 DEF Wrote
    <3>7. QED
      BY <1>5, <3>1, <3>5, <3>6 DEF Windows, Before
  <2>3. QED
    BY <2>1, <2>2
<1>6. QED
  BY <1>3, <1>4, <1>5

(* A release line stays, and a worker that is good wrote it.                *)
LEMMA WorkerOutcomes ==
    ASSUME TypeOK, Leased, LeaseInv, NEW b \in Branches, Worker(b), NEW a \in Branches
    PROVE  Outcome(a)'
<1>1. Outcome(a)
  BY DEF LeaseInv
<1>2. \A c \in Branches : Released(c) => Released(c)'
  <2>1. CASE UNCHANGED journal
    BY <2>1 DEF Released, Wrote
  <2>2. ASSUME NEW e \in {"acquire", "release"}, journal' = Append(journal, Line(e, b))
        PROVE  \A c \in Branches : Released(c) => Released(c)'
    <3>1. \A i \in DOMAIN journal : i \in DOMAIN journal' /\ journal'[i] = journal[i]
      BY <2>2, LineAdded
    <3>2. QED
      BY <3>1 DEF Released, Wrote
  <2>3. QED
    BY <2>1, <2>2, LineSteps
<1>3. UNCHANGED result
  BY WorkerMoves
<1>4. CASE a # b
  <2>1. UNCHANGED <<pc[a], good[a], receipt[a]>>
    <3>1. pc'[a] = pc[a]
      BY <1>4, WorkerMoves
    <3>2. good'[a] = good[a]
      BY <1>4 DEF Worker, Armed, Unarmed, Acquire, LeaseTimeout, AcquireLine, Execute, ReleaseLine,
                  Unlock, SealReceipt, Exit, Crash, TypeOK
    <3>3. receipt'[a] = receipt[a]
      BY <1>4 DEF Worker, Armed, Unarmed, Acquire, LeaseTimeout, AcquireLine, Execute, ReleaseLine,
                  Unlock, SealReceipt, Exit, Crash, TypeOK
    <3>4. QED
      BY <3>1, <3>2, <3>3
  <2>2. QED
    BY <1>1, <1>2, <1>3, <2>1 DEF Outcome, Before
<1>5. CASE a = b
  <2>1. CASE Armed(b) \/ Unarmed(b) \/ Acquire(b) \/ LeaseTimeout(b) \/ AcquireLine(b)
    <3>1. Before(b) /\ UNCHANGED <<good, receipt>>
      BY <2>1 DEF Armed, Unarmed, Acquire, LeaseTimeout, AcquireLine, At, Before
    <3>2. QED
      BY <1>1, <1>2, <1>3, <1>5, <3>1 DEF Outcome
  <2>2. CASE Execute(b)
    <3>1. pc'[b] = "releasing" /\ UNCHANGED receipt
      BY <2>2 DEF Execute, Goes, AfterWork, TypeOK
    <3>2. QED
      BY <1>1, <1>2, <1>3, <1>5, <3>1 DEF Outcome, Before
  <2>3. CASE ReleaseLine(b)
    <3>1. CASE UNCHANGED journal
      <4>1. pc'[b] = "sealing" /\ ~good'[b] /\ UNCHANGED receipt
        <5>1. journal # Append(journal, Line("release", b))
          <6>1. journal \in Seq(Lines) /\ Line("release", b) \in Lines
            BY DEF TypeOK, Lines, Line
          <6>2. QED
            BY <6>1
        <5>2. QED
          BY <2>3, <3>1, <5>1 DEF ReleaseLine, Goes, TypeOK
      <4>2. QED
        BY <1>1, <1>2, <1>3, <1>5, <4>1 DEF Outcome, Before
    <3>2. CASE journal' = Append(journal, Line("release", b)) /\ pc'[b] = "unlocking"
      <4>1. Released(b)'
        <5>1. /\ Len(journal) \in Nat /\ DOMAIN journal' = 1..(Len(journal) + 1)
              /\ journal'[Len(journal) + 1].event = "release"
              /\ journal'[Len(journal) + 1].branch = b
          BY <3>2, LineAdded
        <5>2. Len(journal) + 1 \in DOMAIN journal'
          BY <5>1
        <5>3. QED
          BY <5>1, <5>2 DEF Released, Wrote
      <4>2. QED
        BY <1>3, <1>5, <3>2, <4>1 DEF Outcome, Before
    <3>3. QED
      BY <2>3, <3>1, <3>2 DEF ReleaseLine, Goes, TypeOK
  <2>4. CASE Unlock(b) \/ Exit(b) \/ Crash(b)
    <3>1. /\ pc[b] = "unlocking" \/ pc[b] = "sealed" \/ pc'[b] = "killed"
          /\ pc'[b] \in {"sealing", "exited", "killed"} /\ UNCHANGED <<good, receipt>>
      BY <2>4 DEF Unlock, Exit, Crash, At, Goes, TypeOK
    <3>2. QED
      BY <1>1, <1>2, <1>3, <1>5, <3>1 DEF Outcome, Before
  <2>5. CASE SealReceipt(b)
    <3>1. pc[b] = "sealing" /\ pc'[b] = "sealed" /\ UNCHANGED good /\ receipt'[b].good = good[b]
      BY <2>5 DEF SealReceipt, At, Goes, TypeOK
    <3>2. QED
      BY <1>1, <1>2, <1>3, <1>5, <3>1 DEF Outcome, Before
  <2>6. QED
    BY <2>1, <2>2, <2>3, <2>4, <2>5 DEF Worker
<1>6. QED
  BY <1>4, <1>5

(* The steps of the scheduler write no line but when they seal: they start  *)
(* a worker, kill some, or leave them alone.                                *)
LEMMA QuietLease ==
    ASSUME TypeOK, LeaseInv, UNCHANGED <<plan, journal, good, receipt>>,
           \A a \in Branches : \/ pc'[a] = pc[a] \/ pc'[a] = "killed"
                               \/ pc[a] = "absent" /\ pc'[a] = "spawned",
           \A a \in Branches : pc'[a] # "killed" /\ lock = a => lock' = a,
           \A a \in Branches : result'[a].status = "passed" =>
               result[a].status = "passed" \/ receipt[a].good
    PROVE  LeaseInv'
<1>1. ASSUME Leased, NEW a \in Branches
      PROVE  Holder(a)' /\ Windows(a)' /\ Outcome(a)'
  <2>1. Holder(a) /\ Windows(a) /\ Outcome(a)
    BY <1>1 DEF LeaseInv
  <2>2. Holder(a)'
    BY <2>1 DEF Holder
  <2>3. Before(a)' => Before(a)
    BY DEF Before
  <2>4. Windows(a)'
    BY <2>1, <2>3 DEF Windows, Wrote
  <2>5. Released(a)' = Released(a)
    BY DEF Released, Wrote
  <2>6. Outcome(a)'
    BY <2>1, <2>3, <2>5 DEF Outcome
  <2>7. QED
    BY <2>2, <2>4, <2>6
<1>2. Leased' = Leased
  BY DEF Leased
<1>3. QED
  BY <1>1, <1>2 DEF LeaseInv

(* A kill frees the device only of the workers it kills.                    *)
LEMMA KillFrees ==
    ASSUME TypeOK, NEW bs \in SUBSET Branches, Kill(bs)
    PROVE  /\ \A a \in Branches : pc'[a] = pc[a] \/ pc'[a] = "killed"
           /\ \A a \in Branches : pc'[a] # "killed" /\ lock = a => lock' = a
           /\ UNCHANGED <<journal, good, receipt>>
BY DEF Kill, Freed, TypeOK

(* A line of the parent closes a window whose worker is gone.               *)
LEMMA SealKeepsLease ==
    ASSUME TypeOK, Scheduled, LeaseInv, NEW b \in Branches, SealWindow(b)
    PROVE  LeaseInv'
<1>1. CASE UNCHANGED journal
  BY <1>1, QuietLease DEF SealWindow
<1>2. CASE journal' = Append(journal, Line("abandoned", b))
  <2>1. /\ Leased /\ parent.phase = "sealing" /\ OpenWindow(b)
        /\ UNCHANGED <<plan, pc, lock, good, receipt, result>>
    BY DEF SealWindow, Abandoned
  <2>2. \A a \in Branches : ~Live(a)
    BY <2>1 DEF Scheduled, Accounted, Over, Starting
  <2>3. \A a \in Branches : pc[a] \notin {"executing", "releasing"}
    BY <2>2 DEF Live
  <2>4. /\ Len(journal) \in Nat /\ DOMAIN journal = 1..Len(journal)
        /\ DOMAIN journal' = 1..(Len(journal) + 1)
        /\ \A i \in DOMAIN journal : journal'[i] = journal[i]
        /\ journal'[Len(journal) + 1].event = "abandoned"
        /\ journal'[Len(journal) + 1].branch = b
    BY <1>2, LineAdded
  <2>5. \A i \in DOMAIN journal : i \in DOMAIN journal' /\ journal'[i] = journal[i]
    BY <2>4
  <2>6. PICK o \in DOMAIN journal : Wrote(o, "acquire", b)
    BY <2>1 DEF OpenWindow, Line, Wrote
  <2>7. ASSUME NEW a \in Branches
        PROVE  Holder(a)' /\ Windows(a)' /\ Outcome(a)'
    <3>1. Holder(a) /\ Windows(a) /\ Outcome(a)
      BY <2>1 DEF LeaseInv
    <3>2. Holder(a)'
      BY <2>1, <3>1 DEF Holder
    <3>3. Released(a) => Released(a)'
      BY <2>5 DEF Released, Wrote
    <3>4. Outcome(a)'
      BY <2>1, <3>1, <3>3 DEF Outcome, Before
    <3>5. CASE a # b
      <4>1. (Before(a)' => Before(a)) /\ pc'[a] \notin {"executing", "releasing"}
        BY <2>1, <2>3 DEF Before
      <4>2. QED
        BY <1>2, <3>1, <3>2, <3>4, <3>5, <4>1, LineWindows
    <3>6. CASE a = b
      <4>1. ~Before(b)' /\ pc'[b] \notin {"executing", "releasing"}
        BY <2>1, <2>3, <2>6, <3>1, <3>6 DEF Before, Windows, Wrote
      <4>2. \A i \in DOMAIN journal' : journal'[i].event # "abandoned" =>
                i \in DOMAIN journal /\ journal'[i] = journal[i]
        BY <2>4
      <4>3. \A i, k \in DOMAIN journal' :
                Wrote(i, "acquire", b)' /\ Wrote(k, "release", b)' => k = i + 1
        BY <3>1, <3>6, <4>2 DEF Windows, Wrote
      <4>4. ASSUME NEW k \in DOMAIN journal', Wrote(k, "abandoned", b)'
            PROVE  \E i \in DOMAIN journal' : i < k /\ Wrote(i, "acquire", b)'
        <5>1. CASE k \in DOMAIN journal
          <6>1. Wrote(k, "abandoned", b)
            BY <2>5, <4>4, <5>1 DEF Wrote
          <6>2. PICK i \in DOMAIN journal : i < k /\ Wrote(i, "acquire", b)
            BY <3>1, <3>6, <5>1, <6>1 DEF Windows
          <6>3. QED
            BY <2>5, <6>2 DEF Wrote
        <5>2. CASE k \notin DOMAIN journal
          <6>1. o < k
            BY <2>4, <5>2
          <6>2. QED
            BY <2>5, <2>6, <6>1 DEF Wrote
        <5>3. QED
          BY <5>1, <5>2
      <4>5. QED
        BY <3>2, <3>4, <3>6, <4>1, <4>3, <4>4 DEF Windows
    <3>7. QED
      BY <3>5, <3>6
  <2>8. QED
    BY <2>7 DEF LeaseInv
<1>3. QED
  BY <1>1, <1>2 DEF SealWindow

(* Device, windows and outcomes are inductive under the books.              *)
LEMMA LeaseInductive ==
    ASSUME TypeOK, AtHand, Scheduled, LeaseInv, [Next]_vars
    PROVE  LeaseInv'
<1>1. CASE UNCHANGED vars
  BY <1>1, QuietLease DEF vars, workers
<1>2. ASSUME NEW b \in Branches, Worker(b)
      PROVE  LeaseInv'
  <2>1. Leased' = Leased
    BY <1>2, WorkerMoves DEF Leased
  <2>2. QED
    BY <1>2, <2>1, WorkerHolders, WorkerWindows, WorkerOutcomes DEF LeaseInv
<1>3. CASE Dispatch
  <2>1. \A a \in Branches : pc'[a] = pc[a] \/ (pc[a] = "absent" /\ pc'[a] = "spawned")
    BY <1>3, DispatchMoves DEF Scheduled
  <2>2. QED
    BY <1>3, <2>1, QuietLease DEF Dispatch
<1>4. CASE Arm \/ Interrupt \/ LoopEnds \/ WindowsSealed \/ Report \/ ReportRaises \/ Verify
  BY <1>4, QuietLease
     DEF Arm, Interrupt, LoopEnds, WindowsSealed, Report, ReportRaises, Verify, workers
<1>5. CASE Manifest
  <2>1. \A a \in Branches : result'[a].status = result[a].status
    BY <1>5 DEF Manifest, TypeOK, AtHand
  <2>2. QED
    BY <1>5, <2>1, QuietLease DEF Manifest, workers
<1>6. CASE StartFails
  <2>1. PICK at \in Branches : at = parent.at
    BY <1>6 DEF StartFails, AtHand
  <2>2. \A a \in Branches : result'[a].status = "passed" => result[a].status = "passed"
    BY <1>6, <2>1 DEF StartFails, TypeOK
  <2>3. Terminated(at) \in SUBSET Branches /\ Kill(Terminated(at))
    BY <1>6, <2>1 DEF StartFails, Terminated
  <2>4. UNCHANGED plan
    BY <1>6 DEF StartFails
  <2>5. QED
    BY <2>2, <2>3, <2>4, KillFrees, QuietLease
<1>7. ASSUME NEW b \in Branches, Collects(b)
      PROVE  LeaseInv'
  <2>1. \A a \in Branches : result'[a].status = "passed" =>
            result[a].status = "passed" \/ receipt[a].good
    BY <1>7, CollectMoves DEF ReceiptPasses
  <2>2. /\ \A a \in Branches : pc'[a] = pc[a] \/ pc'[a] = "killed"
        /\ \A a \in Branches : pc'[a] # "killed" /\ lock = a => lock' = a
        /\ UNCHANGED <<journal, good, receipt>>
    <3>1. CASE Kill(Terminated(b))
      <4>1. Terminated(b) \in SUBSET Branches
        BY DEF Terminated
      <4>2. QED
        BY <3>1, <4>1, KillFrees
    <3>2. CASE UNCHANGED workers
      BY <3>2 DEF workers
    <3>3. QED
      BY <1>7, <3>1, <3>2 DEF Collects
  <2>3. UNCHANGED plan
    BY <1>7 DEF Collects
  <2>4. QED
    BY <2>1, <2>2, <2>3, QuietLease
<1>8. CASE ParentDies
  <2>1. CASE UNCHANGED workers
    BY <1>8, <2>1, QuietLease DEF ParentDies, workers
  <2>2. CASE Kill({a \in running : Live(a)})
    <3>1. {a \in running : Live(a)} \in SUBSET Branches
      BY DEF TypeOK
    <3>2. UNCHANGED <<plan, result>>
      BY <1>8 DEF ParentDies
    <3>3. QED
      BY <2>2, <3>1, <3>2, KillFrees, QuietLease
  <2>3. QED
    BY <1>8, <2>1, <2>2 DEF ParentDies
<1>9. ASSUME NEW b \in Branches, Expire(b) \/ ForeignWrite(b)
      PROVE  LeaseInv'
  BY <1>9, QuietLease DEF Expire, ForeignWrite, workers
<1>10. QED
  BY <1>1, <1>2, <1>3, <1>4, <1>5, <1>6, <1>7, <1>8, <1>9, SealKeepsLease, CollectSteps, NAssumption
     DEF Next, Parent, Branches

(* The report has the verdict of a journal that nobody writes any more.     *)
Told ==
    /\ Leased /\ parent.phase \in {"reporting", "done"} => Closed
    /\ report.written => parent.phase = "done" /\ report.lease = LeaseStatus

(* A window that is open when the loop has ended is of a branch with a      *)
(* result that did not pass: the parent is not done sealing.                *)
LEMMA SealedClosed ==
    ASSUME TypeOK, Scheduled, LeaseInv, Leased, parent.phase = "sealing", Abandoned = {}
    PROVE  Closed
<1>1. SUFFICES ASSUME NEW i \in DOMAIN journal, journal[i].event = "acquire",
                      OpenWindow(journal[i].branch)
               PROVE  FALSE
  BY DEF Closed
<1>2. PICK b \in Branches : b = journal[i].branch
  <2>1. journal \in Seq(Lines)
    BY DEF TypeOK, Lines
  <2>2. journal[i] \in Lines
    BY <2>1
  <2>3. QED
    BY <2>2 DEF Lines
<1>3. pc[b] # "absent"
  BY <1>2 DEF LeaseInv, Windows, Before
<1>4. result[b].status # "none"
  BY <1>3 DEF Scheduled, Accounted, Over, Starting
<1>5. ~Released(b)
  <2>1. \A k \in DOMAIN journal : journal[k] # Line("release", b)
    BY <1>1, <1>2 DEF OpenWindow
  <2>2. \A k \in DOMAIN journal : journal[k] \in Lines
    <3>1. journal \in Seq(Lines)
      BY DEF TypeOK, Lines
    <3>2. QED
      BY <3>1
  <2>3. \A k \in DOMAIN journal : Wrote(k, "release", b) => journal[k] = Line("release", b)
    BY <2>2 DEF Wrote, Line, Lines
  <2>4. QED
    BY <2>1, <2>3 DEF Released
<1>6. result[b].status # "passed"
  BY <1>5 DEF LeaseInv, Outcome
<1>7. b \in Abandoned
  BY <1>1, <1>2, <1>4, <1>6 DEF Abandoned, Results
<1>8. QED
  BY <1>7

(* The verdict is of the plan and of the journal alone.                     *)
LEMMA SameVerdict ==
    ASSUME UNCHANGED <<plan, journal>>
    PROVE  /\ Leased' = Leased /\ (Closed' <=> Closed)
           /\ LeaseStatus' = LeaseStatus
<1>1. /\ Leased' = Leased
      /\ \A b : OpenWindow(b)' <=> OpenWindow(b)
      /\ Paired' <=> Paired
      /\ Timed' = Timed
  BY DEF Leased, OpenWindow, Paired, Timed, Places
<1>2. (Closed' <=> Closed) /\ (Overlap' <=> Overlap)
  BY <1>1 DEF Closed, Overlap
<1>3. QED
  BY <1>1, <1>2 DEF LeaseStatus

(* No line is written once the windows are sealed, so the verdict stays true.*)
LEMMA ToldInductive ==
    ASSUME TypeOK, AtHand, Scheduled, LeaseInv, ReportKept, Told, [Next]_vars
    PROVE  Told'
<1>0. report \in Reports
  BY DEF TypeOK, Reports
<1>1. ASSUME parent.phase # "done", parent'.phase \notin {"reporting", "done"}, UNCHANGED report
      PROVE  Told'
  BY <1>1 DEF Told, ReportKept
<1>2. ASSUME UNCHANGED <<plan, journal, parent, report>>
      PROVE  Told'
  BY <1>2, SameVerdict DEF Told
<1>3. CASE Dispatch \/ Arm \/ StartFails \/ Manifest \/ Interrupt \/ LoopEnds \/ ReportRaises
           \/ ParentDies
  <2>1. UNCHANGED report /\ parent.phase # "done"
    BY <1>3 DEF Dispatch, Arm, StartFails, Manifest, Interrupt, LoopEnds, ReportRaises, ParentDies
  <2>2. parent'.phase \notin {"reporting", "done"}
    <3>1. CASE Dispatch
      BY <3>1, DispatchMoves DEF Scheduled
    <3>2. CASE Arm \/ Interrupt
      BY <3>2 DEF Arm, Interrupt, TypeOK
    <3>3. CASE StartFails \/ Manifest \/ LoopEnds \/ ReportRaises \/ ParentDies
      BY <3>3, PhaseSteps DEF StartFails, Manifest, LoopEnds, ReportRaises, ParentDies, Phases
    <3>4. QED
      BY <1>3, <3>1, <3>2, <3>3
  <2>3. QED
    BY <1>1, <2>1, <2>2
<1>4. ASSUME NEW b \in Branches, Collects(b) \/ SealWindow(b)
      PROVE  Told'
  <2>1. UNCHANGED report /\ parent.phase # "done"
    BY <1>4 DEF Collects, SealWindow
  <2>2. parent'.phase \notin {"reporting", "done"}
    BY <1>4, CollectMoves, PhaseSteps DEF SealWindow, Phases
  <2>3. QED
    BY <1>1, <2>1, <2>2
<1>5. CASE WindowsSealed
  <2>1. UNCHANGED <<plan, journal, report>> /\ parent.phase = "sealing"
        /\ (Leased => Abandoned = {})
    BY <1>5 DEF WindowsSealed, workers
  <2>2. Leased => Closed
    BY <2>1, SealedClosed
  <2>3. ~report.written
    BY <2>1 DEF ReportKept
  <2>4. QED
    BY <2>1, <2>2, <2>3, SameVerdict DEF Told
<1>6. CASE Report
  <2>1. UNCHANGED <<plan, journal>> /\ parent.phase = "reporting" /\ parent'.phase = "done"
    BY <1>6, PhaseSteps DEF Report, Phases, workers
  <2>2. report'.lease = LeaseStatus
    BY <1>6 DEF Report
  <2>3. QED
    BY <2>1, <2>2, SameVerdict DEF Told
<1>7. CASE Verify
  <2>1. PICK verdict \in {"passed", "failed"} : report' = [report EXCEPT !.verified = verdict]
    BY <1>7 DEF Verify
  <2>2. report'.written = report.written /\ report'.lease = report.lease
    BY <1>0, <2>1 DEF Reports
  <2>3. UNCHANGED <<plan, journal, parent>>
    BY <1>7 DEF Verify, workers
  <2>4. QED
    BY <2>2, <2>3, SameVerdict DEF Told
<1>8. ASSUME NEW b \in Branches, Worker(b)
      PROVE  Told'
  <2>1. Live(b) /\ UNCHANGED <<parent, report>>
    BY <1>8, WorkerMoves
  <2>2. parent.phase \notin {"reporting", "done"}
    BY <2>1 DEF Scheduled, Accounted, Over, Starting
  <2>3. QED
    BY <1>1, <2>1, <2>2
<1>9. ASSUME NEW b \in Branches, Expire(b) \/ ForeignWrite(b)
      PROVE  Told'
  BY <1>2, <1>9 DEF Expire, ForeignWrite, workers
<1>10. CASE UNCHANGED vars
  BY <1>2, <1>10 DEF vars, workers
<1>11. QED
  BY <1>3, <1>4, <1>5, <1>6, <1>7, <1>8, <1>9, <1>10, CollectSteps, NAssumption
     DEF Next, Parent, Branches

(* The journal's windows close at once, so what can fail the verdict is a   *)
(* release line without its acquire line.                                   *)
LEMMA VerdictExact ==
    ASSUME TypeOK, LeaseInv, Told, report.written, Leased
    PROVE  (report.lease = "failed") <=> \E b \in Branches : LostLine(b)
<1>1. report.lease = LeaseStatus /\ Closed
  BY DEF Told
<1>2. \A i \in DOMAIN journal : /\ journal[i] \in Lines /\ i \in Nat
          /\ journal[i].branch \in Branches
          /\ journal[i].event \in {"acquire", "release", "abandoned"}
  <2>1. journal \in Seq(Lines)
    BY DEF TypeOK, Lines
  <2>2. \A i \in DOMAIN journal : journal[i] \in Lines /\ i \in Nat
    BY <2>1
  <2>3. QED
    BY <2>2 DEF Lines
<1>3. \A i \in DOMAIN journal, b \in Branches, e \in {"acquire", "release", "abandoned"} :
          i \in Places(e, b) <=> Wrote(i, e, b)
  <2>1. ASSUME NEW i \in DOMAIN journal, NEW b \in Branches,
               NEW e \in {"acquire", "release", "abandoned"}
        PROVE  journal[i] = Line(e, b) <=> Wrote(i, e, b)
    BY <1>2, <2>1 DEF Line, Wrote, Lines
  <2>2. QED
    BY <2>1 DEF Places
<1>4. ~Overlap
  <2>1. \A w \in Timed : w[2] = w[1] + 1 /\ w[1] \in Nat
    BY <1>2, <1>3 DEF Timed, LeaseInv, Windows
  <2>2. QED
    BY <2>1 DEF Overlap
<1>5. ASSUME NEW b \in Branches, LostLine(b)
      PROVE  ~Paired
  <2>1. PICK i \in DOMAIN journal : Wrote(i, "release", b)
    BY <1>3, <1>5 DEF LostLine, Places
  <2>2. QED
    BY <1>5, <2>1 DEF Paired, Wrote, LostLine
<1>6. ASSUME ~Paired
      PROVE  \E b \in Branches : LostLine(b)
  <2>1. PICK k \in DOMAIN journal : /\ journal[k].event # "acquire"
                                   /\ \A j \in Places("acquire", journal[k].branch) : ~(j < k)
    BY <1>6 DEF Paired
  <2>2. PICK b \in Branches : b = journal[k].branch
    BY <1>2
  <2>3. \A j \in DOMAIN journal : Wrote(j, "acquire", b) => ~(j < k)
    BY <1>3, <2>1, <2>2
  <2>4. journal[k].event # "abandoned"
    BY <2>2, <2>3 DEF LeaseInv, Windows, Wrote
  <2>5. Wrote(k, "release", b)
    BY <1>2, <2>1, <2>2, <2>4 DEF Wrote
  <2>6. \A j \in DOMAIN journal : ~Wrote(j, "acquire", b)
    BY <1>2, <2>3, <2>5 DEF LeaseInv, Windows
  <2>7. Places("acquire", b) = {}
    BY <1>3, <2>6 DEF Places
  <2>8. k \in Places("release", b)
    BY <1>3, <2>5
  <2>9. QED
    BY <2>7, <2>8 DEF LostLine
<1>7. QED
  BY <1>1, <1>4, <1>5, <1>6 DEF LeaseStatus

(* The lease verdict is neither silent nor a false alarm, for any number of *)
(* branches and whoever dies while holding the device: the journal verifies *)
(* unless a worker that took the device lost its acquire line.              *)
THEOREM LeaseVerdict == Spec => []LeaseVerdictExact
<1> DEFINE Inv == /\ TypeOK /\ AtHand /\ Scheduled /\ ResultsKept /\ ReportKept
                  /\ LeaseInv /\ Told
<1>1. Init => Inv
  <2>1. Init => ResultsKept /\ ReportKept /\ Told
    BY DEF Init, ResultsKept, ReportKept, Told, NoResult, NoReport
  <2>2. ASSUME Init, NEW b \in Branches
        PROVE  Holder(b) /\ Windows(b) /\ Outcome(b)
    BY <2>2 DEF Init, Holder, Windows, Outcome, Before, Wrote, NoResult, NoReceipt
  <2>3. QED
    BY <2>1, <2>2, InitTypes, InitScheduled DEF LeaseInv
<1>2. Inv /\ [Next]_vars => Inv'
  BY TypesInductive, ScheduledInductive, EvidenceInductive, LeaseInductive, ToldInductive
<1>3. Inv => LeaseVerdictExact
  BY VerdictExact DEF LeaseVerdictExact
<1>4. QED
  BY <1>1, <1>2, <1>3, PTL DEF Spec
=============================================================================
