------------------------- MODULE LifecycleCapture -------------------------
(***************************************************************************)
(* The native producer of lifecycle evidence: the ZombieInitialize hook,   *)
(* the exact-store probes, the measurement session and the recorder        *)
(* (src/determinism), with the game whose zombies they watch and the       *)
(* controlled calls and observations that drain them.                      *)
(*                                                                         *)
(* A zombie's identity is <<slot, generation>>.  One game thread runs      *)
(* everything, so a probe and the store it watches are one step, and so    *)
(* are the guard and the commit of a recycled slot.  A version is the      *)
(* number of finished calls plus one; 0 is the null version of an update   *)
(* outside any controlled call.                                            *)
(***************************************************************************)
EXTENDS LifecycleEvents, SequencesExt

CONSTANTS Slots,          \* slots of the zombie pool
          Stages,         \* raw phases the game's death stores write
          Phases,         \* raw phases of a living zombie
          Capacity,       \* places in each capture queue
          NestLimit,      \* initializers the hook can follow into each other
          MaxHappenings,  \* bound: births, turns, stores, removals and recyclings
          MaxCalls        \* bound: controlled calls

ASSUME CaptureAssumption ==
    /\ Stages \subseteq 1..3
    /\ Phases \subseteq Nat /\ Phases \cap 1..3 = {}
    /\ Capacity \in Nat /\ NestLimit \in Nat
    /\ MaxHappenings \in Nat /\ MaxCalls \in Nat

Death == {1, 2, 3}        \* raw phases of a dying zombie
Null == 0                 \* a null version
Session == 1              \* the measurement session's identity

VARIABLES
    probes,      \* the exact-store probes are installed
    pool,        \* the game's zombies, by slot
    stack,       \* active ZombieInitialize invocations, outermost first
    spawnQueue,  \* captured initializations not yet drained
    probeQueue,  \* captured stores not yet drained
    nextSequence, nextInvocation,
    version,     \* the runtime's version
    boundary,    \* version of the controlled call, or Null
    faults,      \* capture faults seen: subset of {"spawn", "probe"}
    phase,       \* "calm", "call", "stopped" or "closed"
    written,     \* records of lifecycle-events.jsonl
    notes,       \* lifecycle kinds in the audit's events.jsonl
    block,       \* the manifest's lifecycle_probes block
    receipt,     \* the close receipt, or {}
    frames,      \* audited boundaries: version and zombies
    initial,     \* the captured initial boundary, or {}
    ending,      \* version of the executed endpoint, or Null
    happened,    \* happenings so far (bounded)
    due,         \* history: records the hooks should have produced
    truth        \* history: first deaths and other removals, in order, each with
                 \* the frames before it and the sequence a probe gives its fact

game == <<pool, truth, happened, due>>
capture == <<stack, spawnQueue, probeQueue, nextSequence, nextInvocation, faults>>
files == <<written, notes, block, receipt>>
run == <<frames, initial, ending>>
clock == <<version, boundary, phase>>
vars == <<probes, game, capture, files, run, clock>>

Free == [gen |-> 1, used |-> FALSE, stage |-> 0, gone |-> FALSE, play |-> TRUE]
Id(s) == <<s, pool[s].gen>>
Resident(stage) == [Free EXCEPT !.used = TRUE, !.stage = stage]   \* seen by no hook
Residents == {Resident(stage) : stage \in Phases \cup {1}}
Born(zombie, play) == [zombie EXCEPT !.used = TRUE, !.play = play]

\* The session after the hooks are installed: the level may already hold
\* zombies nobody saw initialized.
Init ==
    /\ probes \in BOOLEAN
    /\ pool \in [Slots -> Residents \cup {Free}]
    /\ stack = <<>> /\ spawnQueue = <<>> /\ probeQueue = <<>>
    /\ nextSequence = 1 /\ nextInvocation = 1
    /\ version = 1 /\ boundary = Null /\ phase = "calm"
    /\ faults = {}
    /\ written = <<>> /\ notes = {} /\ receipt = {}
    /\ block = [enabled |-> probes, final |-> FALSE, healthy |-> FALSE]
    /\ frames = <<>> /\ initial = {} /\ ending = Null
    /\ happened = 0 /\ due = 0 /\ truth = <<>>

Alive == phase \in {"calm", "call"}
\* The bound: one happening fewer after each call.
Room == Alive /\ happened + version <= MaxHappenings

----------------------------------------------------------------------------
(* Captures *)

\* A captured fact before its own kind's fields are filled in.
Fact(kind, z, play, seq, ver) ==
    [kind |-> kind, z |-> z, play |-> play, seq |-> seq, ver |-> ver,
     when |-> IF ver # Null THEN "controlled_boundary"
              ELSE IF kind = "init" THEN "initialization" ELSE "uncontrolled_update",
     before |-> 0, after |-> 0, chain |-> FALSE, ref |-> 0,
     inv |-> 0, depth |-> 0, parent |-> 0]

InitEvent(top, seq) ==
    [Fact("init", top.z, top.play, seq, top.ver)
        EXCEPT !.inv = top.inv, !.depth = top.depth, !.parent = top.parent]
PhaseEvent(z, play, seq, ver, from, to) ==
    [Fact("phase", z, play, seq, ver) EXCEPT !.before = from, !.after = to]
RemovalEvent(z, play, seq, ver, chain) ==
    [Fact("removal", z, play, seq, ver) EXCEPT !.after = 1, !.chain = chain]
CommitEvent(z, play, seq, ver) ==
    [Fact("commit", z, play, seq, ver) EXCEPT !.ref = seq - 1]

\* One or two probe records are queued, unless the game's memory could not be
\* read or the queue is full: then the loss is counted.
ProbePush(recs, readable) ==
    LET places == Capacity - Len(probeQueue)
        kept == SubSeq(recs, 1, IF places < Len(recs) THEN places ELSE Len(recs))
    IN  IF ~probes THEN UNCHANGED <<probeQueue, nextSequence, faults>>
        ELSE IF ~readable
        THEN faults' = faults \cup {"probe"} /\ UNCHANGED <<probeQueue, nextSequence>>
        ELSE /\ probeQueue' = probeQueue \o kept
             /\ nextSequence' = nextSequence + Len(recs)
             /\ faults' = faults \cup (IF Len(recs) > places THEN {"probe"} ELSE {})

Happen(records) == happened' = happened + 1 /\ due' = due + records

\* The game starts to initialize a zombie in a free slot, on the board or in
\* the preview; the hook's entry takes the invocation's identity and boundary,
\* unless it is already NestLimit initializers deep: that is counted as a loss.
Enter(s, play) ==
    /\ Room
    /\ ~pool[s].used
    /\ pool' = [pool EXCEPT ![s] = Born(@, play)]
    /\ LET followed == Len(stack) < NestLimit
       IN  /\ stack' = Append(stack, [inv |-> IF followed THEN nextInvocation ELSE 0, depth |-> Len(stack),
                                      parent |-> IF stack = <<>> THEN 0 ELSE Last(stack).inv,
                                      ver |-> boundary, z |-> Id(s), play |-> play])
           /\ nextInvocation' = IF followed THEN nextInvocation + 1 ELSE nextInvocation
           /\ faults' = IF followed THEN faults ELSE faults \cup {"spawn"}
    /\ Happen(1)
    /\ UNCHANGED <<probes, truth, spawnQueue, probeQueue, nextSequence, files, run, clock>>

\* The innermost initializer returns: the record takes its sequence here.
Leave(readable) ==
    /\ Alive
    /\ stack # <<>>
    /\ stack' = Front(stack)
    /\ IF Len(stack) > NestLimit THEN UNCHANGED <<spawnQueue, nextSequence, faults>>
       ELSE IF readable /\ Len(spawnQueue) < Capacity
       THEN /\ spawnQueue' = Append(spawnQueue, InitEvent(Last(stack), nextSequence))
            /\ nextSequence' = nextSequence + 1
            /\ UNCHANGED faults
       ELSE faults' = faults \cup {"spawn"} /\ UNCHANGED <<spawnQueue, nextSequence>>
    /\ UNCHANGED <<probes, game, probeQueue, nextInvocation, files, run, clock>>

\* A living zombie goes on to another phase: no probe watches these stores.
Turn(s, stage) ==
    /\ Room
    /\ pool[s].used /\ ~pool[s].gone
    /\ pool[s].stage \notin Death \cup {stage}
    /\ pool' = [pool EXCEPT ![s].stage = stage]
    /\ Happen(0)
    /\ UNCHANGED <<probes, truth, capture, files, run, clock>>

\* A death-stage store hits a zombie that is not removed.
Store(s, stage, readable) ==
    /\ Room
    /\ pool[s].used /\ ~pool[s].gone
    /\ pool' = [pool EXCEPT ![s].stage = stage]
    /\ truth' = IF pool[s].stage \in Death THEN truth
                ELSE Append(truth, [z |-> Id(s), kill |-> TRUE, play |-> pool[s].play,
                                   at |-> Len(frames), seq |-> nextSequence])
    /\ ProbePush(<<PhaseEvent(Id(s), pool[s].play, nextSequence, boundary, pool[s].stage, stage)>>, readable)
    /\ Happen(IF probes THEN 1 ELSE 0)
    /\ UNCHANGED <<probes, stack, spawnQueue, nextInvocation, files, run, clock>>

\* The mDead store: a zombie is removed, through ApplyBurn's chain (a kill) or
\* for any other reason.
Mark(s, chain, readable) ==
    /\ Room
    /\ pool[s].used /\ ~pool[s].gone
    /\ pool' = [pool EXCEPT ![s].gone = TRUE]
    /\ truth' = IF pool[s].stage \in Death THEN truth
                ELSE Append(truth, [z |-> Id(s), kill |-> chain, play |-> pool[s].play,
                                   at |-> Len(frames), seq |-> nextSequence])
    /\ ProbePush(<<RemovalEvent(Id(s), pool[s].play, nextSequence, boundary, chain)>>, readable)
    /\ Happen(IF probes THEN 1 ELSE 0)
    /\ UNCHANGED <<probes, stack, spawnQueue, nextInvocation, files, run, clock>>

\* The delete loop frees a removed zombie's slot: a candidate at the guard and
\* the commit that refers to it.
Recycle(s, readable) ==
    /\ Room
    /\ pool[s].used /\ pool[s].gone
    /\ pool' = [pool EXCEPT ![s] = [Free EXCEPT !.gen = pool[s].gen + 1]]
    /\ ProbePush(<<Fact("candidate", Id(s), pool[s].play, nextSequence, boundary),
                   CommitEvent(Id(s), pool[s].play, nextSequence + 1, boundary)>>, readable)
    /\ Happen(IF probes THEN 2 ELSE 0)
    /\ UNCHANGED <<probes, truth, stack, spawnQueue, nextInvocation, files, run, clock>>

----------------------------------------------------------------------------
(* Draining and recording *)

\* Mutant: the batches are written one after the other.
Unmerged == spawnQueue \o probeQueue

\* Both queues in the order the facts were captured.
Merged == InOrder(spawnQueue \o probeQueue)

\* The recorder refuses a sequence that does not rise.
Rising(recs) ==
    LET all == Events(written) \o recs IN \A i \in 1..(Len(all) - 1) : all[i].seq < all[i + 1].seq

Enveloped(recs) ==
    [i \in 1..Len(recs) |-> Envelope(Len(written) + i - 1, Session, recs[i])]

FaultNotes ==
    IF "spawn" \in faults THEN {"spawn_hook_fault"}
    ELSE IF "probe" \in faults THEN {"lifecycle_probe_fault"} ELSE {}

\* DrainAndCheckSpawns: what is queued is written, then an unhealthy capture
\* is told in the audit and stops the run.
Drain(recs) ==
    /\ spawnQueue' = <<>> /\ probeQueue' = <<>>
    /\ written' = IF Rising(recs) THEN written \o Enveloped(recs) ELSE written
    /\ notes' = notes \cup FaultNotes
Drained(recs) == Rising(recs) /\ faults = {}

\* One audited observation: drain, then the boundary's frame and the version
\* the stores that follow it belong to.
Observe(newVersion, newBoundary, newPhase) ==
    /\ stack = <<>>
    /\ LET recs == Merged
       IN  /\ Drain(recs)
           /\ IF Drained(recs)
              THEN /\ version' = newVersion /\ boundary' = newBoundary /\ phase' = newPhase
                   /\ frames' = Append(frames, [ver |-> newVersion, pool |-> pool])
              ELSE phase' = "stopped" /\ UNCHANGED <<version, boundary, frames>>
    /\ UNCHANGED <<probes, game, stack, nextSequence, nextInvocation, faults, block, receipt, initial, ending>>

\* The experiment saves the state its window starts at: the snapshot is read
\* between two controlled calls and leaves no frame.
CaptureInitial ==
    /\ phase = "calm"
    /\ initial = {}
    /\ stack = <<>>
    /\ initial' = {[ver |-> version, pool |-> pool]}
    /\ UNCHANGED <<probes, game, capture, files, frames, ending, clock>>

BeginCall ==
    /\ phase = "calm"
    /\ version <= MaxCalls
    /\ Observe(version, version, "call")

EndCall ==
    /\ phase = "call"
    /\ Observe(version + 1, Null, "calm")

\* The experiment writes its executed endpoint.
WriteEnding ==
    /\ phase = "calm"
    /\ initial # {}
    /\ ending = Null
    /\ ending' = version
    /\ UNCHANGED <<probes, game, capture, files, frames, initial, clock>>

\* Shutdown: drain once more; the hooks are removed and their last health is
\* told in the audit and in the manifest; only a session without a fault
\* gets its receipt, after the records are flushed and closed.
Close ==
    /\ phase \in {"calm", "stopped"}
    /\ stack = <<>>
    /\ phase' = "closed"
    /\ LET recs == Merged
           healthy == "probe" \notin faults
       IN  /\ spawnQueue' = <<>> /\ probeQueue' = <<>>
           /\ written' = IF Rising(recs) THEN written \o Enveloped(recs) ELSE written
           /\ notes' = notes \cup FaultNotes
                         \cup (IF "spawn" \in faults THEN {"spawn_closed_unhealthy"} ELSE {})
                         \cup (IF ~probes THEN {} ELSE IF healthy THEN {"probes_closed"}
                               ELSE {"probes_closed_unhealthy"})
           /\ block' = IF probes THEN [enabled |-> TRUE, final |-> TRUE, healthy |-> healthy] ELSE block
           /\ receipt' = IF Drained(recs) /\ phase = "calm"
                         THEN {[session |-> Session, records |-> written', block |-> block', healthy |-> healthy]}
                         ELSE {}
    /\ UNCHANGED <<probes, game, stack, nextSequence, nextInvocation, faults, run, version, boundary>>

CaptureStep ==
    \/ \E s \in Slots, play \in BOOLEAN : Enter(s, play)
    \/ \E readable \in BOOLEAN : Leave(readable)
    \/ \E s \in Slots, stage \in Phases : Turn(s, stage)
    \/ \E s \in Slots, stage \in Stages, readable \in BOOLEAN : Store(s, stage, readable)
    \/ \E s \in Slots, chain \in BOOLEAN, readable \in BOOLEAN : Mark(s, chain, readable)
    \/ \E s \in Slots, readable \in BOOLEAN : Recycle(s, readable)
    \/ CaptureInitial \/ BeginCall \/ EndCall \/ WriteEnding \/ Close
=============================================================================
