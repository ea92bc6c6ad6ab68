-------------------------- MODULE LiveSessionProofs --------------------------
(***************************************************************************)
(* The theorems about one live session of an evaluation (LiveSession, with *)
(* the source run of SourcePlay and the compression of EvidenceCodec), for *)
(* any plan, any pause points and any number of faults.                    *)
(***************************************************************************)
EXTENDS LiveSession, FiniteSetTheorems, SequenceTheorems, WellFoundedInduction, TLAPS

----------------------------------------------------------------------------
(* The compression: until the receipt every plain file is in place, and    *)
(* from the receipt on every container.                                    *)

CodecSteps == {"idle", "packing", "receipt", "reclaiming", "done", "raised"}
CodecStates == [step : CodecSteps, copies : [Names -> SUBSET Forms], receipt : BOOLEAN]

CodecInv ==
    /\ codec \in CodecStates
    /\ ~codec.receipt => \A n \in Names : "plain" \in codec.copies[n]
    /\ codec.receipt \/ codec.step = "receipt" => \A n \in Names : "gz" \in codec.copies[n]
    /\ codec.step \in {"idle", "packing", "receipt"} => ~codec.receipt
    /\ codec.step = "reclaiming" => codec.receipt

----------------------------------------------------------------------------
(* The source run. *)

Versions == [tick : Nat, rev : Nat]
Stops == {"none", "wall_budget_exhausted", "disk_reserve_stop"}
Phases == {"first", "top", "decide", "intervene", "commit", "done", "raised"}
Commits == [at : Versions, stop : {"none"}, intervenes : BOOLEAN]
PlayStates == [phase : Phases, decision : 0..RequestTicks, outcome : Ends, stalled : 0..StallLimit]

PlayTypes ==
    /\ plan \in PlayPlans
    /\ obs \in Observations
    /\ play \in PlayStates
    /\ fired.done \in BOOLEAN
    /\ budget.stop \in Stops
    /\ sent \in Seq(Commits)

Intervened == \E i \in DOMAIN sent : sent[i].intervenes

(* Past the top of the loop no stop was seen and the stall limit is not    *)
(* reached; the intervention is at its version and was not carried out; a  *)
(* run that still goes on has carried it out when and only when the record *)
(* says so.                                                                *)
PlayInv ==
    /\ PlayTypes
    /\ play.phase \in {"decide", "intervene", "commit"} =>
           budget.stop = "none" /\ play.stalled < StallLimit
    /\ play.phase = "intervene" => Intervening /\ plan.intervention.acts
    /\ \A i \in DOMAIN sent : sent[i].intervenes =>
           /\ sent[i].at = plan.intervention.at
           /\ play.phase = "raised" \/ fired.done
           /\ \A j \in DOMAIN sent : sent[j].intervenes => i = j
    /\ fired.done /\ plan.intervention.acts => Intervened
    /\ play.outcome = "stop_condition_reached" => fired.done

(* The pause points are the plan's, in its order: the probed ones, those   *)
(* set aside, those still to come.  Inside the loop none that the game has *)
(* reached is left, and none is set aside but by a run that is about to    *)
(* end.                                                                    *)
PauseStates == [points : Seq(Nat), completed : Seq(Nat), unexecuted : Seq(Nat)]
Accounted(p) == p \in PauseStates /\ p.completed \o p.unexecuted \o p.points = Points
Ahead(p, o) == \A i \in DOMAIN p.points : p.points[i] > o.tick

PausesInv ==
    /\ Accounted(pauses)
    /\ play.phase \notin {"first", "raised"} => Ahead(pauses, obs)
    /\ play.phase \in {"first", "decide", "intervene", "commit"} => pauses.unexecuted = <<>>
    /\ play.phase = "top" /\ pauses.unexecuted # <<>> => budget.stop # "none" \/ obs.ui # "play"

----------------------------------------------------------------------------
(* The session. *)

Setup == {"disk", "create", "trace", "hosts", "observe", "prepare"}
Starting == {"launch", "inject", "verify", "failed", "bind"}
Leaving == {"leave", "windows"}
Living == {"runtime", "connect", "body"}
Finals == {"final", "close", "client", "observer", "tracing", "stop", "identity", "receipt"}
Retention == {"retain", "compress", "seal", "judge", "done"}
Places == Setup \cup Starting \cup Leaving \cup Living \cup Finals \cup Retention
Mishaps == {"disk", "create", "trace", "hosts", "observer", "prepare", "launch", "stop", "windows",
            "launch_window", "connect", "body", "game", "primary_write", "close", "client_close",
            "runtime_window", "trace_close", "host_identity", "host_changed", "cleanup_write",
            "compression", "packaging", "seal", "helper", "receipt"}

Secondaries == {"read_cleanup", "strict_packaging", "seal_archive"}
Judged == {"recording", "runtime_windows", "private_launch", "host_identity", "resource_limits"}
Items == [sealed : BOOLEAN, trajectory : BOOLEAN, passed : BOOLEAN, secondary : SUBSET Secondaries,
          failures : SUBSET Judged]
Games == [proc : {"none", "running", "dead"}, rec : {"none", "open", "closed"}]
Launches == [pid : BOOLEAN, receipt : BOOLEAN, ready : BOOLEAN]
Verdicts == [launch : {"pass", "fail", "unverified"}, runtime : {"pass", "fail", "unverified"}]
Things == {"space", "run", "trace", "hosts", "state", "runtime", "client"}
GhostTypes == mishaps \subseteq Mishaps /\ faults \in 0..MaxFaults
RestTypes ==
    /\ role \in {"source", "cold"} /\ at \in Places
    /\ game \in Games
    /\ launch \in Launches
    /\ has \subseteq Things
    /\ locks \subseteq {"trace", "observer"} /\ cleanup \subseteq Closings
    /\ windows \in Verdicts
    /\ primary \in BOOLEAN /\ ended \in BOOLEAN
    /\ disk \subseteq {"hosts", "cleanup", "sealed"}
    /\ item \in Items
SessionTypes == RestTypes /\ GhostTypes

(* What the session has built at each place. *)
Unstarted == Setup \cup {"launch"}
Built ==
    /\ at \notin {"disk", "create", "retain", "done"} => "run" \in has
    /\ at \in Unstarted => game.proc = "none"
    /\ \/ at \in {"bind", "runtime", "connect", "body"} \/ "client" \in has
       \/ at \in {"leave", "windows"} /\ ~primary
       => launch.ready
    /\ at = "connect" \/ "client" \in has => "runtime" \in has
    /\ at = "body" \/ (at \in Finals /\ ~primary) => "client" \in has
    /\ at \in Setup \cup Starting \cup Leaving \cup {"runtime", "connect"} => "client" \notin has

(* Who is responsible for the process: the launch, until it becomes the    *)
(* session's, and it is gone or stopping it has failed, or nothing can     *)
(* name it.                                                                *)
Owned ==
    /\ game.proc = "running" =>
           \/ "stop" \in mishaps \/ Unnamed
           \/ at \in Starting
           \/ "state" \in has /\ at \in (Leaving \cup Living \cup Finals) \ {"identity", "receipt"}
    /\ "owned_process_stopped" \in cleanup =>
           game.proc = "dead" /\ at \in {"identity", "receipt"} \cup Retention
    /\ "sealed" \in disk => /\ at \in {"judge", "done"}
                            /\ game.proc = "dead" /\ game.rec = "closed" /\ locks = {}
    /\ item.sealed => "sealed" \in disk

(* Where each mishap shows. *)
Noted == primary \/ errors # {}
Silent == {"windows", "host_changed", "game", "packaging", "seal", "compression", "launch", "helper"}
Told ==
    /\ mishaps \subseteq Silent \/ Noted
    /\ mishaps \cap {"launch", "helper"} # {} => primary \/ at = "failed"
    /\ "windows" \in mishaps =>
           /\ at \notin Setup \cup Starting \cup {"leave"}
           /\ windows.launch # "pass" \/ windows.runtime # "pass" \/ Noted
           /\ at \in {"windows"} \cup Living \cup {"final", "close", "client", "observer"} =>
                  windows.launch # "pass"
    /\ "game" \in mishaps =>
           \/ Noted
           \/ at \in {"body", "final", "close"} /\ "client" \in has /\ game.proc = "dead"
    /\ "hosts" \in disk \/ "host_changed" \in mishaps => at \in {"receipt"} \cup Retention
    /\ "host_changed" \in mishaps => "hosts" \notin disk
    /\ "packaging" \in mishaps => at \in {"seal", "judge", "done"} /\ role = "source" /\ ~item.trajectory
    /\ item.trajectory => at \in {"seal", "judge", "done"} /\ Readable
    /\ "seal" \in mishaps => at \in {"judge", "done"} /\ item.secondary # {}
    /\ item.passed =>
           /\ at = "done" /\ ~primary /\ CleanupPassed /\ item.sealed /\ item.secondary = {}
           /\ windows.launch = "pass" /\ windows.runtime = "pass" /\ "hosts" \in disk
           /\ role = "source" => item.trajectory /\ budget.stop = "none"

SessionInv == SessionTypes /\ Built /\ Owned /\ Told
----------------------------------------------------------------------------
(* The compression. *)

(* It starts with every plain file in place.                               *)
LEMMA CodecStarts == CodecInit => CodecInv
BY DEF CodecInit, CodecInv, CodecStates, CodecSteps, Forms

(* No step of the compression, however it ends, takes the last copy of a   *)
(* file: containers go only without a receipt, plain files only with one.  *)
LEMMA CodecKeeps ==
    ASSUME CodecInv, Compress \/ CompressFails
    PROVE  CodecInv'
<1> USE DEF CodecInv, CodecStates, CodecSteps, CodecStep, Stored, Forms
<1>1. CASE CompressBegin
  BY <1>1 DEF CompressBegin
<1>2. CASE PackFile
  <2>1. PICK n \in Stored("plain") \ Stored("gz") : codec' = [codec EXCEPT !.copies[n] = @ \cup {"gz"}]
    BY <1>2 DEF PackFile
  <2> QED BY <1>2, <2>1 DEF PackFile
<1>3. CASE PackDone
  BY <1>3 DEF PackDone
<1>4. CASE WriteReceipt
  BY <1>4 DEF WriteReceipt
<1>5. CASE ReclaimFile
  <2>1. PICK n \in Stored("plain") : codec' = [codec EXCEPT !.copies[n] = @ \ {"plain"}]
    BY <1>5 DEF ReclaimFile
  <2> QED BY <1>5, <2>1 DEF ReclaimFile
<1>6. CASE ReclaimDone
  BY <1>6 DEF ReclaimDone
<1>7. CASE PackFails
  BY <1>7 DEF PackFails, RollBack
<1>8. CASE ReceiptFails
  BY <1>8 DEF ReceiptFails
<1>9. CASE ReclaimFails
  BY <1>9 DEF ReclaimFails
<1> QED BY <1>1, <1>2, <1>3, <1>4, <1>5, <1>6, <1>7, <1>8, <1>9 DEF Compress, CompressFails

(* So every file is there, and readable once there is a receipt.           *)
LEMMA CodecTold == CodecInv => AuditKept
BY DEF CodecInv, CodecStates, AuditKept, Readable, Stored
----------------------------------------------------------------------------
(* The source run: how the intervention and the stops are told. *)

(* A run starts with nothing sent and no stop seen.                        *)
LEMMA PlayStarts == PlayInit => PlayInv
<1> SUFFICES ASSUME PlayInit PROVE PlayInv
  OBVIOUS
<1>1. plan \in PlayPlans /\ obs \in Observations
  BY PlayAssumption DEF PlayInit, Observations
<1>2. play \in PlayStates /\ play.phase = "first" /\ play.outcome = "none"
  BY PlayAssumption DEF PlayInit, PlayStates, Phases, Ends
<1>3. budget.stop \in Stops
  BY DEF PlayInit, Checked, Stops
<1>4. sent = <<>> /\ sent \in Seq(Commits) /\ fired.done = FALSE
  BY DEF PlayInit
<1>5. DOMAIN sent = {}
  BY <1>4
<1>6. PlayTypes
  BY <1>1, <1>2, <1>3, <1>4 DEF PlayTypes
<1> QED BY <1>2, <1>4, <1>5, <1>6 DEF PlayInv

(* What a look at the resources can find.                                  *)
LEMMA CheckedStops ==
    ASSUME NEW b, b.stop \in Stops, NEW o, NEW c \in Checked(b, o)
    PROVE  c.stop \in Stops /\ (b.stop # "none" => c = b)
BY DEF Checked, Stops

(* A boundary is before, at or past the declared version, and at it only   *)
(* when it is that version.                                                *)
LEMMA RelationAt ==
    ASSUME NEW v, NEW w, Relation(v, w) = "at"
    PROVE  v = w
BY DEF Relation, At, Before

(* The ends found at the top of the loop.                                  *)
LEMMA EndFound ==
    ASSUME PlayInv, budget'.stop \in Stops
    PROVE  /\ EarlyEnd \in Ends /\ LateEnd \in Ends /\ End \in Ends
           /\ EarlyEnd # "stop_condition_reached"
           /\ End = "stop_condition_reached" => fired.done
           /\ End = "none" => EarlyEnd = "none" /\ budget'.stop = "none"
           /\ EarlyEnd = "none" => play.stalled < StallLimit /\ obs.ui = "play"
<1>1. EarlyEnd \in Ends /\ EarlyEnd # "stop_condition_reached"
  BY DEF EarlyEnd, Ends
<1>2. LateEnd \in Ends /\ (LateEnd = "stop_condition_reached" => fired.done)
  BY DEF LateEnd, Ends
<1>3. EarlyEnd = "none" => play.stalled < StallLimit /\ obs.ui = "play"
  <2>1. EarlyEnd = "none" => ~Stalled /\ obs.ui = "play"
    BY DEF EarlyEnd
  <2>2. play.stalled \in 0..StallLimit /\ StallLimit \in Nat
    BY PlayAssumption DEF PlayInv, PlayTypes, PlayStates
  <2> QED BY <2>1, <2>2 DEF Stalled
<1>4. /\ End \in Ends
      /\ End = "stop_condition_reached" => fired.done
      /\ End = "none" => EarlyEnd = "none" /\ budget'.stop = "none"
  BY <1>1, <1>2 DEF End, Stops, Ends
<1> QED BY <1>1, <1>2, <1>3, <1>4

(* The first boundary sends nothing and keeps the budget.                  *)
LEMMA PlayFirst == ASSUME PlayInv, First PROVE PlayInv'
<1>1. PICK r \in AfterStep(pauses, obs, budget.stop) :
          IF r.failed THEN Raise ELSE play' = [play EXCEPT !.phase = "top"]
  BY DEF First
<1>2. UNCHANGED <<plan, obs, fired, budget, sent>> /\ play.phase = "first"
  BY DEF First
<1>3. /\ play' \in PlayStates /\ play'.phase \in {"raised", "top"}
      /\ play'.outcome = play.outcome
  BY <1>1 DEF PlayInv, PlayTypes, PlayStates, Phases, Raise
<1> QED BY <1>2, <1>3 DEF PlayInv, PlayTypes, Intervened

(* One pass over the top of the loop: past it no stop was seen.            *)
LEMMA PlayTop == ASSUME PlayInv, Top PROVE PlayInv'
<1>1. play.phase = "top" /\ UNCHANGED <<plan, obs, pauses, sent>>
  BY DEF Top
<1>2. budget'.stop \in Stops
  BY CheckedStops DEF Top, PlayInv, PlayTypes
<1>3. play \in PlayStates /\ fired.done \in BOOLEAN
  BY DEF PlayInv, PlayTypes
<1>4. CASE End # "none"
  <2>1. UNCHANGED fired /\ play' = [play EXCEPT !.phase = "done", !.outcome = End]
    BY <1>4 DEF Top, Leave
  <2>2. play' \in PlayStates /\ play'.phase = "done" /\ play'.outcome = End
    BY <1>2, <1>3, <2>1, EndFound DEF PlayStates, Phases
  <2> QED BY <1>1, <1>2, <2>1, <2>2, EndFound DEF PlayInv, PlayTypes, Intervened
<1>5. CASE End = "none"
  <2>1. budget'.stop = "none" /\ play.stalled < StallLimit
    BY <1>2, <1>5, EndFound
  <2>2. CASE Intervening /\ plan.intervention.acts
    <3>1. play' = [play EXCEPT !.phase = "intervene"] /\ UNCHANGED fired
      BY <1>5, <2>2 DEF Top
    <3>2. /\ play' \in PlayStates /\ play'.phase = "intervene" /\ play'.outcome = play.outcome
          /\ play'.stalled = play.stalled
      BY <1>3, <3>1 DEF PlayStates, Phases
    <3>3. Intervening'
      BY <1>1, <2>2, <3>1 DEF Intervening, Declared
    <3> QED BY <1>1, <1>2, <2>1, <2>2, <3>1, <3>2, <3>3 DEF PlayInv, PlayTypes, Intervened
  <2>3. CASE ~(Intervening /\ plan.intervention.acts)
    <3>1. /\ play' = [play EXCEPT !.phase = "decide"]
          /\ fired' = IF Intervening THEN [done |-> TRUE, at |-> Version(obs)] ELSE fired
      BY <1>5, <2>3 DEF Top
    <3>2. /\ play' \in PlayStates /\ play'.phase = "decide" /\ play'.outcome = play.outcome
          /\ play'.stalled = play.stalled
      BY <1>3, <3>1 DEF PlayStates, Phases
    <3>3. fired'.done \in BOOLEAN /\ (fired.done => fired'.done)
      BY <1>3, <3>1
    <3>4. fired'.done /\ plan.intervention.acts => fired.done
      BY <2>3, <3>1
    <3> QED BY <1>1, <1>2, <2>1, <3>2, <3>3, <3>4 DEF PlayInv, PlayTypes, Intervened
  <2> QED BY <2>2, <2>3
<1> QED BY <1>4, <1>5

(* A decision is only handed on while no stop is seen.                     *)
LEMMA PlayDecide == ASSUME PlayInv, Decide \/ StrategyRaises PROVE PlayInv'
<1>1. UNCHANGED <<plan, obs, fired, pauses, sent>> /\ play.phase = "decide"
  BY DEF Decide, StrategyRaises
<1>2. play \in PlayStates
  BY DEF PlayInv, PlayTypes
<1>3. CASE StrategyRaises
  <2>1. play' = [play EXCEPT !.phase = "raised"] /\ UNCHANGED budget
    BY <1>3 DEF StrategyRaises, Raise
  <2>2. play' \in PlayStates /\ play'.phase = "raised" /\ play'.outcome = play.outcome
    BY <1>2, <2>1 DEF PlayStates, Phases
  <2> QED BY <1>1, <2>1, <2>2 DEF PlayInv, PlayTypes, Intervened
<1>4. CASE Decide
  <2>1. PICK n \in Decisions : \E b \in Checked(budget, obs) :
            /\ budget' = b
            /\ IF b.stop # "none" THEN Leave(b.stop)
               ELSE play' = [play EXCEPT !.phase = "commit", !.decision = n]
    BY <1>4 DEF Decide
  <2>2. budget'.stop \in Stops
    BY <2>1, CheckedStops DEF PlayInv, PlayTypes
  <2>3. n \in 0..RequestTicks
    BY PlayAssumption DEF Decisions, PlayInv, PlayTypes, Observations
  <2>4. CASE budget'.stop # "none"
    <3>1. play' = [play EXCEPT !.phase = "done", !.outcome = budget'.stop]
      BY <2>1, <2>4 DEF Leave
    <3>2. play' \in PlayStates /\ play'.phase = "done" /\ play'.outcome = budget'.stop
      BY <1>2, <2>2, <3>1 DEF PlayStates, Phases, Stops, Ends
    <3> QED BY <1>1, <2>2, <3>2 DEF PlayInv, PlayTypes, Intervened, Stops
  <2>5. CASE budget'.stop = "none"
    <3>1. play' = [play EXCEPT !.phase = "commit", !.decision = n]
      BY <2>1, <2>5
    <3>2. /\ play' \in PlayStates /\ play'.phase = "commit" /\ play'.outcome = play.outcome
          /\ play'.stalled = play.stalled
      BY <1>2, <2>3, <3>1 DEF PlayStates, Phases
    <3> QED BY <1>1, <2>2, <2>5, <3>2 DEF PlayInv, PlayTypes, Intervened
  <2> QED BY <2>4, <2>5
<1> QED BY <1>3, <1>4
(* A commit: one more entry, at the version it was sent at; when the game  *)
(* answered, the record says whether it was the intervention.              *)
LEMMA PlayCommit ==
    ASSUME PlayInv, NEW n \in Nat, NEW intervenes \in BOOLEAN, Commit(n, intervenes),
           budget.stop = "none", play.stalled < StallLimit,
           intervenes => Version(obs) = plan.intervention.at /\ ~fired.done /\ plan.intervention.acts,
           play.phase # "raised"
    PROVE  PlayInv'
<1> DEFINE c == [at |-> Version(obs), stop |-> budget.stop, intervenes |-> intervenes]
           N == Len(sent)
<1>1. UNCHANGED plan /\ sent' = Append(sent, c)
  BY DEF Commit
<1>2. c \in Commits /\ sent \in Seq(Commits) /\ c.intervenes = intervenes /\ c.at = Version(obs)
  BY DEF PlayInv, PlayTypes, Commits, Versions, Version, Observations
<1> HIDE DEF c
<1>3. /\ sent' \in Seq(Commits)
      /\ DOMAIN sent = 1..N /\ DOMAIN sent' = 1..(N + 1) /\ N \in Nat
      /\ sent'[N + 1] = c /\ \A i \in 1..N : sent'[i] = sent[i]
  BY <1>1, <1>2
<1> HIDE DEF N
<1>4. \A i \in 1..(N + 1) : i \in 1..N \/ i = N + 1
  BY <1>3
<1>5. 1..N \subseteq 1..(N + 1) /\ N + 1 \in 1..(N + 1)
  BY <1>3
<1>6. Intervened' <=> Intervened \/ intervenes
  BY <1>2, <1>3, <1>4, <1>5, Zenon DEF Intervened
(* the entries, once the record says what the answer was *)
<1>7. ASSUME play'.phase = "raised" \/ fired'.done \/ ~(Intervened \/ intervenes)
      PROVE  \A i \in DOMAIN sent' : sent'[i].intervenes =>
                 /\ sent'[i].at = plan'.intervention.at
                 /\ play'.phase = "raised" \/ fired'.done
                 /\ \A j \in DOMAIN sent' : sent'[j].intervenes => i = j
  <2>1. ASSUME NEW i \in 1..(N + 1), sent'[i].intervenes
        PROVE  /\ sent'[i].at = plan.intervention.at
               /\ \A j \in 1..(N + 1) : sent'[j].intervenes => i = j
    <3>1. Intervened => fired.done
      BY DEF PlayInv, Intervened
    <3>2. CASE intervenes
      <4>1. \A j \in 1..N : ~sent[j].intervenes
        BY <1>3, <3>1, <3>2 DEF Intervened
      <4> QED BY <1>2, <1>3, <1>4, <2>1, <3>2, <4>1
    <3>3. CASE ~intervenes
      BY <1>2, <1>3, <1>4, <2>1, <3>3 DEF PlayInv
    <3> QED BY <3>2, <3>3
  <2>2. Intervened' => play'.phase = "raised" \/ fired'.done
    BY <1>6, <1>7
  <2> QED BY <1>1, <1>3, <2>1, <2>2 DEF Intervened
<1>8. play \in PlayStates /\ fired.done \in BOOLEAN /\ obs \in Observations /\ budget.stop \in Stops
  BY DEF PlayInv, PlayTypes
<1>9. CASE Unanswered
  <2>1. play' = [play EXCEPT !.phase = "raised"]
    BY <1>9 DEF Unanswered, Raise
  <2>2. play' \in PlayStates /\ play'.phase = "raised" /\ play'.outcome = play.outcome
    BY <1>8, <2>1 DEF PlayStates, Phases
  <2>3. /\ plan' \in PlayPlans /\ obs' \in Observations /\ fired' = fired /\ budget' = budget
    BY <1>1, <1>9 DEF PlayInv, PlayTypes, Unanswered
  <2> QED BY <1>1, <1>3, <1>6, <1>7, <2>2, <2>3 DEF PlayInv, PlayTypes
<1>10. CASE ~Unanswered
  <2>1. PICK a \in Answers(n, intervenes) : Answered(a, intervenes)
    BY <1>10 DEF Commit
  <2>2. PICK b \in Checked(budget, obs') : \E r \in AfterStep(pauses, obs', b.stop) :
            /\ budget' \in IF r.failed THEN {b} ELSE Checked(b, obs')
            /\ LET outcome == IF r.failed THEN "none" ELSE After(a, intervenes)
               IN play' = [play EXCEPT
                      !.phase = IF r.failed THEN "raised" ELSE IF outcome # "none" THEN "done" ELSE "top",
                      !.outcome = outcome,
                      !.stalled = IF Moved(a) THEN 0 ELSE @ + 1]
    BY <2>1 DEF Answered
  <2>3. PICK r \in AfterStep(pauses, obs', b.stop) :
            /\ budget' \in IF r.failed THEN {b} ELSE Checked(b, obs')
            /\ LET outcome == IF r.failed THEN "none" ELSE After(a, intervenes)
               IN play' = [play EXCEPT
                      !.phase = IF r.failed THEN "raised" ELSE IF outcome # "none" THEN "done" ELSE "top",
                      !.outcome = outcome,
                      !.stalled = IF Moved(a) THEN 0 ELSE @ + 1]
    BY <2>2
  <2> DEFINE outcome == IF r.failed THEN "none" ELSE After(a, intervenes)
             stalled == IF Moved(a) THEN 0 ELSE play.stalled + 1
             phase == IF r.failed THEN "raised" ELSE IF outcome # "none" THEN "done" ELSE "top"
  <2>4. stalled \in 0..StallLimit
    BY <1>8, PlayAssumption DEF PlayStates
  <2>5. obs' \in Observations
    <3>1. /\ a.tick \in Nat /\ a.rev \in Nat /\ a.ui \in {"play", "over", "select"} /\ a.wave \in BOOLEAN
          /\ a.rounds \in 0..Rounds /\ a.fits \in BOOLEAN
      <4>1. obs.tick \in Nat /\ obs.rev \in Nat /\ obs.rounds \in 0..Rounds /\ Rounds \in Nat
        BY <1>8, PlayAssumption DEF Observations
      <4>2. /\ a.tick \in obs.tick..(obs.tick + n) /\ a.rev \in {0, obs.rev, obs.rev + 1}
            /\ a.ui \in {"play", "over", "select"} /\ a.wave \in BOOLEAN
            /\ a.rounds \in obs.rounds..Rounds /\ a.fits \in BOOLEAN
        BY DEF Answers
      <4> QED BY <4>1, <4>2
    <3>2. obs' = [tick |-> a.tick, rev |-> a.rev, ui |-> a.ui, wave |-> a.wave, rounds |-> a.rounds,
                  fits |-> a.fits]
      BY <2>1 DEF Answered
    <3> QED BY <3>1, <3>2 DEF Observations
  <2>6. b.stop \in Stops /\ budget'.stop \in Stops
    BY <1>8, <2>2, <2>3, CheckedStops
  <2>7. outcome \in {"none", "intervention_failed", "other_stop"}
    BY DEF After
  <2>8. /\ play' \in PlayStates /\ play'.phase \in {"raised", "done", "top"}
        /\ play'.outcome \in {"none", "intervention_failed", "other_stop"}
    <3>1. play' = [play EXCEPT !.phase = phase, !.outcome = outcome, !.stalled = stalled]
      BY <2>3
    <3>2. phase \in {"raised", "done", "top"}
      OBVIOUS
    <3> HIDE DEF stalled, outcome, phase
    <3> QED BY <1>8, <2>4, <2>7, <3>1, <3>2 DEF PlayStates, Phases, Ends
  <2>9. fired'.done = (fired.done \/ intervenes) /\ fired'.done \in BOOLEAN
    BY <1>8, <2>1 DEF Answered
  <2>10. Intervened => fired.done \/ play.phase = "raised"
    BY DEF PlayInv, Intervened
  <2>11. fired.done /\ plan.intervention.acts => Intervened
    BY DEF PlayInv
  <2> HIDE DEF outcome, stalled, phase
  <2>12. plan' \in PlayPlans
    BY <1>1 DEF PlayInv, PlayTypes
  <2> QED
    BY <1>1, <1>3, <1>6, <1>7, <2>5, <2>6, <2>8, <2>9, <2>10, <2>11, <2>12 DEF PlayInv, PlayTypes
<1> QED BY <1>9, <1>10

(* Every step of the source run keeps what is said of it.                  *)
LEMMA PlaySteps == ASSUME PlayInv, PlayStep PROVE PlayInv'
<1>1. CASE Intervene
  <2>1. plan.intervention.ticks \in Nat
    BY PlayAssumption DEF PlayInv, PlayTypes, PlayPlans, Interventions, NoIntervention
  <2>2. Version(obs) = plan.intervention.at /\ ~fired.done /\ plan.intervention.acts
    BY <1>1, RelationAt DEF Intervene, PlayInv, Intervening
  <2> QED BY <1>1, <2>1, <2>2, PlayCommit DEF Intervene, PlayInv
<1>2. CASE Act
  <2>1. play.decision \in Nat
    BY PlayAssumption DEF PlayInv, PlayTypes, PlayStates
  <2> QED BY <1>2, <2>1, PlayCommit DEF Act, PlayInv
<1> QED BY <1>1, <1>2, PlayFirst, PlayTop, PlayDecide DEF PlayStep

(* What the run promises about its intervention follows.                   *)
LEMMA PlayTold == PlayInv => InterventionExact
<1> SUFFICES ASSUME PlayInv PROVE InterventionExact
  OBVIOUS
<1>1. \A i \in DOMAIN sent : sent[i].stop = "none"
  <2>1. \A i \in DOMAIN sent : sent[i] \in Commits
    BY DEF PlayInv, PlayTypes
  <2> QED BY <2>1 DEF Commits
<1> QED BY <1>1 DEF PlayInv, PlayTypes, InterventionExact, Intervened
----------------------------------------------------------------------------
(* The pause points. *)

(* The plan's points are a sequence.                                       *)
LEMMA PointsTyped == Points \in Seq(Nat) /\ DOMAIN Points = 1..Len(Points) /\ Len(Points) \in Nat
BY PlayAssumption

(* The plan's points increase, not only from one to the next.              *)
LEMMA PointsIncrease ==
    ASSUME NEW i \in DOMAIN Points, NEW j \in DOMAIN Points, i < j
    PROVE  Points[i] < Points[j]
<1> DEFINE Bad == {k \in 1..Len(Points) : i < k /\ ~(Points[i] < Points[k])}
<1>1. ASSUME NEW k \in Bad PROVE \E m \in Bad : m < k
  <2>1. k \in 1..Len(Points) /\ i \in 1..Len(Points) /\ i < k /\ Len(Points) \in Nat
    BY PointsTyped
  <2>2. k - 1 \in 1..Len(Points) /\ k # 1 /\ k - 1 < k
    BY <2>1
  <2>3. Points[k] > Points[k - 1]
    BY <2>1, <2>2, PlayAssumption, PointsTyped
  <2>4. Points[i] \in Nat /\ Points[k] \in Nat /\ Points[k - 1] \in Nat
    BY <2>1, <2>2, PointsTyped
  <2>5. i # k - 1
    BY <2>3, <2>4
  <2>6. i < k - 1
    BY <2>1, <2>5
  <2>7. ~(Points[i] < Points[k - 1])
    BY <2>3, <2>4
  <2> QED BY <2>2, <2>6, <2>7
<1>2. Bad = {}
  <2> SUFFICES ASSUME Bad # {} PROVE FALSE
    OBVIOUS
  <2>1. PICK k \in Bad : \A m \in Bad : ~(<<m, k>> \in OpToRel(<, Nat))
    <3>1. Bad \subseteq Nat
      BY PointsTyped
    <3> HIDE DEF Bad
    <3> QED BY <3>1, NatLessThanWellFounded, WFMin
  <2>2. PICK m \in Bad : m < k
    BY <1>1
  <2>3. m \in Nat /\ k \in Nat
    BY PointsTyped
  <2> QED BY <2>1, <2>2, <2>3 DEF OpToRel
<1> QED BY <1>2, PointsTyped

(* Every point is one of the plan's: those still to come are its last.     *)
LEMMA Ordered ==
    ASSUME NEW p, Accounted(p)
    PROVE  \E k \in Nat :
               /\ k = Len(p.completed \o p.unexecuted) /\ k + Len(p.points) = Len(Points)
               /\ \A i \in 1..Len(p.points) : p.points[i] = Points[k + i]
               /\ \A i \in 1..k : (p.completed \o p.unexecuted)[i] = Points[i]
<1> DEFINE u == p.completed \o p.unexecuted
           v == p.points
<1>1. p.completed \in Seq(Nat) /\ p.unexecuted \in Seq(Nat) /\ v \in Seq(Nat) /\ u \o v = Points
  BY DEF Accounted, PauseStates
<1>2. u \in Seq(Nat)
  BY <1>1, ConcatProperties
<1> HIDE DEF u, v
<1>3. /\ Len(u) \in Nat /\ Len(v) \in Nat /\ Len(Points) = Len(u) + Len(v)
      /\ \A i \in 1..(Len(u) + Len(v)) : Points[i] = IF i <= Len(u) THEN u[i] ELSE v[i - Len(u)]
  BY <1>1, <1>2, ConcatProperties, LenProperties
<1>4. ASSUME NEW i \in 1..Len(v) PROVE v[i] = Points[Len(u) + i]
  <2>1. Len(u) + i \in 1..(Len(u) + Len(v)) /\ ~(Len(u) + i <= Len(u)) /\ (Len(u) + i) - Len(u) = i
    BY <1>3
  <2> QED BY <1>3, <2>1
<1>5. \A i \in 1..Len(u) : u[i] = Points[i]
  <2>1. \A i \in 1..Len(u) : i \in 1..(Len(u) + Len(v)) /\ i <= Len(u)
    BY <1>3
  <2> QED BY <1>3, <2>1
<1> QED BY <1>3, <1>4, <1>5 DEF u, v

(* The points that fall due at a boundary are the first ones.              *)
LEMMA DueFirst ==
    ASSUME NEW p, Accounted(p), NEW o \in Observations
    PROVE  /\ Cardinality(Due(p, o)) \in 0..Len(p.points)
           /\ \A i \in DOMAIN p.points : i > Cardinality(Due(p, o)) => p.points[i] > o.tick
<1> DEFINE s == p.points
           L == Len(s)
           Rest == {i \in 1..L : s[i] > o.tick}
<1>1. /\ s \in Seq(Nat) /\ L \in Nat /\ DOMAIN s = 1..L
      /\ \A i \in 1..L : s[i] \in Nat
  BY DEF Accounted, PauseStates
<1>2. o.tick \in Nat
  BY DEF Observations
<1>3. Due(p, o) = {i \in 1..L : s[i] <= o.tick}
  BY <1>1 DEF Due
<1>4. ASSUME NEW i \in 1..L, NEW j \in 1..L, i < j PROVE s[i] < s[j]
  <2>1. PICK k \in Nat : k + L = Len(Points) /\ \A h \in 1..L : s[h] = Points[k + h]
    BY Ordered
  <2> HIDE DEF s, L
  <2>2. k + i \in DOMAIN Points /\ k + j \in DOMAIN Points /\ k + i < k + j
    BY <1>1, <1>4, <2>1, PointsTyped
  <2> QED BY <2>1, <2>2, PointsIncrease
<1> HIDE DEF s, L
<1>5. \E n \in 0..L : Due(p, o) = 1..n /\ \A i \in 1..L : i > n => s[i] > o.tick
  <2>1. CASE Rest = {}
    <3>1. Due(p, o) = 1..L
      BY <1>1, <1>2, <1>3, <2>1
    <3> QED BY <1>1, <3>1
  <2>2. CASE Rest # {}
    <3>1. PICK m \in Rest : \A i \in Rest : ~(<<i, m>> \in OpToRel(<, Nat))
      <4>1. Rest \subseteq Nat
        BY <1>1
      <4> HIDE DEF Rest
      <4> QED BY <2>2, <4>1, NatLessThanWellFounded, WFMin
    <3>2. m \in 1..L /\ s[m] > o.tick /\ \A i \in 1..L : i < m => s[i] <= o.tick
      <4>1. ASSUME NEW i \in Rest, i < m PROVE FALSE
        <5>1. i \in Nat /\ m \in Nat
          BY <1>1
        <5>2. <<i, m>> \in OpToRel(<, Nat)
          BY <4>1, <5>1 DEF OpToRel
        <5> HIDE DEF Rest
        <5> QED BY <3>1, <5>2
      <4> QED BY <1>1, <1>2, <4>1
    <3>3. \A i \in 1..L : i > m => s[i] > o.tick
      BY <1>1, <1>2, <1>4, <3>2
    <3>4. m - 1 \in 0..L /\ \A i \in 1..L : (i <= m - 1 <=> s[i] <= o.tick)
      BY <1>1, <1>2, <3>2, <3>3
    <3>5. Due(p, o) = 1..(m - 1) /\ \A i \in 1..L : i > m - 1 => s[i] > o.tick
      BY <1>1, <1>2, <1>3, <3>2, <3>4
    <3> QED BY <3>4, <3>5
  <2> QED BY <2>1, <2>2
<1>6. PICK n \in 0..L : Due(p, o) = 1..n /\ \A i \in 1..L : i > n => s[i] > o.tick
  BY <1>5
<1>7. Cardinality(Due(p, o)) = n
  BY <1>1, <1>6, FS_Interval
<1> QED BY <1>1, <1>6, <1>7 DEF s, L

(* The points of a schedule are the first ones and the rest of them.       *)
LEMMA Cut ==
    ASSUME NEW p, p.points \in Seq(Nat), NEW n \in 0..Len(p.points)
    PROVE  /\ FirstOf(n, p) \in Seq(Nat) /\ AfterFirst(n, p) \in Seq(Nat)
           /\ FirstOf(n, p) \o AfterFirst(n, p) = p.points
           /\ Len(AfterFirst(n, p)) = Len(p.points) - n
           /\ \A i \in 1..(Len(p.points) - n) : AfterFirst(n, p)[i] = p.points[n + i]
<1> DEFINE s == p.points
           L == Len(s)
<1>1. /\ s \in Seq(Nat) /\ L \in Nat /\ n \in 0..L /\ \A i \in 1..L : s[i] \in Nat
      /\ FirstOf(n, p) = SubSeq(s, 1, n) /\ AfterFirst(n, p) = SubSeq(s, n + 1, L)
  BY DEF FirstOf, AfterFirst
<1>2. L = Len(s)
  OBVIOUS
<1> HIDE DEF s, L
<1>3. SubSeq(s, 1, n) \in Seq(Nat)
  <2>1. \A i \in 1..n : s[i] \in Nat
    BY <1>1
  <2> QED BY <1>1, <2>1, SubSeqProperties
<1>4. /\ SubSeq(s, n + 1, L) \in Seq(Nat) /\ Len(SubSeq(s, n + 1, L)) = L - n
      /\ \A i \in 1..(L - n) : SubSeq(s, n + 1, L)[i] = s[n + i]
  <2>1. \A i \in (n + 1)..L : s[i] \in Nat
    BY <1>1
  <2>2. n + 1 \in Int /\ L \in Int
    BY <1>1
  <2>3. /\ SubSeq(s, n + 1, L) \in Seq(Nat)
        /\ Len(SubSeq(s, n + 1, L)) = IF n + 1 <= L THEN L - (n + 1) + 1 ELSE 0
        /\ \A i \in 1..(L - (n + 1) + 1) : SubSeq(s, n + 1, L)[i] = s[(n + 1) + i - 1]
    BY <2>1, <2>2, SubSeqProperties
  <2> QED BY <1>1, <2>3
<1>5. SubSeq(s, 1, n) \o SubSeq(s, n + 1, L) = s
  <2>1. 1 \in 1..(L + 1) /\ n \in (1 - 1)..L /\ L \in n..L
    BY <1>1
  <2>2. SubSeq(s, 1, n) \o SubSeq(s, n + 1, L) = SubSeq(s, 1, L)
    BY <1>1, <1>2, <2>1, ConcatAdjacentSubSeq
  <2>3. SubSeq(s, 1, L) = s
    BY <1>1, <1>2, SubSeqFull
  <2> QED BY <2>2, <2>3
<1> QED BY <1>1, <1>3, <1>4, <1>5 DEF s, L

(* Sequences of points are put together in any order.                      *)
LEMMA Joins ==
    ASSUME NEW s \in Seq(Nat), NEW t \in Seq(Nat), NEW u \in Seq(Nat)
    PROVE  (s \o t) \o u = s \o (t \o u)
BY ConcatAssociative

(* Nothing put before or behind one changes it.                            *)
LEMMA JoinsNothing ==
    ASSUME NEW s \in Seq(Nat)
    PROVE  s \o <<>> = s /\ <<>> \o s = s
<1>1. s \o <<>> = s
  BY ConcatEmptySeq
<1>2. <<>> \o s = s
  BY ConcatEmptySeq
<1> QED BY <1>1, <1>2, Zenon

(* When nothing was set aside before, probing the first points, or setting *)
(* them aside, or failing at one of them keeps every point in its place.   *)
LEMMA Taken ==
    ASSUME NEW p, Accounted(p), p.unexecuted = <<>>, NEW n \in 0..Len(p.points)
    PROVE  Accounted(Probed(p, n)) /\ Accounted(Unprobed(p, n))
<1> DEFINE c == p.completed
           f == FirstOf(n, p)
           a == AfterFirst(n, p)
<1>1. c \in Seq(Nat) /\ p.points \in Seq(Nat) /\ c \o p.points = Points
  <2>1. p \in PauseStates /\ (p.completed \o <<>>) \o p.points = Points
    BY DEF Accounted
  <2>2. c \in Seq(Nat) /\ p.points \in Seq(Nat) /\ Len(p.points) \in Nat
    BY <2>1 DEF PauseStates
  <2>3. p.completed \o <<>> = p.completed
    BY <2>2, JoinsNothing
  <2>4. c \o p.points = Points
    BY <2>1, <2>3, Zenon
  <2> QED BY <2>2, <2>4, Zenon
<1>2. f \in Seq(Nat) /\ a \in Seq(Nat) /\ f \o a = p.points
  BY <1>1, Cut
<1>3. /\ Probed(p, n) = [points |-> a, completed |-> c \o f, unexecuted |-> <<>>]
      /\ Unprobed(p, n) = [points |-> a, completed |-> c, unexecuted |-> <<>> \o f]
  BY DEF Probed, Unprobed
<1> HIDE DEF c, f, a
<1>4. <<>> \o f = f /\ c \o f \in Seq(Nat) /\ <<>> \in Seq(Nat)
  BY <1>1, <1>2, JoinsNothing, ConcatProperties
<1>5. (c \o f) \o <<>> = c \o f
  BY <1>4, JoinsNothing
<1>6. (c \o f) \o a = Points
  <2>1. (c \o f) \o a = c \o (f \o a)
    BY <1>1, <1>2, Joins
  <2>2. c \o (f \o a) = Points
    BY <1>1, <1>2, Zenon
  <2> QED BY <2>1, <2>2, Zenon
<1>7. Accounted(Probed(p, n))
  <2>1. Probed(p, n) \in PauseStates
    BY <1>2, <1>3, <1>4 DEF PauseStates
  <2>2. /\ Probed(p, n).completed = c \o f /\ Probed(p, n).unexecuted = <<>>
        /\ Probed(p, n).points = a
    BY <1>3
  <2> QED BY <1>5, <1>6, <2>1, <2>2, Zenon DEF Accounted
<1>8. Accounted(Unprobed(p, n))
  <2>1. Unprobed(p, n) \in PauseStates
    BY <1>1, <1>2, <1>3, <1>4 DEF PauseStates
  <2>2. /\ Unprobed(p, n).completed = c /\ Unprobed(p, n).unexecuted = f
        /\ Unprobed(p, n).points = a
    BY <1>3, <1>4
  <2> QED BY <1>6, <2>1, <2>2, Zenon DEF Accounted
<1> QED BY <1>7, <1>8

(* The same when a probe fails: its point is set aside, and no later one.  *)
LEMMA TakenButOne ==
    ASSUME NEW p, Accounted(p), p.unexecuted = <<>>, NEW n \in Nat, n < Len(p.points)
    PROVE  Accounted(ProbeFailed(p, n))
<1> DEFINE c == p.completed
           x == p.points[n + 1]
           f == FirstOf(n, p)
           g == FirstOf(n + 1, p)
           a == AfterFirst(n + 1, p)
<1>1. /\ c \in Seq(Nat) /\ p.points \in Seq(Nat) /\ Len(p.points) \in Nat
      /\ c \o p.points = Points
  <2>1. p \in PauseStates /\ (p.completed \o <<>>) \o p.points = Points
    BY DEF Accounted
  <2>2. c \in Seq(Nat) /\ p.points \in Seq(Nat) /\ Len(p.points) \in Nat
    BY <2>1 DEF PauseStates
  <2>3. p.completed \o <<>> = p.completed
    BY <2>2, JoinsNothing
  <2>4. c \o p.points = Points
    BY <2>1, <2>3, Zenon
  <2> QED BY <2>2, <2>4, Zenon
<1>2. n \in 0..Len(p.points) /\ n + 1 \in 0..Len(p.points) /\ n + 1 \in 1..Len(p.points)
  BY <1>1
<1>3. f \in Seq(Nat) /\ g \in Seq(Nat) /\ a \in Seq(Nat) /\ g \o a = p.points
  BY <1>1, <1>2, Cut
<1>4. x \in Nat /\ Append(<<>>, x) = <<x>> /\ <<x>> \in Seq(Nat) /\ <<>> \in Seq(Nat)
  BY <1>1, <1>2
<1>5. g = f \o <<x>>
  <2>1. 1 \in 1..Len(p.points) /\ n + 1 \in 1..Len(p.points) /\ (n + 1) - 1 = n
    BY <1>2
  <2>2. SubSeq(p.points, 1, n + 1) = SubSeq(p.points, 1, (n + 1) - 1) \o <<p.points[n + 1]>>
    BY <1>1, <2>1, SubSeqRecursiveSecond
  <2> QED BY <2>1, <2>2 DEF FirstOf
<1>6. ProbeFailed(p, n) = [points |-> a, completed |-> c \o f, unexecuted |-> Append(<<>>, x)]
  BY DEF ProbeFailed
<1> HIDE DEF c, f, g, a, x
<1>7. c \o f \in Seq(Nat)
  BY <1>1, <1>3, ConcatProperties
<1>8. (c \o f) \o <<x>> = c \o g
  <2> DEFINE y == <<x>>
  <2>1. y \in Seq(Nat) /\ f \o y = g
    BY <1>4, <1>5, Zenon
  <2> HIDE DEF y
  <2>2. (c \o f) \o y = c \o (f \o y)
    BY <1>1, <1>3, <2>1, Joins
  <2>3. c \o (f \o y) = c \o g
    BY <2>1, Zenon
  <2> QED BY <2>2, <2>3, Zenon DEF y
<1>9. (c \o g) \o a = Points
  <2>1. (c \o g) \o a = c \o (g \o a)
    BY <1>1, <1>3, Joins
  <2>2. c \o (g \o a) = Points
    BY <1>1, <1>3, Zenon
  <2> QED BY <2>1, <2>2, Zenon
<1>10. ProbeFailed(p, n) \in PauseStates
  BY <1>3, <1>4, <1>6, <1>7 DEF PauseStates
<1>11. /\ ProbeFailed(p, n).completed = c \o f /\ ProbeFailed(p, n).unexecuted = <<x>>
       /\ ProbeFailed(p, n).points = a
  BY <1>4, <1>6
<1> QED BY <1>8, <1>9, <1>10, <1>11, Zenon DEF Accounted

(* Whatever a boundary does with the points that are due, every point      *)
(* stays accounted for; when no probe failed none that is due is left, and *)
(* none is set aside but without resources or out of play.                 *)
LEMMA AfterStepKeeps ==
    ASSUME NEW p, Accounted(p), p.unexecuted = <<>>, NEW o \in Observations, NEW stop,
           NEW r \in AfterStep(p, o, stop)
    PROVE  /\ Accounted(r.p)
           /\ ~r.failed => /\ Ahead(r.p, o)
                           /\ r.p.unexecuted # <<>> => stop # "none" \/ o.ui # "play"
<1> DEFINE n == Cardinality(Due(p, o))
<1>1. /\ n \in 0..Len(p.points)
      /\ \A i \in DOMAIN p.points : i > n => p.points[i] > o.tick
  BY DueFirst
<1>2. /\ p.points \in Seq(Nat) /\ Len(p.points) \in Nat /\ DOMAIN p.points = 1..Len(p.points)
  BY DEF Accounted, PauseStates
<1>3. \/ /\ stop # "none" \/ o.ui # "play"
         /\ r = [failed |-> FALSE, p |-> Unprobed(p, n)]
      \/ r = [failed |-> FALSE, p |-> Probed(p, n)]
      \/ \E k \in 0..(n - 1) : r = [failed |-> TRUE, p |-> ProbeFailed(p, k)]
  BY DEF AfterStep
<1> HIDE DEF n
<1>4. ASSUME NEW q \in {Probed(p, n), Unprobed(p, n)} PROVE Accounted(q) /\ Ahead(q, o)
  <2>1. Accounted(q) /\ q.points = AfterFirst(n, p)
    <3>1. Accounted(Probed(p, n)) /\ Accounted(Unprobed(p, n))
      BY <1>1, Taken
    <3>2. Probed(p, n).points = AfterFirst(n, p) /\ Unprobed(p, n).points = AfterFirst(n, p)
      BY DEF Probed, Unprobed
    <3> QED BY <3>1, <3>2
  <2>2. /\ Len(q.points) = Len(p.points) - n /\ DOMAIN q.points = 1..Len(q.points)
        /\ \A i \in 1..(Len(p.points) - n) : q.points[i] = p.points[n + i]
    <3>1. /\ Len(AfterFirst(n, p)) = Len(p.points) - n
          /\ \A i \in 1..(Len(p.points) - n) : AfterFirst(n, p)[i] = p.points[n + i]
      BY <1>1, <1>2, Cut
    <3>2. q.points \in Seq(Nat)
      BY <2>1 DEF Accounted, PauseStates
    <3> QED BY <2>1, <3>1, <3>2
  <2>3. ASSUME NEW i \in DOMAIN q.points PROVE q.points[i] > o.tick
    <3>1. i \in 1..(Len(p.points) - n)
      BY <2>2
    <3>2. n + i \in 1..Len(p.points) /\ n + i > n
      BY <1>1, <1>2, <3>1
    <3> QED BY <1>1, <1>2, <2>2, <3>1, <3>2
  <2> QED BY <2>1, <2>3 DEF Ahead
<1>5. CASE r = [failed |-> FALSE, p |-> Probed(p, n)]
  <2>1. r.p = Probed(p, n) /\ ~r.failed /\ r.p.unexecuted = <<>>
    BY <1>5 DEF Probed
  <2> QED BY <1>4, <2>1
<1>6. CASE r = [failed |-> FALSE, p |-> Unprobed(p, n)] /\ (stop # "none" \/ o.ui # "play")
  BY <1>4, <1>6
<1>7. CASE \E k \in 0..(n - 1) : r = [failed |-> TRUE, p |-> ProbeFailed(p, k)]
  <2>1. PICK k \in 0..(n - 1) : r = [failed |-> TRUE, p |-> ProbeFailed(p, k)]
    BY <1>7
  <2>2. k \in Nat /\ k < Len(p.points)
    BY <1>1, <1>2
  <2>3. Accounted(ProbeFailed(p, k))
    BY <2>2, TakenButOne
  <2> QED BY <2>1, <2>3
<1> QED BY <1>3, <1>5, <1>6, <1>7

(* At the start every point is still to come.                              *)
LEMMA PausesStart == PlayInit => PausesInv
<1> SUFFICES ASSUME PlayInit PROVE PausesInv
  OBVIOUS
<1>1. /\ pauses = [points |-> Points, completed |-> <<>>, unexecuted |-> <<>>] /\ play.phase = "first"
  BY DEF PlayInit
<1>2. pauses \in PauseStates
  BY <1>1, PointsTyped DEF PauseStates
<1>3. <<>> \o <<>> = <<>> /\ <<>> \o Points = Points
  BY PointsTyped, ConcatEmptySeq
<1> QED BY <1>1, <1>2, <1>3 DEF PausesInv, Accounted

(* Every step of the source run keeps the points accounted for.            *)
LEMMA PausesKept == ASSUME PlayInv, PausesInv, PlayStep PROVE PausesInv'
<1>1. ASSUME NEW n, NEW intervenes, Commit(n, intervenes), play.phase \in {"intervene", "commit"}
      PROVE  PausesInv'
  <2>1. CASE Unanswered
    <3>1. play'.phase = "raised" /\ UNCHANGED pauses
      BY <2>1 DEF Unanswered, Raise, PlayInv, PlayTypes, PlayStates
    <3> QED BY <3>1 DEF PausesInv
  <2>2. CASE ~Unanswered
    <3>1. PICK a \in Answers(n, intervenes) : Answered(a, intervenes)
      BY <1>1, <2>2 DEF Commit
    <3>2. PICK b \in Checked(budget, obs') : \E r \in AfterStep(pauses, obs', b.stop) :
              /\ pauses' = r.p
              /\ budget' \in IF r.failed THEN {b} ELSE Checked(b, obs')
              /\ play'.phase \in IF r.failed THEN {"raised"} ELSE {"done", "top"}
      BY <3>1 DEF Answered, PlayInv, PlayTypes, PlayStates
    <3>3. PICK r \in AfterStep(pauses, obs', b.stop) :
              /\ pauses' = r.p
              /\ budget' \in IF r.failed THEN {b} ELSE Checked(b, obs')
              /\ play'.phase \in IF r.failed THEN {"raised"} ELSE {"done", "top"}
      BY <3>2
    <3>4. obs' \in Observations
      BY <1>1, PlaySteps DEF PlayInv, PlayTypes
    <3>5. b.stop \in Stops /\ (~r.failed /\ b.stop # "none" => budget' = b)
      BY <3>2, <3>3, CheckedStops DEF PlayInv, PlayTypes
    <3>6. /\ Accounted(pauses')
          /\ ~r.failed => /\ Ahead(pauses', obs')
                          /\ pauses'.unexecuted # <<>> => b.stop # "none" \/ obs'.ui # "play"
      BY <1>1, <3>3, <3>4, AfterStepKeeps DEF PausesInv
    <3> QED BY <3>3, <3>5, <3>6 DEF PausesInv
  <2> QED BY <2>1, <2>2
<1>2. CASE First
  <2>1. PICK r \in AfterStep(pauses, obs, budget.stop) :
            /\ pauses' = r.p
            /\ IF r.failed THEN Raise ELSE play' = [play EXCEPT !.phase = "top"]
    BY <1>2 DEF First
  <2>2. obs' = obs /\ budget' = budget /\ obs \in Observations /\ play.phase = "first"
    BY <1>2 DEF First, PlayInv, PlayTypes
  <2>3. play'.phase = IF r.failed THEN "raised" ELSE "top"
    BY <2>1 DEF Raise, PlayInv, PlayTypes, PlayStates
  <2>4. /\ Accounted(pauses')
        /\ ~r.failed => /\ Ahead(pauses', obs)
                        /\ pauses'.unexecuted # <<>> => budget.stop # "none" \/ obs.ui # "play"
    BY <2>1, <2>2, AfterStepKeeps DEF PausesInv
  <2> QED BY <2>2, <2>3, <2>4 DEF PausesInv
<1>3. CASE Top
  <2>1. UNCHANGED <<pauses, obs>> /\ play.phase = "top"
    BY <1>3 DEF Top
  <2>2. budget.stop # "none" => budget'.stop = budget.stop
    BY <1>3, CheckedStops DEF Top, PlayInv, PlayTypes
  <2>3. budget'.stop \in Stops
    BY <1>3, CheckedStops DEF Top, PlayInv, PlayTypes
  <2>4. CASE End # "none"
    <3>1. play'.phase = "done"
      BY <1>3, <2>4 DEF Top, Leave, PlayInv, PlayTypes, PlayStates
    <3> QED BY <2>1, <3>1 DEF PausesInv, Ahead
  <2>5. CASE End = "none"
    <3>1. play'.phase \in {"intervene", "decide"}
      BY <1>3, <2>5 DEF Top, PlayInv, PlayTypes, PlayStates
    <3>2. budget.stop = "none" /\ obs.ui = "play"
      BY <2>2, <2>3, <2>5, EndFound
    <3> QED BY <2>1, <3>1, <3>2 DEF PausesInv, Ahead
  <2> QED BY <2>4, <2>5
<1>4. CASE StrategyRaises \/ Decide
  <2>1. UNCHANGED <<pauses, obs>> /\ play.phase = "decide"
    BY <1>4 DEF StrategyRaises, Decide
  <2>2. play'.phase \in {"raised", "done", "commit"}
    BY <1>4 DEF StrategyRaises, Decide, Raise, Leave, PlayInv, PlayTypes, PlayStates
  <2> QED BY <2>1, <2>2 DEF PausesInv, Ahead
<1> QED BY <1>1, <1>2, <1>3, <1>4, PlaySteps DEF PlayStep, Intervene, Act

(* What is said of the pause points follows.                               *)
LEMMA PausesTold == PlayInv /\ PausesInv => PausesAccounted
<1> SUFFICES ASSUME PlayInv, PausesInv PROVE PausesAccounted
  OBVIOUS
<1>1. pauses.completed \o pauses.unexecuted \o pauses.points = Points
  BY DEF PausesInv, Accounted
<1>2. ASSUME play.phase = "done", pauses.unexecuted = <<>>, NEW i \in DOMAIN Points, Points[i] <= obs.tick
      PROVE  \E j \in DOMAIN pauses.completed : pauses.completed[j] = Points[i]
  <2> DEFINE c == pauses.completed
             v == pauses.points
  <2>1. c \in Seq(Nat) /\ v \in Seq(Nat) /\ DOMAIN c = 1..Len(c) /\ DOMAIN v = 1..Len(v) /\ Len(v) \in Nat
    BY DEF PausesInv, Accounted, PauseStates
  <2>2. c \o pauses.unexecuted = c
    BY <1>2, <2>1, ConcatEmptySeq
  <2>3. PICK k \in Nat : /\ k = Len(c) /\ k + Len(v) = Len(Points)
                         /\ \A h \in 1..Len(v) : v[h] = Points[k + h]
                         /\ \A h \in 1..k : c[h] = Points[h]
    BY <2>2, Ordered DEF PausesInv
  <2>4. \A h \in DOMAIN v : v[h] > obs.tick
    BY <1>2 DEF PausesInv, Ahead
  <2> HIDE DEF c, v
  <2>5. i \in 1..(k + Len(v)) /\ Points[i] \in Nat /\ obs.tick \in Nat
    BY <2>3, PointsTyped DEF PlayInv, PlayTypes, Observations
  <2>6. i \in 1..k
    <3>1. CASE i - k \in 1..Len(v)
      <4>1. k + (i - k) = i
        BY <2>3, <2>5
      <4>2. v[i - k] = Points[i] /\ v[i - k] > obs.tick
        BY <2>1, <2>3, <2>4, <3>1, <4>1
      <4> QED BY <1>2, <2>5, <4>2
    <3> QED BY <2>1, <2>5, <3>1
  <2> QED BY <2>1, <2>3, <2>6 DEF c
<1> QED BY <1>1, <1>2 DEF PausesAccounted
----------------------------------------------------------------------------
(* The session: set-up and launch. *)

USE DEF Setup, Starting, Leaving, Living, Finals, Retention, Places, Unstarted, Goes, Has, RestOfSession

(* A session starts with nothing built and nothing owned.                  *)
LEMMA SessionStarts == Init => SessionInv
<1> SUFFICES ASSUME Init PROVE SessionInv
  OBVIOUS
<1> USE DEF Init, Noted
<1>1. SessionTypes
  <2>1. item \in Items
    BY DEF NoItem, Items
  <2>2. faults \in 0..MaxFaults
    BY FaultAssumption
  <2>3. role \in {"source", "cold"} /\ at \in Places /\ game \in Games
    BY DEF Games
  <2>4. launch \in Launches /\ windows \in Verdicts
    BY DEF Launches, Verdicts
  <2> QED BY <2>1, <2>2, <2>3, <2>4 DEF SessionTypes, RestTypes, GhostTypes
<1>2. Built
  BY DEF Built
<1>3. Owned
  BY DEF Owned, NoItem
<1>4. Told
  BY DEF Told, NoItem
<1> QED BY <1>1, <1>2, <1>3, <1>4 DEF SessionInv

(* A step that goes well or notes one mishap keeps the ghosts well typed.  *)
LEMMA GhostsTyped ==
    ASSUME SessionTypes, \E stage \in Mishaps : Well \/ Fault(stage)
    PROVE  GhostTypes'
BY FaultAssumption DEF SessionTypes, GhostTypes, Well, Fault

(* The stages that build one thing.                                        *)
LEMMA StageKeeps == ASSUME SessionInv, DiskCheck \/ CreateRun \/ Connect PROVE SessionInv'
<1> USE DEF DiskCheck, CreateRun, Connect, Stage
<1>1. \E stage \in Mishaps : Well \/ Fault(stage)
  BY DEF Mishaps, Raises
<1>2. GhostTypes'
  BY <1>1, GhostsTyped DEF SessionInv
<1> USE DEF SessionInv, SessionTypes, Well, Fault, Raises
<1>3. RestTypes'
  <2>1. at' \in Places
    OBVIOUS
  <2>2. has' \subseteq Things
    BY DEF RestTypes, Things
  <2>3. primary' \in BOOLEAN
    BY DEF RestTypes
  <2>4. UNCHANGED <<role, game, launch, locks, cleanup, windows, ended, disk, item>>
    OBVIOUS
  <2> QED BY <2>1, <2>2, <2>3, <2>4 DEF RestTypes
<1>4. Built'
  BY DEF RestTypes, Games, Launches, Built
<1>5. Owned'
  BY DEF RestTypes, Games, Launches, Built, Owned, Unnamed
<1>6. Told'
  BY DEF RestTypes, Games, Verdicts, Built, Told, Noted, Silent, Readable, Stored, CleanupPassed,
     WritersClosed, playVars
<1> QED BY <1>2, <1>3, <1>4, <1>5, <1>6

(* The trace takes its lock.                                               *)
LEMMA OpenTraceKeeps == ASSUME SessionInv, OpenTrace PROVE SessionInv'
<1> USE DEF OpenTrace
<1>1. \E stage \in Mishaps : Well \/ Fault(stage)
  BY DEF Mishaps, Raises
<1>2. GhostTypes'
  BY <1>1, GhostsTyped DEF SessionInv
<1> USE DEF SessionInv, SessionTypes, Well, Fault, Raises
<1>3. RestTypes'
  <2>1. at' \in Places
    OBVIOUS
  <2>2. has' \subseteq Things
    BY DEF RestTypes, Things
  <2>3. locks' \subseteq {"trace", "observer"}
    BY DEF RestTypes
  <2>4. primary' \in BOOLEAN
    BY DEF RestTypes
  <2>5. UNCHANGED <<role, game, launch, cleanup, windows, ended, disk, item>>
    OBVIOUS
  <2> QED BY <2>1, <2>2, <2>3, <2>4, <2>5 DEF RestTypes
<1>4. Built'
  BY DEF RestTypes, Games, Launches, Built
<1>5. Owned'
  BY DEF RestTypes, Games, Launches, Built, Owned, Unnamed
<1>6. Told'
  BY DEF RestTypes, Games, Verdicts, Built, Told, Noted, Silent, Readable, Stored, CleanupPassed,
     WritersClosed, playVars
<1> QED BY <1>2, <1>3, <1>4, <1>5, <1>6

(* The sources of the host are noted, or the set-up ends.                  *)
LEMMA HostSourcesKeeps == ASSUME SessionInv, HostSources PROVE SessionInv'
<1> USE DEF HostSources
<1>1. \E stage \in Mishaps : Well \/ Fault(stage)
  BY DEF Mishaps, Raises
<1>2. GhostTypes'
  BY <1>1, GhostsTyped DEF SessionInv
<1> USE DEF SessionInv, SessionTypes, Well, Fault, Raises
<1>3. RestTypes'
  <2>1. at' \in Places
    OBVIOUS
  <2>2. has' \subseteq Things
    BY DEF RestTypes, Things
  <2>3. primary' \in BOOLEAN
    BY DEF RestTypes
  <2>4. UNCHANGED <<role, game, launch, locks, cleanup, windows, ended, disk, item>>
    OBVIOUS
  <2> QED BY <2>1, <2>2, <2>3, <2>4 DEF RestTypes
<1>4. Built'
  BY DEF RestTypes, Games, Launches, Built
<1>5. Owned'
  BY DEF RestTypes, Games, Launches, Built, Owned, Unnamed
<1>6. Told'
  BY DEF RestTypes, Games, Verdicts, Built, Told, Noted, Silent, Readable, Stored, CleanupPassed,
     WritersClosed, playVars
<1> QED BY <1>2, <1>3, <1>4, <1>5, <1>6

(* The launch's window observer takes its lock, or leaves it behind.       *)
LEMMA EnterObserverKeeps == ASSUME SessionInv, EnterObserver PROVE SessionInv'
<1> USE DEF EnterObserver
<1>1. \E stage \in Mishaps : Well \/ Fault(stage)
  BY DEF Mishaps, Raises
<1>2. GhostTypes'
  BY <1>1, GhostsTyped DEF SessionInv
<1> USE DEF SessionInv, SessionTypes, Well, Fault, Raises
<1>3. RestTypes'
  <2>1. at' \in Places
    OBVIOUS
  <2>2. locks' \subseteq {"trace", "observer"}
    <3>1. locks' \in {locks, locks \cup {"observer"}, locks \ {"observer"}}
      OBVIOUS
    <3> QED BY <3>1 DEF RestTypes
  <2>3. primary' \in BOOLEAN
    BY DEF RestTypes
  <2>4. UNCHANGED <<role, game, launch, has, cleanup, windows, ended, disk, item>>
    OBVIOUS
  <2> QED BY <2>1, <2>2, <2>3, <2>4 DEF RestTypes
<1>4. Built'
  BY DEF RestTypes, Games, Launches, Built
<1>5. Owned'
  BY DEF RestTypes, Games, Launches, Built, Owned, Unnamed
<1>6. Told'
  BY DEF RestTypes, Games, Verdicts, Built, Told, Noted, Silent, Readable, Stored, CleanupPassed,
     WritersClosed, playVars
<1> QED BY <1>2, <1>3, <1>4, <1>5, <1>6

(* Preparing the launch starts nothing.                                    *)
LEMMA PrepareKeeps == ASSUME SessionInv, Prepare PROVE SessionInv'
<1> USE DEF Prepare
<1>1. \E stage \in Mishaps : Well \/ Fault(stage)
  BY DEF Mishaps, Raises
<1>2. GhostTypes'
  BY <1>1, GhostsTyped DEF SessionInv
<1> USE DEF SessionInv, SessionTypes, Well, Fault, Raises
<1>3. RestTypes'
  <2>1. at' \in Places
    OBVIOUS
  <2>2. primary' \in BOOLEAN
    BY DEF RestTypes
  <2>3. UNCHANGED <<role, game, launch, has, locks, cleanup, windows, ended, disk, item>>
    OBVIOUS
  <2> QED BY <2>1, <2>2, <2>3 DEF RestTypes
<1>4. Built'
  BY DEF RestTypes, Games, Launches, Built
<1>5. Owned'
  BY DEF RestTypes, Games, Launches, Built, Owned, Unnamed
<1>6. Told'
  BY DEF RestTypes, Games, Verdicts, Built, Told, Noted, Silent, Readable, Stored, CleanupPassed,
     WritersClosed, playVars
<1> QED BY <1>2, <1>3, <1>4, <1>5, <1>6

(* The process is the launch's, or nothing can name it.                    *)
LEMMA NativeLaunchKeeps == ASSUME SessionInv, NativeLaunch PROVE SessionInv'
<1> USE DEF NativeLaunch, Launching
<1>1. \E stage \in Mishaps : Well \/ Fault(stage)
  BY DEF Mishaps, Raises
<1>2. GhostTypes'
  BY <1>1, GhostsTyped DEF SessionInv
<1> USE DEF SessionInv, SessionTypes, Well, Fault, Raises
<1>3. RestTypes'
  <2>1. at' \in Places
    OBVIOUS
  <2>2. game' \in Games
    BY DEF RestTypes, Games
  <2>3. launch' \in Launches
    <3>1. launch \in Launches
      BY DEF RestTypes
    <3>2. \/ launch' = [launch EXCEPT !.pid = TRUE, !.receipt = TRUE]
          \/ launch' = [launch EXCEPT !.receipt = TRUE]
          \/ launch' = launch
      OBVIOUS
    <3> QED BY ONLY <3>1, <3>2 DEF Launches
  <2>4. UNCHANGED <<role, has, locks, cleanup, windows, primary, ended, disk, item>>
    OBVIOUS
  <2> QED BY <2>1, <2>2, <2>3, <2>4 DEF RestTypes
<1>4. Built'
  BY DEF RestTypes, Games, Launches, Built
<1>5. Owned'
  BY DEF RestTypes, Games, Launches, Built, Owned, Unnamed
<1>6. Told'
  BY DEF RestTypes, Games, Verdicts, Built, Told, Noted, Silent, Readable, Stored, CleanupPassed,
     WritersClosed, playVars
<1> QED BY <1>2, <1>3, <1>4, <1>5, <1>6

(* The runtime opens its recorder.                                         *)
LEMMA InitializeKeeps == ASSUME SessionInv, Initialize PROVE SessionInv'
<1> USE DEF Initialize, Launching
<1>1. \E stage \in Mishaps : Well \/ Fault(stage)
  BY DEF Mishaps, Raises
<1>2. GhostTypes'
  BY <1>1, GhostsTyped DEF SessionInv
<1> USE DEF SessionInv, SessionTypes, Well, Fault, Raises
<1>3. RestTypes'
  <2>1. at' \in Places
    OBVIOUS
  <2>2. game' \in Games
    BY DEF RestTypes, Games
  <2>3. UNCHANGED <<role, launch, has, locks, cleanup, windows, primary, ended, disk, item>>
    OBVIOUS
  <2> QED BY <2>1, <2>2, <2>3 DEF RestTypes
<1>4. Built'
  BY DEF RestTypes, Games, Launches, Built
<1>5. Owned'
  BY DEF RestTypes, Games, Launches, Built, Owned, Unnamed
<1>6. Told'
  BY DEF RestTypes, Games, Verdicts, Built, Told, Noted, Silent, Readable, Stored, CleanupPassed,
     WritersClosed, playVars
<1> QED BY <1>2, <1>3, <1>4, <1>5, <1>6

(* A launch is ready only when it was verified.                            *)
LEMMA VerifyKeeps == ASSUME SessionInv, VerifyLaunch PROVE SessionInv'
<1> USE DEF VerifyLaunch, Launching
<1>1. \E stage \in Mishaps : Well \/ Fault(stage)
  BY DEF Mishaps, Raises
<1>2. GhostTypes'
  BY <1>1, GhostsTyped DEF SessionInv
<1> USE DEF SessionInv, SessionTypes, Well, Fault, Raises
<1>3. RestTypes'
  <2>1. at' \in Places
    OBVIOUS
  <2>2. launch' \in Launches
    BY DEF RestTypes, Launches
  <2>3. UNCHANGED <<role, game, has, locks, cleanup, windows, primary, ended, disk, item>>
    OBVIOUS
  <2> QED BY <2>1, <2>2, <2>3 DEF RestTypes
<1>4. Built'
  BY DEF RestTypes, Games, Launches, Built
<1>5. Owned'
  BY DEF RestTypes, Games, Launches, Built, Owned, Unnamed
<1>6. Told'
  BY DEF RestTypes, Games, Verdicts, Built, Told, Noted, Silent, Readable, Stored, CleanupPassed,
     WritersClosed, playVars
<1> QED BY <1>2, <1>3, <1>4, <1>5, <1>6

(* A failed launch stops what its receipt names, or notes that it could    *)
(* not; what nothing names is left.                                        *)
LEMMA StartFailedKeeps == ASSUME SessionInv, StartFailed PROVE SessionInv'
<1> USE DEF StartFailed, Recovered
<1>1. \E stage \in Mishaps : Well \/ Fault(stage)
  BY DEF Mishaps, Raises
<1>2. GhostTypes'
  BY <1>1, GhostsTyped DEF SessionInv
<1> USE DEF SessionInv, SessionTypes, Well, Fault, Raises
<1>3. RestTypes'
  <2>1. at' \in Places
    OBVIOUS
  <2>2. game' \in Games
    BY DEF RestTypes, Games
  <2>3. primary' \in BOOLEAN
    BY DEF RestTypes
  <2>4. UNCHANGED <<role, launch, has, locks, cleanup, windows, ended, disk, item>>
    OBVIOUS
  <2> QED BY <2>1, <2>2, <2>3, <2>4 DEF RestTypes
<1>4. Built'
  BY DEF RestTypes, Games, Launches, Built
<1>5. Owned'
  BY DEF RestTypes, Games, Launches, Built, Owned, Unnamed
<1>6. Told'
  BY DEF RestTypes, Games, Verdicts, Built, Told, Noted, Silent, Readable, Stored, CleanupPassed,
     WritersClosed, playVars
<1> QED BY <1>2, <1>3, <1>4, <1>5, <1>6

(* From here on the process is the session's.                              *)
LEMMA BindPidKeeps == ASSUME SessionInv, BindPid PROVE SessionInv'
<1> USE DEF BindPid
<1>1. \E stage \in Mishaps : Well \/ Fault(stage)
  BY DEF Mishaps, Raises
<1>2. GhostTypes'
  BY <1>1, GhostsTyped DEF SessionInv
<1> USE DEF SessionInv, SessionTypes, Well, Fault, Raises
<1>3. RestTypes'
  <2>1. at' \in Places
    OBVIOUS
  <2>2. has' \subseteq Things
    BY DEF RestTypes, Things
  <2>3. primary' \in BOOLEAN
    BY DEF RestTypes
  <2>4. UNCHANGED <<role, game, launch, locks, cleanup, windows, ended, disk, item>>
    OBVIOUS
  <2> QED BY <2>1, <2>2, <2>3, <2>4 DEF RestTypes
<1>4. Built'
  BY DEF RestTypes, Games, Launches, Built
<1>5. Owned'
  BY DEF RestTypes, Games, Launches, Built, Owned, Unnamed
<1>6. Told'
  BY DEF RestTypes, Games, Verdicts, Built, Told, Noted, Silent, Readable, Stored, CleanupPassed,
     WritersClosed, playVars
<1> QED BY <1>2, <1>3, <1>4, <1>5, <1>6

(* The launch's observer leaves its verdict.                               *)
LEMMA LeaveLaunchKeeps == ASSUME SessionInv, LeaveLaunch PROVE SessionInv'
<1> USE DEF LeaveLaunch, LeaveObserver
<1>1. \E stage \in Mishaps : Well \/ Fault(stage)
  BY DEF Mishaps, Raises
<1>2. GhostTypes'
  BY <1>1, GhostsTyped DEF SessionInv
<1> USE DEF SessionInv, SessionTypes, Well, Fault, Raises
<1>3. RestTypes'
  <2>1. at' \in Places
    OBVIOUS
  <2>2. locks' \subseteq {"trace", "observer"}
    <3>1. locks' \in {locks, locks \cup {"observer"}, locks \ {"observer"}}
      OBVIOUS
    <3> QED BY <3>1 DEF RestTypes
  <2>3. windows' \in Verdicts
    BY DEF RestTypes, Verdicts
  <2>4. UNCHANGED <<role, game, launch, has, cleanup, primary, ended, disk, item>>
    OBVIOUS
  <2> QED BY <2>1, <2>2, <2>3, <2>4 DEF RestTypes
<1>4. Built'
  BY DEF RestTypes, Games, Launches, Built
<1>5. Owned'
  BY DEF RestTypes, Games, Launches, Built, Owned, Unnamed
<1>6. Told'
  BY DEF RestTypes, Games, Verdicts, Built, Told, Noted, Silent, Readable, Stored, CleanupPassed,
     WritersClosed, playVars
<1> QED BY <1>2, <1>3, <1>4, <1>5, <1>6

(* Only a set-up without an exception goes on to the runtime.              *)
LEMMA KeepWindowsKeeps == ASSUME SessionInv, KeepWindows PROVE SessionInv'
<1> USE DEF KeepWindows, Retain
<1>1. \E stage \in Mishaps : Well \/ Fault(stage)
  BY DEF Mishaps, Raises
<1>2. GhostTypes'
  BY <1>1, GhostsTyped DEF SessionInv
<1> USE DEF SessionInv, SessionTypes, Well, Fault, Raises
<1>3. RestTypes'
  <2>1. at' \in Places
    OBVIOUS
  <2>2. UNCHANGED <<role, game, launch, has, locks, cleanup, windows, primary, ended, disk, item>>
    OBVIOUS
  <2> QED BY <2>1, <2>2 DEF RestTypes
<1>4. Built'
  BY DEF RestTypes, Games, Launches, Built
<1>5. Owned'
  BY DEF RestTypes, Games, Launches, Built, Owned, Unnamed
<1>6. Told'
  BY DEF RestTypes, Games, Verdicts, Built, Told, Noted, Silent, Readable, Stored, CleanupPassed,
     WritersClosed, playVars
<1> QED BY <1>2, <1>3, <1>4, <1>5, <1>6

(* The runtime's window observer.                                          *)
LEMMA EnterRuntimeKeeps == ASSUME SessionInv, EnterRuntime PROVE SessionInv'
<1> USE DEF EnterRuntime
<1>1. \E stage \in Mishaps : Well \/ Fault(stage)
  BY DEF Mishaps, Raises
<1>2. GhostTypes'
  BY <1>1, GhostsTyped DEF SessionInv
<1> USE DEF SessionInv, SessionTypes, Well, Fault, Raises
<1>3. RestTypes'
  <2>1. at' \in Places
    OBVIOUS
  <2>2. has' \subseteq Things
    BY DEF RestTypes, Things
  <2>3. locks' \subseteq {"trace", "observer"}
    <3>1. locks' \in {locks, locks \cup {"observer"}, locks \ {"observer"}}
      OBVIOUS
    <3> QED BY <3>1 DEF RestTypes
  <2>4. primary' \in BOOLEAN
    BY DEF RestTypes
  <2>5. UNCHANGED <<role, game, launch, cleanup, windows, ended, disk, item>>
    OBVIOUS
  <2> QED BY <2>1, <2>2, <2>3, <2>4, <2>5 DEF RestTypes
<1>4. Built'
  BY DEF RestTypes, Games, Launches, Built
<1>5. Owned'
  BY DEF RestTypes, Games, Launches, Built, Owned, Unnamed
<1>6. Told'
  BY DEF RestTypes, Games, Verdicts, Built, Told, Noted, Silent, Readable, Stored, CleanupPassed,
     WritersClosed, playVars
<1> QED BY <1>2, <1>3, <1>4, <1>5, <1>6

----------------------------------------------------------------------------
(* The session: the body and the finally block. *)

(* A step of the source run is no step of the session.                     *)
LEMMA PlayBodyKeeps == ASSUME SessionInv, PlayBody PROVE SessionInv'
<1> USE DEF PlayBody, sessionVars
<1>2. GhostTypes'
  BY DEF SessionInv, SessionTypes, GhostTypes
<1> USE DEF SessionInv, SessionTypes, Well, Fault, Raises
<1>3. RestTypes'
  <2>1. UNCHANGED <<role, game, launch, at, has, locks, cleanup, windows, primary, ended, disk, item>>
    OBVIOUS
  <2> QED BY <2>1 DEF RestTypes
<1>4. Built'
  BY DEF RestTypes, Games, Launches, Built
<1>5. Owned'
  BY DEF RestTypes, Games, Launches, Built, Owned, Unnamed
<1>6. Told'
  BY DEF RestTypes, Games, Verdicts, Built, Told, Noted, Silent, Readable, Stored, CleanupPassed,
     WritersClosed, playVars
<1> QED BY <1>2, <1>3, <1>4, <1>5, <1>6

(* The body ends, or leaves an exception.                                  *)
LEMMA BodyEndsKeeps == ASSUME SessionInv, BodyEnds PROVE SessionInv'
<1> USE DEF BodyEnds
<1>1. "body" \in Mishaps
  BY DEF Mishaps
<1>2. GhostTypes'
  <2>1. CASE Well \/ Fault("body")
    BY <1>1, <2>1, GhostsTyped DEF SessionInv
  <2>2. CASE mishaps' = mishaps \cup {"body"} /\ UNCHANGED faults
    BY <1>1, <2>2 DEF SessionInv, SessionTypes, GhostTypes
  <2> QED BY <2>1, <2>2
<1> USE DEF SessionInv, SessionTypes, Well, Fault, Raises
<1>3. RestTypes'
  <2>1. at' \in Places
    OBVIOUS
  <2>2. primary' \in BOOLEAN
    BY DEF RestTypes
  <2>3. ended' \in BOOLEAN
    BY DEF RestTypes
  <2>4. UNCHANGED <<role, game, launch, has, locks, cleanup, windows, disk, item>>
    OBVIOUS
  <2> QED BY <2>1, <2>2, <2>3, <2>4 DEF RestTypes
<1>4. Built'
  BY DEF RestTypes, Games, Launches, Built
<1>5. Owned'
  BY DEF RestTypes, Games, Launches, Built, Owned, Unnamed
<1>6. Told'
  BY DEF RestTypes, Games, Verdicts, Built, Told, Noted, Silent, Readable, Stored, CleanupPassed,
     WritersClosed, playVars
<1> QED BY <1>2, <1>3, <1>4, <1>5, <1>6

(* A game that dies early leaves a recording that cannot be closed.        *)
LEMMA GameDiesKeeps == ASSUME SessionInv, GameDies PROVE SessionInv'
<1> USE DEF GameDies
<1>1. \E stage \in Mishaps : Well \/ Fault(stage)
  BY DEF Mishaps, Raises
<1>2. GhostTypes'
  BY <1>1, GhostsTyped DEF SessionInv
<1> USE DEF SessionInv, SessionTypes, Well, Fault, Raises
<1>3. RestTypes'
  <2>1. game' \in Games
    BY DEF RestTypes, Games
  <2>2. UNCHANGED <<role, launch, at, has, locks, cleanup, windows, primary, ended, disk, item>>
    OBVIOUS
  <2> QED BY <2>1, <2>2 DEF RestTypes
<1>4. Built'
  BY DEF RestTypes, Games, Launches, Built
<1>5. Owned'
  BY DEF RestTypes, Games, Launches, Built, Owned, Unnamed
<1>6. Told'
  BY DEF RestTypes, Games, Verdicts, Built, Told, Noted, Silent, Readable, Stored, CleanupPassed,
     WritersClosed, playVars
<1> QED BY <1>2, <1>3, <1>4, <1>5, <1>6

(* The finally block, stage by stage: each notes its own failure.          *)
LEMMA PrimaryWriteKeeps == ASSUME SessionInv, PrimaryWrite PROVE SessionInv'
<1> USE DEF PrimaryWrite, Final, Outside, Retain
<1>1. \E stage \in Mishaps : Well \/ Fault(stage)
  BY DEF Mishaps, Raises
<1>2. GhostTypes'
  BY <1>1, GhostsTyped DEF SessionInv
<1> USE DEF SessionInv, SessionTypes, Well, Fault, Raises
<1>3. RestTypes'
  <2>1. at' \in Places
    OBVIOUS
  <2>2. UNCHANGED <<role, game, launch, has, locks, cleanup, windows, primary, ended, disk, item>>
    OBVIOUS
  <2> QED BY <2>1, <2>2 DEF RestTypes
<1>4. Built'
  BY DEF RestTypes, Games, Launches, Built
<1>5. Owned'
  BY DEF RestTypes, Games, Launches, Built, Owned, Unnamed
<1>6. Told'
  BY DEF RestTypes, Games, Verdicts, Built, Told, Noted, Silent, Readable, Stored, CleanupPassed,
     WritersClosed, playVars
<1> QED BY <1>2, <1>3, <1>4, <1>5, <1>6

(* A recording is closed only by a game that answers.                      *)
LEMMA CloseRecordingKeeps == ASSUME SessionInv, CloseRecording PROVE SessionInv'
<1> USE DEF CloseRecording, Final, Outside, Closes
<1>1. \E stage \in Mishaps : Well \/ Fault(stage)
  BY DEF Mishaps, Raises
<1>2. GhostTypes'
  BY <1>1, GhostsTyped DEF SessionInv
<1> USE DEF SessionInv, SessionTypes, Well, Fault, Raises
<1>3. RestTypes'
  <2>1. at' \in Places
    OBVIOUS
  <2>2. game' \in Games
    BY DEF RestTypes, Games
  <2>3. cleanup' \subseteq Closings
    BY DEF RestTypes, Closings
  <2>4. UNCHANGED <<role, launch, has, locks, windows, primary, ended, disk, item>>
    OBVIOUS
  <2> QED BY <2>1, <2>2, <2>3, <2>4 DEF RestTypes
<1>4. Built'
  BY DEF RestTypes, Games, Launches, Built
<1>5. Owned'
  BY DEF RestTypes, Games, Launches, Built, Owned, Unnamed
<1>6. Told'
  BY DEF RestTypes, Games, Verdicts, Built, Told, Noted, Silent, Readable, Stored, CleanupPassed,
     WritersClosed, playVars
<1> QED BY <1>2, <1>3, <1>4, <1>5, <1>6

(* The client.                                                             *)
LEMMA CloseClientKeeps == ASSUME SessionInv, CloseClient PROVE SessionInv'
<1> USE DEF CloseClient, Final, Outside, Closes
<1>1. \E stage \in Mishaps : Well \/ Fault(stage)
  BY DEF Mishaps, Raises
<1>2. GhostTypes'
  BY <1>1, GhostsTyped DEF SessionInv
<1> USE DEF SessionInv, SessionTypes, Well, Fault, Raises
<1>3. RestTypes'
  <2>1. at' \in Places
    OBVIOUS
  <2>2. cleanup' \subseteq Closings
    BY DEF RestTypes, Closings
  <2>3. UNCHANGED <<role, game, launch, has, locks, windows, primary, ended, disk, item>>
    OBVIOUS
  <2> QED BY <2>1, <2>2, <2>3 DEF RestTypes
<1>4. Built'
  BY DEF RestTypes, Games, Launches, Built
<1>5. Owned'
  BY DEF RestTypes, Games, Launches, Built, Owned, Unnamed
<1>6. Told'
  BY DEF RestTypes, Games, Verdicts, Built, Told, Noted, Silent, Readable, Stored, CleanupPassed,
     WritersClosed, playVars
<1> QED BY <1>2, <1>3, <1>4, <1>5, <1>6

(* The runtime's observer leaves its verdict, or an error.                 *)
LEMMA LeaveRuntimeKeeps == ASSUME SessionInv, LeaveRuntime PROVE SessionInv'
<1> USE DEF LeaveRuntime, Final, Outside, LeaveObserver
<1>1. \E stage \in Mishaps : Well \/ Fault(stage)
  BY DEF Mishaps, Raises
<1>2. GhostTypes'
  BY <1>1, GhostsTyped DEF SessionInv
<1> USE DEF SessionInv, SessionTypes, Well, Fault, Raises
<1>3. RestTypes'
  <2>1. at' \in Places
    OBVIOUS
  <2>2. locks' \subseteq {"trace", "observer"}
    <3>1. locks' \in {locks, locks \cup {"observer"}, locks \ {"observer"}}
      OBVIOUS
    <3> QED BY <3>1 DEF RestTypes
  <2>3. windows' \in Verdicts
    BY DEF RestTypes, Verdicts
  <2>4. UNCHANGED <<role, game, launch, has, cleanup, primary, ended, disk, item>>
    OBVIOUS
  <2> QED BY <2>1, <2>2, <2>3, <2>4 DEF RestTypes
<1>4. Built'
  BY DEF RestTypes, Games, Launches, Built
<1>5. Owned'
  BY DEF RestTypes, Games, Launches, Built, Owned, Unnamed
<1>6. Told'
  BY DEF RestTypes, Games, Verdicts, Built, Told, Noted, Silent, Readable, Stored, CleanupPassed,
     WritersClosed, playVars
<1> QED BY <1>2, <1>3, <1>4, <1>5, <1>6

(* The trace gives its lock back.                                          *)
LEMMA CloseTraceKeeps == ASSUME SessionInv, CloseTrace PROVE SessionInv'
<1> USE DEF CloseTrace, Final, Outside, Closes
<1>1. \E stage \in Mishaps : Well \/ Fault(stage)
  BY DEF Mishaps, Raises
<1>2. GhostTypes'
  BY <1>1, GhostsTyped DEF SessionInv
<1> USE DEF SessionInv, SessionTypes, Well, Fault, Raises
<1>3. RestTypes'
  <2>1. at' \in Places
    OBVIOUS
  <2>2. locks' \subseteq {"trace", "observer"}
    BY DEF RestTypes
  <2>3. cleanup' \subseteq Closings
    BY DEF RestTypes, Closings
  <2>4. UNCHANGED <<role, game, launch, has, windows, primary, ended, disk, item>>
    OBVIOUS
  <2> QED BY <2>1, <2>2, <2>3, <2>4 DEF RestTypes
<1>4. Built'
  BY DEF RestTypes, Games, Launches, Built
<1>5. Owned'
  BY DEF RestTypes, Games, Launches, Built, Owned, Unnamed
<1>6. Told'
  BY DEF RestTypes, Games, Verdicts, Built, Told, Noted, Silent, Readable, Stored, CleanupPassed,
     WritersClosed, playVars
<1> QED BY <1>2, <1>3, <1>4, <1>5, <1>6

(* The process is gone, or stopping it has failed.                         *)
LEMMA StopGameKeeps == ASSUME SessionInv, StopGame PROVE SessionInv'
<1> USE DEF StopGame, Final, Outside, Closes
<1>1. \E stage \in Mishaps : Well \/ Fault(stage)
  BY DEF Mishaps, Raises
<1>2. GhostTypes'
  BY <1>1, GhostsTyped DEF SessionInv
<1> USE DEF SessionInv, SessionTypes, Well, Fault, Raises
<1>3. RestTypes'
  <2>1. at' \in Places
    OBVIOUS
  <2>2. game' \in Games
    BY DEF RestTypes, Games
  <2>3. cleanup' \subseteq Closings
    BY DEF RestTypes, Closings
  <2>4. UNCHANGED <<role, launch, has, locks, windows, primary, ended, disk, item>>
    OBVIOUS
  <2> QED BY <2>1, <2>2, <2>3, <2>4 DEF RestTypes
<1>4. Built'
  BY DEF RestTypes, Games, Launches, Built
<1>5. Owned'
  BY DEF RestTypes, Games, Launches, Built, Owned, Unnamed
<1>6. Told'
  BY DEF RestTypes, Games, Verdicts, Built, Told, Noted, Silent, Readable, Stored, CleanupPassed,
     WritersClosed, playVars
<1> QED BY <1>2, <1>3, <1>4, <1>5, <1>6

(* A host that changed leaves no receipt.                                  *)
LEMMA HostIdentityKeeps == ASSUME SessionInv, HostIdentity PROVE SessionInv'
<1> USE DEF HostIdentity, Final, Outside
<1>1. \E stage \in Mishaps : Well \/ Fault(stage)
  BY DEF Mishaps, Raises
<1>2. GhostTypes'
  BY <1>1, GhostsTyped DEF SessionInv
<1> USE DEF SessionInv, SessionTypes, Well, Fault, Raises
<1>3. RestTypes'
  <2>1. at' \in Places
    OBVIOUS
  <2>2. disk' \subseteq {"hosts", "cleanup", "sealed"}
    BY DEF RestTypes
  <2>3. UNCHANGED <<role, game, launch, has, locks, cleanup, windows, primary, ended, item>>
    OBVIOUS
  <2> QED BY <2>1, <2>2, <2>3 DEF RestTypes
<1>4. Built'
  BY DEF RestTypes, Games, Launches, Built
<1>5. Owned'
  BY DEF RestTypes, Games, Launches, Built, Owned, Unnamed
<1>6. Told'
  BY DEF RestTypes, Games, Verdicts, Built, Told, Noted, Silent, Readable, Stored, CleanupPassed,
     WritersClosed, playVars
<1> QED BY <1>2, <1>3, <1>4, <1>5, <1>6

(* The cleanup receipt.                                                    *)
LEMMA CleanupWriteKeeps == ASSUME SessionInv, CleanupWrite PROVE SessionInv'
<1> USE DEF CleanupWrite, Final, Outside
<1>1. \E stage \in Mishaps : Well \/ Fault(stage)
  BY DEF Mishaps, Raises
<1>2. GhostTypes'
  BY <1>1, GhostsTyped DEF SessionInv
<1> USE DEF SessionInv, SessionTypes, Well, Fault, Raises
<1>3. RestTypes'
  <2>1. at' \in Places
    OBVIOUS
  <2>2. disk' \subseteq {"hosts", "cleanup", "sealed"}
    BY DEF RestTypes
  <2>3. UNCHANGED <<role, game, launch, has, locks, cleanup, windows, primary, ended, item>>
    OBVIOUS
  <2> QED BY <2>1, <2>2, <2>3 DEF RestTypes
<1>4. Built'
  BY DEF RestTypes, Games, Launches, Built
<1>5. Owned'
  BY DEF RestTypes, Games, Launches, Built, Owned, Unnamed
<1>6. Told'
  BY DEF RestTypes, Games, Verdicts, Built, Told, Noted, Silent, Readable, Stored, CleanupPassed,
     WritersClosed, playVars
<1> QED BY <1>2, <1>3, <1>4, <1>5, <1>6

----------------------------------------------------------------------------
(* The session: what is kept of it. *)

(* Only a run whose writers are closed is compressed.                      *)
LEMMA BeginRetentionKeeps == ASSUME SessionInv, BeginRetention PROVE SessionInv'
<1> USE DEF BeginRetention, Retaining
<1>1. \E stage \in Mishaps : Well \/ Fault(stage)
  BY DEF Mishaps, Raises
<1>2. GhostTypes'
  BY <1>1, GhostsTyped DEF SessionInv
<1> USE DEF SessionInv, SessionTypes, Well, Fault, Raises
<1>3. RestTypes'
  <2>1. at' \in Places
    OBVIOUS
  <2>2. item' \in Items
    <3>1. item \in Items
      BY DEF RestTypes
    <3>2. \/ item' = item
          \/ item' = [item EXCEPT !.secondary = @ \cup {"read_cleanup"}]
      BY <3>1 DEF Items
    <3> QED BY ONLY <3>1, <3>2 DEF Items, Secondaries
  <2>3. UNCHANGED <<role, game, launch, has, locks, cleanup, windows, primary, ended, disk>>
    OBVIOUS
  <2> QED BY <2>1, <2>2, <2>3 DEF RestTypes
<1>4. Built'
  BY DEF RestTypes, Games, Launches, Built
<1>5. Owned'
  BY DEF RestTypes, Games, Launches, Items, Built, Owned, Unnamed
<1>6. Told'
  BY DEF RestTypes, Games, Verdicts, Items, Built, Told, Noted, Silent, Readable, Stored, CleanupPassed,
     WritersClosed, playVars
<1> QED BY <1>2, <1>3, <1>4, <1>5, <1>6

(* A step of the compression.                                              *)
LEMMA CompressKeeps == ASSUME SessionInv, CompressAudit PROVE SessionInv'
<1> USE DEF CompressAudit, Retaining
<1>1. \E stage \in Mishaps : Well \/ Fault(stage)
  BY DEF Mishaps, Raises
<1>2. GhostTypes'
  BY <1>1, GhostsTyped DEF SessionInv
<1> USE DEF SessionInv, SessionTypes, Well, Fault, Raises
<1>3. RestTypes'
  <2>1. UNCHANGED <<role, game, launch, at, has, locks, cleanup, windows, primary, ended, disk, item>>
    OBVIOUS
  <2> QED BY <2>1 DEF RestTypes
<1>4. Built'
  BY DEF RestTypes, Games, Launches, Built
<1>5. Owned'
  BY DEF RestTypes, Games, Launches, Items, Built, Owned, Unnamed
<1>6. Told'
  BY DEF RestTypes, Games, Verdicts, Items, Built, Told, Noted, Silent, Readable, Stored, CleanupPassed,
     WritersClosed, playVars
<1> QED BY <1>2, <1>3, <1>4, <1>5, <1>6

(* A trajectory is built from a readable audit.                            *)
LEMMA PackageRunKeeps == ASSUME SessionInv, PackageRun PROVE SessionInv'
<1> USE DEF PackageRun, Retaining, Package
<1>1. \E stage \in Mishaps : Well \/ Fault(stage)
  BY DEF Mishaps, Raises
<1>2. GhostTypes'
  BY <1>1, GhostsTyped DEF SessionInv
<1> USE DEF SessionInv, SessionTypes, Well, Fault, Raises
<1>3. RestTypes'
  <2>1. at' \in Places
    OBVIOUS
  <2>2. item' \in Items
    <3>1. item \in Items
      BY DEF RestTypes
    <3>2. \/ item' = item
          \/ item' = [item EXCEPT !.trajectory = TRUE]
          \/ item' = [item EXCEPT !.secondary = @ \cup {"strict_packaging"}]
      BY <3>1 DEF Items
    <3> QED BY ONLY <3>1, <3>2 DEF Items, Secondaries
  <2>3. UNCHANGED <<role, game, launch, has, locks, cleanup, windows, primary, ended, disk>>
    OBVIOUS
  <2> QED BY <2>1, <2>2, <2>3 DEF RestTypes
<1>4. Built'
  BY DEF RestTypes, Games, Launches, Built
<1>5. Owned'
  BY DEF RestTypes, Games, Launches, Items, Built, Owned, Unnamed
<1>6. Told'
  BY DEF RestTypes, Games, Verdicts, Items, Built, Told, Noted, Silent, Readable, Stored, CleanupPassed,
     WritersClosed, playVars
<1> QED BY <1>2, <1>3, <1>4, <1>5, <1>6

(* Only a finishable run is sealed.                                        *)
LEMMA SealRunKeeps == ASSUME SessionInv, SealRun PROVE SessionInv'
<1> USE DEF SealRun, Retaining, Finishable
<1>1. \E stage \in Mishaps : Well \/ Fault(stage)
  BY DEF Mishaps, Raises
<1>2. GhostTypes'
  BY <1>1, GhostsTyped DEF SessionInv
<1> USE DEF SessionInv, SessionTypes, Well, Fault, Raises
<1>3. RestTypes'
  <2>1. at' \in Places
    OBVIOUS
  <2>2. disk' \subseteq {"hosts", "cleanup", "sealed"}
    BY DEF RestTypes
  <2>3. item' \in Items
    <3>1. item \in Items
      BY DEF RestTypes
    <3>2. \/ item' = item
          \/ item' = [item EXCEPT !.sealed = TRUE]
          \/ item' = [item EXCEPT !.secondary = @ \cup {"seal_archive"}]
      BY <3>1 DEF Items
    <3> QED BY ONLY <3>1, <3>2 DEF Items, Secondaries
  <2>4. UNCHANGED <<role, game, launch, has, locks, cleanup, windows, primary, ended>>
    OBVIOUS
  <2> QED BY <2>1, <2>2, <2>3, <2>4 DEF RestTypes
<1>4. Built'
  BY DEF RestTypes, Games, Launches, Built
<1>5. Owned'
  BY DEF RestTypes, Games, Launches, Items, WritersClosed, Closings, Built, Owned, Unnamed
<1>6. Told'
  BY DEF RestTypes, Games, Verdicts, Items, Built, Told, Noted, Silent, Readable, Stored, CleanupPassed,
     WritersClosed, playVars
<1> QED BY <1>2, <1>3, <1>4, <1>5, <1>6

(* The verdict: it passes only what shows no mishap.                       *)
LEMMA JudgeKeeps == ASSUME SessionInv, Judge PROVE SessionInv'
<1> USE DEF Judge, Retaining, Components, PassedRecording, RuntimeFailed, ResourcesKept, Package
<1>1. \E stage \in Mishaps : Well \/ Fault(stage)
  BY DEF Mishaps, Raises
<1>2. GhostTypes'
  BY <1>1, GhostsTyped DEF SessionInv
<1> USE DEF SessionInv, SessionTypes, Well, Fault, Raises
<1>3. RestTypes'
  <2>1. at' \in Places
    OBVIOUS
  <2>2. item' \in Items
    <3>1. item \in Items
      BY DEF RestTypes
    <3>2. PICK f, p : /\ item' = [item EXCEPT !.failures = f, !.passed = p]
                     /\ f \subseteq Judged /\ p \in BOOLEAN
      BY DEF Judged
    <3> QED BY ONLY <3>1, <3>2 DEF Items
  <2>3. UNCHANGED <<role, game, launch, has, locks, cleanup, windows, primary, ended, disk>>
    OBVIOUS
  <2> QED BY <2>1, <2>2, <2>3 DEF RestTypes
<1>4. Built'
  BY DEF RestTypes, Games, Launches, Built
<1>5. Owned'
  BY DEF RestTypes, Games, Launches, Items, Built, Owned, Unnamed
<1>6. Told'
  <2>1. /\ item'.sealed = item.sealed /\ item'.trajectory = item.trajectory
        /\ item'.secondary = item.secondary
        /\ item'.passed => ended /\ ~primary /\ (\A k \in DOMAIN Components : Components[k])
                           /\ (Package => item.trajectory)
    BY DEF RestTypes, Items
  <2>2. (\A k \in DOMAIN Components : Components[k]) =>
            /\ CleanupPassed /\ item.sealed /\ item.secondary = {}
            /\ windows.launch = "pass" /\ windows.runtime = "pass" /\ "hosts" \in disk
            /\ role = "source" => budget.stop = "none"
    OBVIOUS
  <2>3. /\ (CleanupPassed' <=> CleanupPassed) /\ (Readable' <=> Readable)
        /\ UNCHANGED <<primary, errors, windows, disk, budget, role, mishaps, game, has>>
        /\ at' = "done" /\ at = "judge"
    BY DEF CleanupPassed, WritersClosed, Readable, Stored, playVars
  <2> QED BY <2>1, <2>2, <2>3 DEF Told, Noted, Silent
<1> QED BY <1>2, <1>3, <1>4, <1>5, <1>6

(* Whatever leaves the source run alone keeps what is said of it.          *)
LEMMA PlayStays ==
    ASSUME PlayInv, PausesInv, UNCHANGED playVars
    PROVE  PlayInv' /\ PausesInv'
<1>1. UNCHANGED <<plan, obs, play, fired, budget, pauses, sent>>
  BY DEF playVars
<1>2. PlayInv'
  BY <1>1 DEF PlayInv, PlayTypes, Intervened, Intervening, Declared
<1>3. PausesInv'
  BY <1>1 DEF PausesInv, Ahead
<1> QED BY <1>2, <1>3

HIDE DEF Setup, Starting, Leaving, Living, Finals, Retention, Places, Unstarted, Goes, Has, RestOfSession

(* What is said of a session that passed follows from where each mishap    *)
(* shows: one that shows nowhere is a failed compression.                  *)
LEMMA SessionTold == CodecInv /\ PlayInv /\ SessionInv => NothingSwallowed
<1> SUFFICES ASSUME CodecInv, PlayInv, SessionInv PROVE NothingSwallowed
  OBVIOUS
<1>1. PlayType
  BY DEF PlayInv, PlayTypes, PlayStates, Phases, Stops, Ends, PlayType
<1>2. SessionType
  BY <1>1 DEF CodecInv, CodecStates, CodecSteps, SessionInv, SessionTypes, RestTypes, GhostTypes, Built,
              Games, Launches, Things, SessionType
<1>3. ASSUME item.passed
      PROVE  /\ mishaps \subseteq {"compression"} /\ errors = {} /\ ~primary
             /\ cleanup = Closings /\ "sealed" \in disk
             /\ windows.launch = "pass" /\ windows.runtime = "pass"
             /\ role = "source" => Readable /\ budget.stop = "none"
  <2>1. /\ at = "done" /\ ~primary /\ errors = {} /\ cleanup = Closings
        /\ item.sealed /\ item.secondary = {} /\ "hosts" \in disk
        /\ windows.launch = "pass" /\ windows.runtime = "pass"
        /\ role = "source" => item.trajectory /\ budget.stop = "none"
    BY <1>3 DEF SessionInv, Told, CleanupPassed, WritersClosed
  <2>2. "sealed" \in disk
    BY <2>1 DEF SessionInv, Owned
  <2>3. item.trajectory => Readable
    BY DEF SessionInv, Told
  <2>4. /\ mishaps \subseteq Silent /\ "launch" \notin mishaps /\ "windows" \notin mishaps
        /\ "game" \notin mishaps /\ "host_changed" \notin mishaps /\ "packaging" \notin mishaps
        /\ "seal" \notin mishaps /\ "helper" \notin mishaps
    BY <2>1 DEF SessionInv, Told, Noted
  <2>5. mishaps \subseteq {"compression"}
    BY <2>4 DEF Silent
  <2> QED BY <2>1, <2>2, <2>3, <2>5
<1> QED BY <1>2, <1>3 DEF NothingSwallowed

(* And of its processes.                                                   *)
LEMMA OwnershipTold == SessionInv => ProcessesOwned
<1> SUFFICES ASSUME SessionInv PROVE ProcessesOwned
  OBVIOUS
<1>1. ASSUME "sealed" \in disk PROVE game = [proc |-> "dead", rec |-> "closed"] /\ locks = {}
  <2>1. game.proc = "dead" /\ game.rec = "closed" /\ locks = {}
    BY <1>1 DEF SessionInv, Owned
  <2> QED BY <2>1 DEF SessionInv, SessionTypes, RestTypes, Games
<1>2. at = "done" /\ game.proc = "running" => "stop" \in mishaps \/ Unnamed
  BY DEF SessionInv, Owned, Starting, Leaving, Living, Finals
<1> QED BY <1>1, <1>2 DEF ProcessesOwned

----------------------------------------------------------------------------
(* The theorems. *)

LiveInv == CodecInv /\ PlayInv /\ PausesInv /\ SessionInv

(* A session starts in the inductive invariant.                            *)
LEMMA LiveStarts == Init => LiveInv
BY CodecStarts, PlayStarts, PausesStart, SessionStarts DEF LiveInv, Init

(* And every step keeps it.                                                *)
LEMMA LiveSteps == LiveInv /\ [Next]_vars => LiveInv'
<1> SUFFICES ASSUME LiveInv, [Next]_vars PROVE LiveInv'
  OBVIOUS
<1> USE DEF LiveInv
<1>1. CASE PlayBody
  <2>1. PlayStep /\ UNCHANGED codec
    BY <1>1 DEF PlayBody
  <2>2. PlayInv' /\ PausesInv'
    BY <2>1, PlaySteps, PausesKept
  <2> QED BY <1>1, <2>1, <2>2, PlayBodyKeeps DEF CodecInv
<1>2. CASE CompressAudit
  <2>1. (Compress \/ CompressFails) /\ UNCHANGED playVars
    BY <1>2 DEF CompressAudit, Retaining
  <2>2. CodecInv'
    BY <2>1, CodecKeeps
  <2> QED BY <1>2, <2>1, <2>2, CompressKeeps, PlayStays
<1>3. CASE (Step \/ GameDies) /\ ~PlayBody /\ ~CompressAudit
  <2>1. UNCHANGED <<playVars, codec>>
    BY <1>3 DEF Step, GameDies, DiskCheck, CreateRun, Connect, Stage, OpenTrace, HostSources, EnterObserver,
       Prepare, NativeLaunch, Initialize, VerifyLaunch, Launching, StartFailed, BindPid, LeaveLaunch,
       KeepWindows, EnterRuntime, BodyEnds, PrimaryWrite, CloseRecording, CloseClient, LeaveRuntime,
       CloseTrace, StopGame, HostIdentity, CleanupWrite, Final, Outside, RestOfSession,
       BeginRetention, PackageRun, SealRun, Judge, Retaining
  <2>2. SessionInv'
    BY <1>3, StageKeeps, OpenTraceKeeps, HostSourcesKeeps, EnterObserverKeeps, PrepareKeeps, NativeLaunchKeeps,
       InitializeKeeps, VerifyKeeps, StartFailedKeeps, BindPidKeeps, LeaveLaunchKeeps, KeepWindowsKeeps,
       EnterRuntimeKeeps, BodyEndsKeeps, GameDiesKeeps, PrimaryWriteKeeps, CloseRecordingKeeps,
       CloseClientKeeps, LeaveRuntimeKeeps, CloseTraceKeeps, StopGameKeeps, HostIdentityKeeps,
       CleanupWriteKeeps, BeginRetentionKeeps, PackageRunKeeps, SealRunKeeps, JudgeKeeps DEF Step
  <2> QED BY <2>1, <2>2, PlayStays DEF CodecInv
<1>4. CASE UNCHANGED vars
  <2>1. UNCHANGED <<playVars, codec>> /\ UNCHANGED sessionVars
    BY <1>4 DEF vars
  <2>2. SessionInv'
    BY <2>1 DEF sessionVars, playVars, SessionInv, SessionTypes, RestTypes, GhostTypes, Built, Owned, Unnamed, Told,
                Noted, Readable, Stored, CleanupPassed, WritersClosed
  <2> QED BY <2>1, <2>2, PlayStays DEF CodecInv
<1> QED BY <1>1, <1>2, <1>3, <1>4 DEF Next, Step

(* The inductive invariant of a session: the copies of its audit, its      *)
(* source run and that run's pause points, what it has built and owns, and *)
(* where each of its mishaps shows.                                        *)
THEOREM LiveInvariant == Spec => []LiveInv
<1> QED BY LiveStarts, LiveSteps, PTL DEF Spec

(* However a source run ends and however many pause points fall due at one *)
(* boundary, the probed points, those set aside and those not reached are  *)
(* the plan's, in its order, and a run with none set aside was probed at   *)
(* every point it reached (PauseSchedule.after_step, _play_source), for any*)
(* increasing points.                                                      *)
THEOREM PausePoints == Spec => []PausesAccounted
<1>1. LiveInv => PausesAccounted
  BY PausesTold DEF LiveInv
<1> QED BY <1>1, LiveInvariant, PTL

(* The declared intervention is committed at most once, at exactly its     *)
(* version, and nothing is committed past a resource stop (_play_source).  *)
THEOREM InterventionKept == Spec => []InterventionExact
<1>1. LiveInv => InterventionExact
  BY PlayTold DEF LiveInv
<1> QED BY <1>1, LiveInvariant, PTL

(* The state is well typed, and nothing that went wrong in a session, in   *)
(* any combination and at any stage, is lost on the way to its verdict     *)
(* (live_session, finalize_run).                                           *)
THEOREM FailuresTold == Spec => []NothingSwallowed
<1>1. LiveInv => NothingSwallowed
  BY SessionTold DEF LiveInv
<1> QED BY <1>1, LiveInvariant, PTL

(* A sealed run has no writer left, and a finished session leaves its game *)
(* running only when stopping it was tried and failed, or when neither a   *)
(* pid nor a readable receipt names it (launcher.start, launcher.stop,     *)
(* records.finish).                                                        *)
THEOREM GameOwned == Spec => []ProcessesOwned
<1>1. LiveInv => ProcessesOwned
  BY OwnershipTold DEF LiveInv
<1> QED BY <1>1, LiveInvariant, PTL

(* No step of compress_evidence, finished or failed, takes the last copy   *)
(* of a file of the audit, or leaves a receipt that a reader refuses.      *)
THEOREM AuditSafe == Spec => []AuditKept
<1>1. LiveInv => AuditKept
  BY CodecTold DEF LiveInv
<1> QED BY <1>1, LiveInvariant, PTL

=============================================================================
