---------------------------- MODULE ReplaySession ----------------------------
(***************************************************************************)
(* A run is recorded through the Python client, packaged, and replayed     *)
(* against a second, freshly started game (client.py, session.py,          *)
(* engine_replay.replay, and AuditTail of audit_compare.py).               *)
(*                                                                         *)
(* The environment may harm the recording once: a record of the trace or   *)
(* of one audit file is lost before or after it was numbered, doubled,     *)
(* swapped, cut off or altered, or records are lost together; a packaged   *)
(* or an already consumed live file is changed; the game is changed        *)
(* between requests; or an answer is kept from the client.                 *)
(***************************************************************************)
EXTENDS EngineReplay

CONSTANTS
    Outcomes,     (* what an update may do, a subset of Picks *)
    MaxRequests,  (* bound: steps the source plays *)
    MaxCalls,     (* bound: updates the source plays *)
    Harms         (* what the environment may do once, a subset of AllHarms *)

AllHarms == {"evidence", "package", "live", "game", "answer"}

ASSUME ReplayAssumption ==
    /\ Outcomes \subseteq Picks
    /\ MaxRequests \in Nat /\ MaxCalls \in Nat
    /\ Harms \subseteq AllHarms

NoTarget == -1

VARIABLES
    phase,     (* where the recording or the replay is *)
    src,       (* the recorded game *)
    trace,     (* the source's SessionTrace *)
    asked,     (* steps the source played *)
    made,      (* the trajectory, <<>> before it is packaged *)
    disk,      (* its evidence files as they are now *)
    target,    (* target_tick, or NoTarget *)
    live,      (* the replayed game *)
    begin,     (* the version it began at *)
    at,        (* steps replayed *)
    eaten,     (* live audit records consumed by AuditTail, hashed *)
    dec,       (* AuditTail's decoder *)
    seen,      (* source frames consumed *)
    now,       (* the request being replayed: [req, result, partial, frames] *)
    outcome,   (* the report: "none", "equal" or "differs" *)
    harm       (* what the environment did, or "none" *)

source == <<src, trace, asked>>
replayed == <<target, live, begin, at, eaten, dec, seen, now>>
vars == <<phase, source, made, disk, replayed, outcome, harm>>

Nothing == [none |-> 0]
Harm(what) == harm = "none" /\ what \in Harms /\ harm' = what

(* Each process starts with a paused fight; the recipe gave the source its *)
(* seed, so its data is 0.  capture_initial emits the marker.              *)
Init ==
    \E ctl \in BOOLEAN :
        LET rt == Ready(ctl, 0, 0)
        IN /\ src = rt
           /\ trace = Emit(<<>>, "replay_initial", [ctl |-> ctl, v |-> rt.v, state |-> rt.state])
           /\ phase = "record" /\ asked = 0
           /\ made = <<>> /\ disk = Nothing /\ outcome = "none"
           /\ target = NoTarget /\ live = Nothing /\ begin = Nothing /\ at = 0 /\ eaten = NoFiles /\ dec = NewDecoder
           /\ seen = 0 /\ now = Nothing
           /\ harm = "none"

(***************************************************************************)
(* Recording                                                               *)
(***************************************************************************)
Request(id, method, acts, n, v) == [id |-> id, method |-> method, acts |-> acts, n |-> n, expect |-> v]

(* Client.request: the request goes to the trace before it is sent; an     *)
(* answer, an error answer or the loss of the answer follow it there.      *)
Answered(t, req, ok, result) ==
    LET asks == Emit(Emit(t, "request", req), "response", [id |-> req.id, ok |-> ok, result |-> result])
    IN IF ok THEN asks ELSE Emit(asks, "exception", [id |-> req.id, type |-> "RemoteError", unknown |-> FALSE])
Unanswered(t, req, mutates) ==
    Emit(Emit(t, "request", req), "exception", [id |-> req.id, type |-> "OutcomeUnknown", unknown |-> mutates])

Fights(rt) == rt.state.ui = Fight
Games(n) == [1..n -> Outcomes]

Played(calls) == src.ticks + src.zeros + calls <= MaxCalls

SourceStep ==
    /\ phase = "record" /\ asked < MaxRequests /\ Fights(src)
    /\ \E method \in StepMethods, acts \in 0..1, n \in 0..MaxCalls, works \in BOOLEAN :
         /\ acts = (IF method = "commit" THEN 1 ELSE 0)     (* a commit of no actions is an advance *)
         /\ acts = 0 => works /\ n > 0
         /\ Played(n)
         /\ \E picks \in Games(n) :
              LET req == Request(Len(trace) + 1, method, acts, n, src.v)
              IN \E x \in {Execute(src, req, works, picks)} :
                 /\ src.ctl \/ \A i \in 1..n : picks[i].end # "zero"
                 /\ \/ /\ src' = x.rt
                       /\ trace' = Answered(trace, req, TRUE, x.result)
                       /\ UNCHANGED <<phase, harm>>
                    \/ /\ Harm("answer")
                       /\ src' \in {src, x.rt}
                       /\ trace' = Unanswered(trace, req, TRUE)
                       /\ phase' = "reconnected"
    /\ asked' = asked + 1
    /\ UNCHANGED <<made, disk, replayed, outcome>>

(* The pauses and captures a driver puts between its steps, and the reads  *)
(* it may or may not make after them.                                      *)
SourceControl ==
    /\ phase = "record" /\ asked \in 1..(MaxRequests - 1) /\ Fights(src)
    /\ \E method \in {"pause", "capture_frame"}, ok \in BOOLEAN :
         LET req == Request(Len(trace) + 1, method, 0, 0, src.v)
             res == IF method = "pause" THEN [obs |-> Obs(src)] ELSE [v |-> src.v, px |-> src.state.g]
         IN /\ method = "pause" => ok
            /\ trace' = Answered(trace, req, ok, IF ok THEN res ELSE NoResult)
    /\ asked' = asked + 1
    /\ UNCHANGED <<phase, src, made, disk, replayed, outcome, harm>>

SourceRead ==
    /\ phase = "record"
    /\ LET sent == SelectSeq(trace, LAMBDA e : e.kind = "request")
       IN sent # <<>> /\ Last(sent).data.method \in {"pause", "capture_frame"}
    /\ trace' = Answered(trace, Request(Len(trace) + 1, "audit_snapshot", 0, 0, src.v), TRUE,
                         [v |-> src.v, state |-> src.state])
    /\ UNCHANGED <<phase, src, asked, made, disk, replayed, outcome, harm>>

SourceStop ==
    /\ phase \in {"record", "reconnected"}
    /\ LET req == Request(Len(trace) + 1, "stop_recording", 0, 0, src.v)
       IN /\ trace' = Answered(trace, req, TRUE, [closed |-> TRUE])
          /\ src' = StopRecording(src, req.id)
    /\ phase' = "closed"
    /\ UNCHANGED <<asked, made, disk, replayed, outcome, harm>>

(***************************************************************************)
(* What can happen to evidence and to a game                               *)
(***************************************************************************)
(* A file with one line lost, doubled, swapped or its end cut off. *)
Torn(f) ==
    {RemoveAt(f, i) : i \in DOMAIN f} \cup {InsertAt(f, i, f[i]) : i \in DOMAIN f}
        \cup {[f EXCEPT ![i] = f[i + 1], ![i + 1] = f[i]] : i \in 1..(Len(f) - 1)}
        \cup {SubSeq(f, 1, i) : i \in 0..(Len(f) - 1)}

(* One value of a record changed. *)
BentResult(r) == {[r EXCEPT !.done = @ + 1], [r EXCEPT !.stop = "wave_changed"], [r EXCEPT !.obs.g = 1 - @],
                  [r EXCEPT !.outs = [i \in DOMAIN @ |-> ~@[i]]], [r EXCEPT !.obs.v.rev = @ + 1]}
BentEvent(e) ==
    {[e EXCEPT !.v.rev = @ + 1], [e EXCEPT !.rid = @ + 1]} \cup
    CASE e.kind = "request_started"    -> {[e EXCEPT !.body.n = @ + 1], [e EXCEPT !.body.acts = 1 - @]}
      [] e.kind = "action"             -> {[e EXCEPT !.body.ok = ~@]}
      [] e.kind = "zombie_initialized" -> {[e EXCEPT !.body.ord = @ + 1], [e EXCEPT !.body.val = 3 - @]}
      [] e.kind = "request_completed"  -> {[e EXCEPT !.body = r] : r \in BentResult(e.body)}
      [] OTHER -> {}
BentFrame(f) == {[f EXCEPT !.v.tick = @ + 1], [f EXCEPT !.pay.rid = @ + 1], [f EXCEPT !.pay.done = @ + 1]}
BentSum(f) == BentFrame(f) \cup {[f EXCEPT !.digest.g = 1 - @]}
BentDelta(f) == BentFrame(f) \cup {[f EXCEPT !.patch = [g |-> x] @@ @] : x \in Values}
BentTrace(e) ==
    CASE e.kind = "request" -> {[e EXCEPT !.data.n = @ + 1], [e EXCEPT !.data.expect.rev = @ + 1]}
      [] e.kind = "response" /\ "done" \in DOMAIN e.data.result -> {[e EXCEPT !.data.result = r] : r \in BentResult(e.data.result)}
      [] OTHER -> {}
Bent(f, B(_)) == UNION {{[f EXCEPT ![i] = r] : r \in B(f[i])} : i \in DOMAIN f}

(* A record that never came to be written: what follows is numbered as if  *)
(* it had not been there.                                                  *)
Closed(f, n) == [i \in DOMAIN f |-> IF f[i].seq > n THEN [f[i] EXCEPT !.seq = @ - 1] ELSE f[i]]
Without(f, n) == Closed(SelectSeq(f, LAMBDA r : r.seq # n), n)
Omitted(files, n) == [x \in DOMAIN files |-> Without(files[x], n)]

HarmedFiles(files) ==
    UNION {{[files EXCEPT ![x] = f] : f \in Torn(files[x])} : x \in DOMAIN files}
        \cup {[files EXCEPT !.events = f] : f \in Bent(files.events, BentEvent)}
        \cup {[files EXCEPT !.sums = f] : f \in Bent(files.sums, BentSum)}
        \cup {[files EXCEPT !.deltas = f] : f \in Bent(files.deltas, BentDelta)}
        \cup {Omitted(files, n) : n \in 0..(src.seq - 1)}
HarmedTrace == Torn(trace) \cup Bent(trace, BentTrace) \cup {Without(trace, n) : n \in 0..(Len(trace) - 1)}

HarmEvidence ==
    /\ phase = "closed" /\ Harm("evidence")
    /\ \/ trace' \in HarmedTrace /\ UNCHANGED src
       \/ UNCHANGED trace /\ \E files \in HarmedFiles(src.files) : src' = [src EXCEPT !.files = files]
    /\ UNCHANGED <<phase, asked, made, disk, replayed, outcome>>

(* Between two requests of the replay, or around it, a packaged file      *)
(* changes on disk, or a consumed live file does.                          *)
HarmPackage ==
    /\ phase \in {"packed", "replay", "stopping"} /\ Harm("package")
    /\ \/ disk' = [disk EXCEPT !.trace = SubSeq(@, 1, Len(@) - 1)]
       \/ disk' = [disk EXCEPT !.files.events = SubSeq(@, 1, Len(@) - 1)]
       \/ \E x \in Values : disk' = [disk EXCEPT !.files.deltas = [i \in DOMAIN @ |-> [@[i] EXCEPT !.patch = [g |-> x] @@ @]]]
    /\ disk' # disk
    /\ UNCHANGED <<phase, source, made, replayed, outcome>>

HarmLive ==
    /\ phase \in {"replay", "stopping", "verifying"} /\ Harm("live")
    /\ \E x \in {"events", "sums"} :
         /\ eaten[x] # <<>>
         /\ \/ live' = [live EXCEPT !.files[x][Len(eaten[x])].v.rev = @ + 1]
            \/ live' = [live EXCEPT !.files[x] = SubSeq(@, 1, Len(eaten[x]) - 1)]
    /\ UNCHANGED <<phase, source, made, disk, target, begin, at, eaten, dec, seen, now, outcome>>

(* Something outside the requests changes a paused game. *)
Meddle ==
    /\ Harm("game")
    /\ \/ phase = "record" /\ src' = [src EXCEPT !.state.g = 1 - @] /\ UNCHANGED live
       \/ phase \in {"replay", "frames"} /\ live' = [live EXCEPT !.state.g = 1 - @] /\ UNCHANGED src
    /\ UNCHANGED <<phase, trace, asked, made, disk, target, begin, at, eaten, dec, seen, now, outcome>>

(***************************************************************************)
(* Packaging and replaying                                                 *)
(***************************************************************************)
Pack ==
    /\ phase = "closed"
    /\ made' = Build(src.ctl, trace, src.files)
    /\ disk' = [trace |-> trace, files |-> src.files]
    /\ phase' = IF made' = <<>> THEN "refused" ELSE "packed"
    /\ UNCHANGED <<source, replayed, outcome, harm>>

Trajectory == Head(made)

(* mapped_version: another epoch, and at tick zero another first revision. *)
(* mutant: versions are compared as they are *)
MapVersionPlain(v) == v
MapVersion(v) == IF v.tick = 0 THEN [v EXCEPT !.rev = @ + begin.rev - Trajectory.initial.v.rev] ELSE v
MapObs(obs) == [obs EXCEPT !.v = MapVersion(@)]

StepAt == Trajectory.steps[at + 1]
Before == IF at = 0 THEN Trajectory.initial.v ELSE EndVersion(Trajectory.steps[at])
(* mutant: the replay stops one tick short of its target *)
ReachedShort == target # NoTarget /\ live.v.tick + 1 >= target
Reached == target # NoTarget /\ live.v.tick >= target
More == at < Len(Trajectory.steps) /\ ~Reached

(* An exception anywhere writes a report that is not equal. *)
Report(what) == outcome' = what /\ phase' = "reported"
GoesOn(ok, to) == IF ok THEN phase' = to /\ UNCHANGED outcome ELSE Report("differs")

(* AuditTail follows the live audit: each read takes what was flushed      *)
(* since the last one, through one decoder that outlives the reads, and    *)
(* expects the frames of one request only (-1: of none).                   *)
Fresh(files) == [x \in DOMAIN files |-> SubSeq(files[x], Len(eaten[x]) + 1, Len(files[x]))]
Shrunk == \E x \in DOMAIN eaten : Len(live.files[x]) < Len(eaten[x])
ReadRequest(rid) == Walk(live.ctl, dec, Fresh(live.files), rid)
Consumed == [x \in DOMAIN eaten |-> eaten[x] \o Fresh(live.files)[x]]

(* Opened on a started game: the marker's own records are read at once.    *)
OpenTail(rt) == Walk(rt.ctl, NewDecoder, rt.files, -1)

(* verify_closed: no frame is left, the closes are healthy, and every byte *)
(* consumed is still what it was (_verify_prefix).                         *)
PrefixKept(x) == SubSeq(live.files[x], 1, Len(eaten[x])) = eaten[x]
TailClosed(w) ==
    /\ ~Shrunk /\ FinallyFinished(TRUE, w.d) /\ ClosedEvents(TRUE, w.d)
    /\ \A x \in DOMAIN eaten : PrefixKept(x)

(* The source is read lazily from disk, frame by frame (FrameSelection).   *)
(* Its files must still hold what they were bound to (EventStream): every  *)
(* read asks it and verify_files asks it last, where it is modelled.       *)
SourceFrames == Walk(Trajectory.ctl, NewDecoder, disk.files, 0).out
SourceUnchanged == disk.files = Trajectory.files

(* replay, up to the first step: load, a fresh game at tick zero with the  *)
(* recorded state and, when controlled, the same warm draw in its audit.   *)
Open ==
    /\ phase = "packed"
    /\ \E g \in Values, rev \in 0..1, t \in {NoTarget} \cup 0..EndVersion(Last(Trajectory.steps)).tick :
         LET rt == Ready(Trajectory.ctl, g, rev)
             w == OpenTail(rt)
             first == [v |-> rt.v, state |-> rt.state]
             same == /\ Loads(Trajectory, disk)
                     /\ rt.state = Trajectory.initial.state
                     /\ w.d.ok /\ DrawInitial(rt.ctl, w.d, first)
         IN /\ target' = t /\ live' = rt /\ begin' = rt.v
            /\ dec' = w.d /\ eaten' = [x \in DOMAIN rt.files |-> rt.files[x]]
            /\ GoesOn(same, "replay")
    /\ UNCHANGED <<source, made, disk, at, seen, now, harm>>

(* The request part of a step: the same request, or only as many ticks of  *)
(* it as the target leaves; its answer must be the recorded one.           *)
ReplayRequest ==
    /\ phase = "replay" /\ More /\ StepAt.req.method \in StepMethods
    /\ LET s == StepAt
           end == s.result.obs.v.tick
           partial == target # NoTarget /\ (end > target \/ (live.ctl /\ s.result.zero = 1 /\ end = target))
           n == IF partial THEN target - live.v.tick ELSE s.req.n
           req == Request(1000 + at, s.req.method, s.req.acts, n, live.v)
           Fits(res) ==
              IF partial
              THEN /\ res.done = n /\ res.stop = "budget_exhausted" /\ res.outs = s.result.outs
                   /\ live.ctl => res.calls = n /\ res.zero = 0
                   /\ res.obs.v = [tick |-> target, rev |-> 0]
              ELSE res = [s.result EXCEPT !.obs = MapObs(@)]
       IN \E works \in (IF req.acts = 0 THEN {TRUE} ELSE BOOLEAN), picks \in Games(n) :
            \E x \in {Execute(live, req, works, picks)} :
               /\ live.ctl \/ \A i \in 1..n : picks[i].end # "zero"
               /\ \/ /\ live' = x.rt
                     /\ now' = [req |-> req, result |-> x.result, partial |-> partial]
                     /\ GoesOn(MapVersion(Before) = live.v /\ Fits(x.result), "frames")
                     /\ UNCHANGED harm
                  \/ /\ Harm("answer") /\ live' \in {live, x.rt}
                     /\ Report("differs") /\ UNCHANGED now
    /\ UNCHANGED <<source, made, disk, target, begin, at, eaten, dec, seen>>

(* Its audit part: the frames the live runtime wrote for this request are  *)
(* decoded and compared, one by one, with the next frames of the source.   *)
SameFrame(a, b) ==
    /\ a.pay.rid = StepAt.req.id /\ a.kind = b.kind /\ MapVersion(a.v) = b.v
    /\ a.pay.call = b.pay.call /\ a.pay.index = b.pay.index /\ a.pay.render = b.pay.render
    /\ a.births = b.births /\ a.state = b.state

SameFrames(theirs, ours) ==
    /\ seen + Len(ours) <= Len(theirs)
    /\ \A i \in DOMAIN ours : SameFrame(theirs[seen + i], ours[i])

Ended == ~now.partial /\ StepAt.result.stop = "scene_changed"     (* the fight was left by this step *)
LogFits(log) ==
    /\ Len(log.frames) = 2 * (IF live.ctl THEN now.result.calls ELSE now.result.done)
    /\ NativeDetails(log, now.req, now.result)
    /\ TerminalFits(live.ctl, log, now.req.id, Ended)

ReplayFrames ==
    /\ phase = "frames"
    /\ \E w \in {ReadRequest(now.req.id)}, theirs \in {SourceFrames} :
         LET n == Len(w.out)
             same == ~Shrunk /\ w.d.ok /\ LogFits([d |-> w.d, frames |-> w.out]) /\ SameFrames(theirs, w.out)
         IN /\ dec' = w.d /\ seen' = seen + n
            /\ now' = IF same /\ n > 0 THEN [state |-> theirs[seen + n].state] ELSE Nothing
            /\ GoesOn(same, IF n > 0 /\ ~Ended THEN "snapshot" ELSE "replay")
    /\ eaten' = Consumed
    /\ at' = at + 1
    /\ UNCHANGED <<source, made, disk, target, begin, live, harm>>

(* The captured state after a request is the last source frame's. *)
ReplaySnapshot ==
    /\ phase = "snapshot"
    /\ GoesOn(now.state = live.state, "replay")
    /\ now' = Nothing
    /\ UNCHANGED <<source, made, disk, target, begin, live, at, eaten, dec, seen, harm>>

(* A pause must be a no-op again, at the recorded state. *)
ReplayPause ==
    /\ phase = "replay" /\ More /\ StepAt.req.method = "pause"
    /\ GoesOn(/\ MapVersion(Before) = live.v
              /\ MapObs(StepAt.result.obs) = Obs(live)
              /\ StepAt.state = <<live.state>>, "replay")
    /\ at' = at + 1
    /\ UNCHANGED <<source, made, disk, target, begin, live, eaten, dec, seen, now, harm>>

(* A capture must succeed or fail again, at the recorded boundary; its     *)
(* pixels are not compared.                                                *)
ReplayCapture ==
    /\ phase = "replay" /\ More /\ StepAt.req.method = "capture_frame"
    /\ \E ok \in BOOLEAN :
         GoesOn(/\ MapVersion(Before) = live.v /\ ok = StepAt.ok
                /\ MapVersion(Head(StepAt.after)) = live.v
                /\ StepAt.state = <<>> \/ StepAt.state = <<live.state>>, "replay")
    /\ at' = at + 1
    /\ UNCHANGED <<source, made, disk, target, begin, live, eaten, dec, seen, now, harm>>

(* The source's bytes are verified once more before anything is published. *)
ReplayVerify ==
    /\ phase = "replay" /\ ~More
    /\ GoesOn(SourceUnchanged /\ dec.spawns = <<>>, "stopping")
    /\ UNCHANGED <<source, made, disk, replayed, harm>>

(* The initializer's context ends: the live recording is stopped.  Without *)
(* a declared mode there is no close evidence to wait for.                 *)
LiveStop ==
    /\ phase = "stopping"
    /\ live' = StopRecording(live, 2000)
    /\ IF live.ctl THEN phase' = "verifying" /\ UNCHANGED outcome ELSE Report("equal")
    /\ UNCHANGED <<source, made, disk, target, begin, at, eaten, dec, seen, now, harm>>

(* The live audit must close like the source's did.                        *)
VerifyClosed ==
    /\ phase = "verifying"
    /\ \E w \in {ReadRequest(-1)} : Report(IF TailClosed(w) THEN "equal" ELSE "differs")
    /\ eaten' = Consumed
    /\ UNCHANGED <<source, made, disk, target, begin, live, at, dec, seen, now, harm>>

Next ==
    \/ SourceStep \/ SourceControl \/ SourceRead \/ SourceStop
    \/ HarmEvidence \/ HarmPackage \/ HarmLive \/ Meddle
    \/ Pack \/ Open \/ ReplayRequest \/ ReplayFrames \/ ReplaySnapshot \/ ReplayPause \/ ReplayCapture
    \/ ReplayVerify \/ LiveStop \/ VerifyClosed

Spec == Init /\ [][Next]_vars

(***************************************************************************)
(* Properties                                                              *)
(***************************************************************************)
(* The games a trajectory tells: for each step the outcomes of its actions *)
(* and, call by call, the data before and after, and what was born.        *)
Path(f) ==
    [i \in 1..(Len(f) \div 2) |->
        LET pre == f[2*i - 1]
            post == f[2*i]
        IN [from |-> pre.state.g, birth |-> IF post.births = <<>> THEN 0 ELSE Head(post.births),
            to |-> post.state.g, ui |-> post.state.ui, moved |-> post.state.clock - pre.state.clock]]

Story(steps, log) ==
    [i \in DOMAIN steps |-> [method |-> steps[i].req.method, acts |-> steps[i].result.outs, asked |-> steps[i].req.n,
                             path |-> Path(RequestHeaders(log, steps[i].req.id)), stop |-> steps[i].result.stop]]

Told == Story(SelectSeq(Trajectory.steps, LAMBDA s : s.req.method \in StepMethods),
              AuditLog(Trajectory.ctl, Trajectory.files))

(* What a birth record says about the zombie is told by that record alone; *)
(* that there was one, and everything else, is told twice or counted.      *)
Blurred(story) ==
    [i \in DOMAIN story |->
        [story[i] EXCEPT !.path = [k \in DOMAIN @ |-> [@[k] EXCEPT !.birth = IF @ = 0 THEN 0 ELSE 1]]]]

(* A recording that is packaged tells exactly what its game did: every     *)
(* request, action outcome, update and birth, whatever was lost, doubled,  *)
(* reordered, cut or altered in the trace or in one audit file, and no     *)
(* answer of it was lost (build_trajectory and the decoder under it).      *)
EvidenceIntact ==
    phase = "packed" =>
        /\ Blurred(Told) = Blurred(src.went)
        /\ harm # "answer"
        /\ Trajectory.ctl => Trajectory.initial.state = [g |-> 0, clock |-> 0, ui |-> Fight, draws |-> 0]

(* A replay reported equal really went, update by update and birth by      *)
(* birth, where the packaged recording went: to its end, or to exactly the *)
(* target tick.  The package is still the one that was loaded, and when    *)
(* the run has close evidence the live audit on disk is what was compared. *)
Went(ours, theirs) ==
    LET n == Len(ours)
    IN /\ n <= Len(theirs)
       /\ \A i \in 1..n : /\ ours[i].method = theirs[i].method /\ ours[i].acts = theirs[i].acts
                          /\ IsPrefix(ours[i].path, theirs[i].path)
                          /\ i < n \/ target = NoTarget => ours[i] = theirs[i]
       /\ IF target = NoTarget THEN n = Len(theirs) ELSE live.v.tick = target
ReplayHonest ==
    outcome = "equal" => Went(live.went, Told) /\ (live.ctl => live.files = eaten)

(* Nothing is refused without a cause.  A recording whose driver followed  *)
(* the protocol is packaged, and a replay is reported different only when  *)
(* the game began or went differently, or something interfered.            *)
Untouched == harm = "none"
GivesCause(steps) ==
    \/ steps = <<>>
    \/ \E i \in DOMAIN steps :
          \/ /\ steps[i].req.method = "pause"
             /\ steps[i].state = <<>> \/ i = 1 \/ steps[i - 1].req.method \notin StepMethods \/ steps[i - 1].result.done = 0
          \/ steps[i].req.method = "capture_frame" /\ steps[i].after = <<>>
OtherWay(ours, theirs) ==
    LET partial == ours.asked # theirs.asked
    IN \/ ours.acts # theirs.acts \/ ~IsPrefix(ours.path, theirs.path)
       \/ ~partial /\ ours.path # theirs.path
       \/ ours.stop # (IF partial THEN "budget_exhausted" ELSE theirs.stop)
NoFalseAlarm ==
    /\ phase = "refused" /\ Untouched => GivesCause(TraceSteps(trace).steps)
    /\ outcome = "differs" /\ Untouched =>
          \/ live.went = <<>> /\ live.state.g # 0
          \/ live.went # <<>> /\ OtherWay(Last(live.went), Told[Len(live.went)])
          \/ at > 0 /\ Trajectory.steps[at].req.method = "capture_frame"     (* it failed here and not there *)
=============================================================================
