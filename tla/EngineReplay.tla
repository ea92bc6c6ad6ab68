---------------------------- MODULE EngineReplay -----------------------------
(***************************************************************************)
(* What engine_replay.py makes of a recording: the steps told by the       *)
(* client's SessionTrace, the steps told by the native audit, the checks   *)
(* that bind the two to each other, and the trajectory packaged from them. *)
(* A trace is a sequence of [seq, kind, data]; a step is                   *)
(* [req, ok, result, after, state], where after and state hold what a      *)
(* later read of the boundary told (<<>> when nothing did).                *)
(***************************************************************************)
EXTENDS RecordedGame

StepMethods == {"commit", "advance"}
ReadOnly == {"hello", "observe", "status", "audit_snapshot"}
Interventions == StepMethods \cup {"capture_frame", "pause"}

(* SessionTrace.emit: numbered from what the file already holds. *)
Emit(trace, kind, data) == Append(trace, [seq |-> Len(trace), kind |-> kind, data |-> data])

NoResult == [none |-> 0]
Step(req, ok, result) == [req |-> req, ok |-> ok, result |-> result, after |-> <<>>, state |-> <<>>]

(* _trace_steps, one event at a time: a marker at a boundary, requests one *)
(* at a time, each answered, a pause followed by a snapshot of the state   *)
(* before anything else changes, a capture by reads of its boundary, and   *)
(* no uncertain outcome.                                                   *)
TraceRequest(a, r) ==
    LET mutates == r.method \in Interventions \cup {"stop_recording"}
        fits == /\ a.pending = <<>>
                /\ r.id \notin a.ids
                /\ a.initial # <<>> => r.method \in ReadOnly \cup Interventions \cup {"stop_recording"}
                /\ a.initial # <<>> /\ a.stopped => r.method \in ReadOnly
                /\ mutates /\ a.pause # 0 => a.steps[a.pause].state # <<>>
    IN [a EXCEPT !.ok = @ /\ fits, !.ids = @ \cup {r.id}, !.pending = <<r>>,
                 !.pause = IF mutates THEN 0 ELSE @, !.cap = IF mutates THEN 0 ELSE @]

(* A read after a capture tells its boundary, a snapshot after a pause its *)
(* state; the first of each is kept and none may tell another boundary.    *)
TraceRead(a, req, res) ==
    IF a.cap # 0 /\ req.method \in {"observe", "audit_snapshot"} THEN
        LET s == a.steps[a.cap]
        IN [a EXCEPT !.ok = @ /\ (s.after = <<>> \/ s.after = <<res.v>>),
                     !.steps[a.cap].after = <<res.v>>,
                     !.steps[a.cap].state = IF req.method = "audit_snapshot" /\ @ = <<>> THEN <<res.state>> ELSE @]
    ELSE IF a.pause # 0 /\ req.method = "audit_snapshot" THEN
        LET s == a.steps[a.pause]
        IN [a EXCEPT !.ok = @ /\ res.v = s.result.obs.v /\ (s.state = <<>> \/ s.state = <<res.state>>),
                     !.steps[a.pause].state = <<res.state>>]
    ELSE a

TraceResponse(a, data) ==
    IF a.pending = <<>> \/ data.id # Head(a.pending).id THEN [a EXCEPT !.ok = FALSE]
    ELSE LET req == Head(a.pending)
             b == [a EXCEPT !.pending = <<>>]
             n == Len(a.steps) + 1
             moved == a.steps # <<>> /\ a.steps[n - 1].req.method \in StepMethods /\ a.steps[n - 1].result.done > 0
         IN IF a.initial = <<>> THEN b
            ELSE IF req.method = "capture_frame" THEN
                [b EXCEPT !.steps = Append(@, [Step(req, data.ok, data.result)
                                               EXCEPT !.after = IF data.ok THEN <<data.result.v>> ELSE <<>>]),
                          !.errors = IF data.ok THEN @ ELSE @ \cup {req.id}, !.cap = n]
            ELSE IF ~data.ok THEN [b EXCEPT !.ok = FALSE]
            ELSE IF req.method \in StepMethods THEN [b EXCEPT !.steps = Append(@, Step(req, TRUE, data.result))]
            ELSE IF req.method = "pause" THEN
                [b EXCEPT !.ok = @ /\ moved, !.steps = Append(@, Step(req, TRUE, data.result)), !.pause = n]
            ELSE IF req.method = "stop_recording" THEN [b EXCEPT !.ok = @ /\ data.result.closed, !.stopped = TRUE]
            ELSE TraceRead(b, req, data.result)

(* _validate_initial: a ready fight at tick zero, warmed up with one draw  *)
(* and no step when drawing is controlled.                                 *)
ValidInitial(marker) ==
    /\ marker.v.tick = 0 /\ marker.state.ui = Fight
    /\ marker.ctl => marker.state.draws = 0

TraceEvent(a, e) ==
    IF ~a.ok \/ e.seq # a.n THEN [a EXCEPT !.ok = FALSE]
    ELSE LET b == [a EXCEPT !.n = @ + 1]
         IN CASE e.kind = "replay_initial" ->
                   [b EXCEPT !.ok = a.initial = <<>> /\ a.pending = <<>> /\ ValidInitial(e.data),
                             !.initial = <<e.data>>]
              [] e.kind = "request"  -> TraceRequest(b, e.data)
              [] e.kind = "response" -> TraceResponse(b, e.data)
              [] OTHER -> IF a.initial = <<>> THEN b
                          ELSE IF e.data.id \in a.errors /\ e.data.type = "RemoteError"
                               THEN [b EXCEPT !.errors = @ \ {e.data.id}]
                               ELSE [b EXCEPT !.ok = FALSE]

TraceSteps(trace) ==
    LET End(a) == [ok |-> a.ok /\ a.initial # <<>> /\ a.pending = <<>> /\ a.stopped,
                   initial |-> a.initial, steps |-> a.steps]
    IN End(FoldLeft(TraceEvent,
                      [ok |-> TRUE, n |-> 0, initial |-> <<>>, pending |-> <<>>, steps |-> <<>>, stopped |-> FALSE,
                       ids |-> {}, errors |-> {}, cap |-> 0, pause |-> 0], trace))

(* _native_steps: the requests the runtime started, each with the answer   *)
(* it completed next.                                                      *)
NativeSteps(log) ==
    LET Take(a, e) ==
            CASE ~a.ok -> a
              [] e.kind = "request_started" ->
                   [a EXCEPT !.ok = a.pending = <<>> /\ e.body.id = e.rid, !.pending = <<e.body>>]
              [] e.kind = "request_completed" ->
                   IF a.pending = <<>> \/ Head(a.pending).id # e.rid THEN [a EXCEPT !.ok = FALSE]
                   ELSE [a EXCEPT !.pending = <<>>,
                                  !.steps = Append(@, [req |-> Head(a.pending), result |-> e.body])]
              [] OTHER -> a
        a == FoldLeft(Take, [ok |-> TRUE, pending |-> <<>>, steps |-> <<>>], log.d.kept)
    IN [ok |-> a.ok /\ a.pending = <<>>, steps |-> a.steps]

(* _terminal_event: a request that left the fight has one transition, told *)
(* after its last frame and before its answer; no other request has one.   *)
TerminalFits(ctl, log, rid, required) ==
    LET evs == RequestEvents(log, rid)
        told == SelectSeq(evs, LAMBDA e : e.kind = "terminal_transition")
        ends == SelectSeq(evs, LAMBDA e : e.kind = "request_completed")
        frames == RequestHeaders(log, rid)
    IN IF ~required THEN told = <<>>
       ELSE /\ Len(told) = 1 /\ Len(ends) = 1 /\ frames # <<>>
            /\ (told[1].body.delta = 1 \/ (ctl /\ told[1].body.delta = 0))
            /\ Last(frames).kind = "post_step" /\ Last(frames).v = told[1].v
            /\ Last(frames).seq < told[1].seq /\ told[1].seq < ends[1].seq

(* _validate_native_details: the audit started exactly this request at its *)
(* expected version, tried its actions in order and completed this result. *)
NativeDetails(log, req, result) ==
    LET evs == RequestEvents(log, req.id)
        starts == SelectSeq(evs, LAMBDA e : e.kind = "request_started")
        acts == SelectSeq(evs, LAMBDA e : e.kind = "action")
        ends == SelectSeq(evs, LAMBDA e : e.kind = "request_completed")
    IN /\ Len(starts) = 1 /\ Len(ends) = 1
       /\ starts[1].v = req.expect /\ starts[1].body = req
       /\ ends[1].body = result /\ ends[1].v = result.obs.v
       /\ Len(acts) = Len(result.outs)
       /\ \A i \in DOMAIN acts :
             /\ acts[i].body = [ordinal |-> i - 1, ok |-> result.outs[i]]
             /\ acts[i].v = [req.expect EXCEPT !.rev = @ + i]
             /\ starts[1].seq < acts[i].seq /\ acts[i].seq < ends[1].seq

(* _validate_steps for a commit or an advance at version `now'. *)
StepFits(ctl, log, s, now, isLast) ==
    LET req == s.req
        res == s.result
        n == Len(res.outs)
        failed == \E i \in 1..n : ~res.outs[i]
        left == res.stop = "scene_changed"
        frames == RequestHeaders(log, req.id)
        calls == IF ctl THEN res.calls ELSE res.done
        Done(k) == Cardinality({i \in 1..k : frames[i].kind = "post_step" /\ frames[i].pay.delta = 1})
    IN /\ req.expect = now /\ res.asked = req.n /\ res.done \in 0..req.n
       /\ n <= req.acts /\ (req.method = "advance" => req.acts = 0)
       /\ \A i \in 1..(n - 1) : res.outs[i]
       /\ IF failed THEN res.done = 0 /\ res.stop = "action_failed"
          ELSE n = req.acts /\ res.stop \in {"budget_exhausted", "wave_changed", "scene_changed"}
       /\ TerminalFits(ctl, log, req.id, left)
       /\ left => isLast /\ (res.done > 0 \/ (ctl /\ res.zero = 1)) /\ res.obs.ui # Fight
       /\ res.stop = "budget_exhausted" => res.done = req.n
       /\ res.obs.v = [tick |-> now.tick + res.done, rev |-> IF res.done > 0 THEN 0 ELSE now.rev + n]
       /\ NativeDetails(log, req, res)
       /\ calls = res.done + (IF ctl THEN res.zero ELSE 0) /\ Len(frames) = 2 * calls
       /\ \A i \in DOMAIN frames :
             /\ frames[i].v = [tick |-> now.tick + Done(i), rev |-> IF Done(i) = 0 THEN now.rev + n ELSE 0]
             /\ frames[i].pay.done = Done(i)
             /\ frames[i].kind = "pre_step" => frames[i].pay.asked = req.n

(* A pause is a proven no-op: it follows a completed update, left no trace *)
(* in the audit, and its snapshot is the state that update had reached.    *)
PauseFits(log, prev, s, now) ==
    LET frames == RequestHeaders(log, prev.req.id)
    IN /\ prev.req.method \in StepMethods /\ prev.result.done > 0
       /\ s.req.expect = now /\ s.result.obs = prev.result.obs /\ s.result.obs.v = now
       /\ s.state # <<>> /\ RequestEvents(log, s.req.id) = <<>> /\ RequestHeaders(log, s.req.id) = <<>>
       /\ frames # <<>> /\ Last(frames).kind = "post_step" /\ <<Last(frames).state>> = s.state

(* _validate_capture_mode: when drawing is controlled a capture reads the  *)
(* frame of this boundary and leaves the boundary where it was...          *)
CaptureModeFits(ctl, s, now, after) == ctl => after = now /\ (s.ok => s.result.v = now)

(* ...and otherwise it is at most one revision further.                    *)
CaptureFits(ctl, log, s, now) ==
    /\ s.after # <<>>
    /\ LET after == Head(s.after)
       IN /\ after.tick = now.tick /\ after.rev \in {now.rev, now.rev + 1}
          /\ CaptureModeFits(ctl, s, now, after)
          /\ s.ok => s.req.expect = now /\ s.result.v = after /\ after = now
    /\ RequestHeaders(log, s.req.id) = <<>>

(* _validate_steps: both sources tell the same requests, and each step     *)
(* starts where the one before it ended.                                   *)
ValidSteps(ctl, initial, steps, log) ==
    LET native == NativeSteps(log)
        played == SelectSeq(steps, LAMBDA s : s.req.method \in StepMethods)
        Take(a, i) ==
            LET s == steps[i]
            IN IF ~a.ok THEN a
               ELSE CASE s.req.method = "pause" ->
                           [a EXCEPT !.ok = i > 1 /\ PauseFits(log, steps[i - 1], s, a.now)]
                      [] s.req.method = "capture_frame" ->
                           IF CaptureFits(ctl, log, s, a.now) THEN [a EXCEPT !.now = Head(s.after)]
                           ELSE [a EXCEPT !.ok = FALSE]
                      [] OTHER ->
                           [ok |-> StepFits(ctl, log, s, a.now, i = Len(steps)), now |-> s.result.obs.v]
    IN /\ steps # <<>> /\ initial.ctl = ctl
       /\ DrawInitial(ctl, log.d, initial)
       /\ native.ok /\ native.steps = [i \in DOMAIN played |-> [req |-> played[i].req, result |-> played[i].result]]
       /\ FoldLeft(Take, [ok |-> TRUE, now |-> initial.v], [i \in DOMAIN steps |-> i]).ok

(* build_trajectory: refuse, or keep the evidence with its hashes (the     *)
(* evidence itself, kept beside the copies that the disk may change).      *)
Build(ctl, trace, files) ==
    LET Valid(log, told) == log.ok /\ told.ok /\ ValidSteps(ctl, Head(told.initial), told.steps, log)
        told == TraceSteps(trace)
    IN IF Valid(AuditLog(ctl, files), told) THEN <<[ctl |-> ctl, initial |-> Head(told.initial), steps |-> told.steps, trace |-> trace, files |-> files]>>
       ELSE <<>>

(* Trajectory.load: every file on disk hashes to what the manifest pinned, *)
(* and so decodes and validates as it did when it was packaged.            *)
Loads(made, disk) == disk.trace = made.trace /\ disk.files = made.files

EndVersion(s) == IF s.req.method = "capture_frame" THEN Head(s.after) ELSE s.result.obs.v
=============================================================================
