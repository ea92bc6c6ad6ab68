----------------------------- MODULE AuditStream -----------------------------
(***************************************************************************)
(* How the Python tools read a native audit (audit_compare.py): events and *)
(* frames are merged by sequence number into one decoder, which raises     *)
(* EvidenceError at the first record that cannot follow the previous ones. *)
(*                                                                         *)
(* An audit is a record of four files, each a sequence of records:         *)
(*   events  [seq, kind, v, rid, body]         events.jsonl                *)
(*   sums    [seq, kind, v, pay, digest]       checksums.jsonl             *)
(*   deltas  [seq, kind, v, pay, first, patch] state-deltas.jsonl          *)
(*   raws    [seq, kind, v, call]              raw engine calls            *)
(* A version is [tick, rev]; the epoch of a run is constant.  A captured   *)
(* state is [g, clock, ui, draws]: the game's data, the native clock, the  *)
(* screen (3 is the fight) and the number of controlled step draws.  A     *)
(* digest is the state it was computed from (hashes do not collide).       *)
(* `ctl' says that the manifest declares the controlled modes together:    *)
(* drawing, engine calls and the spawn hook.  Animations, particle seeds,  *)
(* hosted shots, audio and FP receipts are left out.                       *)
(***************************************************************************)
EXTENDS Integers, SequencesExt

Fight == 3
NoFrame == [seq |-> -1, kind |-> "none", v |-> [tick |-> 0, rev |-> 0],
            pay |-> [rid |-> 0, asked |-> 0, done |-> 0, delta |-> 0, call |-> 0, index |-> 0, render |-> "none"]]
NoState == [none |-> 0]
CloseKinds == {"engine_call_closed", "draw_schedule_closed", "spawn_hook_closed"}

(* The decoder before the first record; ok turns FALSE when a check raises. *)
NewDecoder ==
    [ok |-> TRUE, next |-> 0, prev |-> NoFrame, state |-> NoState,
     closed |-> FALSE, lastSeq |-> -1, births |-> 0, tail |-> <<>>,  (* _EventSummary *)
     spawns |-> <<>>,                                                (* pending_spawns *)
     pre |-> NoFrame, preClock |-> 0, rid |-> 0,                     (* _EngineCallEvidence *)
     rcalls |-> 0, rticks |-> 0, rzero |-> 0,
     calls |-> 0, ticks |-> 0, zeros |-> 0, ends |-> 0,
     warm |-> NoState, posts |-> 0, steps |-> 0,                     (* _DrawEvidence *)
     last |-> NoFrame, told |-> FALSE, over |-> FALSE,               (* its terminal *)
     kept |-> <<>>]                                                  (* retained events *)

Terminal(d) == d.last.kind # "none"

(* _EventSummary.accept: order, nothing but the closes after the recording *)
(* is closed and none before, births numbered without a gap.               *)
SummaryFits(d, e) ==
    /\ e.seq >= d.lastSeq
    /\ d.closed = (e.kind \in CloseKinds)
    /\ e.kind = "zombie_initialized" => e.body.ord = d.births

Summarised(d, e) ==
    [d EXCEPT !.lastSeq = e.seq, !.closed = @ \/ e.kind = "recording_closed",
              !.births = IF e.kind = "zombie_initialized" THEN @ + 1 ELSE @,
              !.tail = Append(@, e)]

(* _EngineCallEvidence.event: requests do not overlap, no action within a  *)
(* call, births belong to the active call, and the answer counts exactly   *)
(* the calls that returned.                                                *)
CallEventFits(d, e) ==
    CASE e.kind = "request_started"    -> d.pre = NoFrame /\ d.rid = 0 /\ ~Terminal(d)
      [] e.kind = "action"             -> d.pre = NoFrame
      [] e.kind = "zombie_initialized" -> /\ e.body.call = d.pre.pay.call
                                          /\ d.pre # NoFrame => e.v = d.pre.v
      [] e.kind = "request_completed"  ->
            /\ d.pre = NoFrame /\ d.rid # 0 /\ e.rid = d.rid
            /\ e.body.done = d.rticks /\ e.body.calls = d.rcalls /\ e.body.zero = d.rzero
            /\ e.body.lastCall = IF d.rcalls > 0 THEN d.calls ELSE 0
            /\ (e.body.stop = "scene_changed") = Terminal(d)
      [] OTHER -> TRUE

CallEvent(d, e) ==
    CASE e.kind = "request_started"   -> [d EXCEPT !.rid = e.rid, !.rcalls = 0, !.rticks = 0, !.rzero = 0]
      [] e.kind = "request_completed" -> [d EXCEPT !.rid = 0]
      [] OTHER -> d

(* _DrawEvidence.event: one warm draw before the first step; after a post  *)
(* frame that left the fight come its terminal_transition, its answer and  *)
(* the closes, and nothing else.                                           *)
DrawEventFits(d, e) ==
    /\ d.over => e.kind = "recording_closed" \/ e.kind \in CloseKinds
    /\ e.kind = "render_prepared" => d.warm = NoState /\ d.prev = NoFrame /\ e.v.tick = 0
    /\ Terminal(d) /\ ~d.over => e.kind \in {"terminal_transition", "request_completed"}
    /\ e.kind = "terminal_transition" =>
          Terminal(d) /\ ~d.told /\ e.v = d.last.v /\ e.rid = d.last.pay.rid /\ e.body.delta = d.last.pay.delta
    /\ Terminal(d) /\ e.kind = "request_completed" =>
          /\ ~d.over /\ d.told /\ e.rid = d.last.pay.rid /\ e.v = d.last.v /\ e.body.obs.v = e.v
          /\ e.body.stop = "scene_changed" /\ e.body.obs.ui # Fight

DrawEvent(d, e) ==
    CASE e.kind = "render_prepared"     -> [d EXCEPT !.warm = [v |-> e.v, state |-> e.body.state]]
      [] e.kind = "terminal_transition" -> [d EXCEPT !.told = TRUE]
      [] e.kind = "request_completed" /\ Terminal(d) -> [d EXCEPT !.over = TRUE]
      [] OTHER -> d

(* _AuditStreamDecoder.event. *)
TakeEvent(ctl, d, e) ==
    LET fits == /\ SummaryFits(d, e)
                /\ e.seq = d.next
                /\ IF ctl THEN CallEventFits(d, e) /\ DrawEventFits(d, e)
                   ELSE e.kind \notin CloseKinds \cup {"render_prepared", "zombie_initialized"}
        s == Summarised(d, e)
        c == IF ctl THEN DrawEvent(CallEvent(s, e), e) ELSE s
    IN IF ~fits THEN [d EXCEPT !.ok = FALSE]
       ELSE [c EXCEPT !.next = @ + 1, !.kept = Append(@, e),
                      !.spawns = IF e.kind = "zombie_initialized" THEN Append(@, e) ELSE @]

(* _FrameDecoder.accept: the files agree on the frame, the patch applied   *)
(* to the state so far gives the digest, and pre and post steps alternate, *)
(* one tick apart unless a controlled call left the fight with no tick.    *)
Patched(d, row) == IF row.delta.first THEN row.delta.patch ELSE row.delta.patch @@ d.state

FrameFits(ctl, d, row) ==
    LET f == row.sum
        p == d.prev
    IN /\ f.seq = row.delta.seq /\ f.kind = row.delta.kind /\ f.v = row.delta.v /\ f.pay = row.delta.pay
       /\ f.seq > p.seq
       /\ row.delta.first = (d.state = NoState)
       /\ f.digest = Patched(d, row)
       /\ \/ f.kind = "pre_step" /\ p.kind # "pre_step"
          \/ /\ f.kind = "post_step" /\ p.kind = "pre_step"
             /\ \/ ctl /\ f.pay.delta = 0 /\ f.v = p.v
                \/ f.v = [tick |-> p.v.tick + 1, rev |-> 0] /\ f.pay.delta = 1 /\ f.pay.rid = p.pay.rid

(* _EngineCallEvidence.frame: the call is numbered, entered once with      *)
(* budget left and returned by the next frame with the measured clock.     *)
CallFrameFits(d, row, s) ==
    LET f == row.sum
        moved == s.clock - d.preClock
    IN /\ ~Terminal(d) /\ d.rid # 0 /\ f.pay.rid = d.rid
       /\ row.raw = [seq |-> f.seq, kind |-> f.kind, v |-> f.v, call |-> f.pay.call]
       /\ f.pay.call = d.calls + 1 /\ f.pay.index = d.rcalls + 1
       /\ \/ /\ f.kind = "pre_step" /\ d.pre = NoFrame /\ s.ui = Fight
             /\ f.pay.asked > d.rticks /\ f.pay.done = d.rticks
          \/ /\ f.kind = "post_step" /\ d.pre # NoFrame
             /\ moved = 1 \/ (moved = 0 /\ s.ui # Fight)
             /\ f.pay.delta = moved /\ f.pay.done = d.rticks + moved

CallFrame(d, f, s) ==
    IF f.kind = "pre_step" THEN [d EXCEPT !.pre = f, !.preClock = s.clock]
    ELSE [d EXCEPT !.pre = NoFrame, !.calls = @ + 1, !.rcalls = @ + 1,
                   !.ticks = @ + f.pay.delta, !.rticks = @ + f.pay.delta,
                   !.zeros = @ + 1 - f.pay.delta, !.rzero = @ + 1 - f.pay.delta,
                   !.ends = IF s.ui # Fight THEN @ + f.pay.delta ELSE @]

(* _receipt: a step's receipt tells its draw and counts the draws so far,  *)
(* or tells that the step left the fight and was not drawn.                *)
DrawReceiptFits(d, f, s) ==
    IF s.ui = Fight THEN f.pay.render = "step" /\ s.draws = d.steps + 1
    ELSE f.pay.render = "terminal" /\ s.draws = d.steps

(* _DrawEvidence.frame: every step is drawn once, or skipped at the end.   *)
DrawFrameFits(d, f, s) ==
    /\ d.warm # NoState /\ ~Terminal(d)
    /\ IF f.kind = "pre_step" THEN f.pay.render = "none" /\ f.v.tick = d.posts /\ s.draws = d.steps
       ELSE DrawReceiptFits(d, f, s)

DrawFrame(d, f, s) ==
    IF f.kind = "pre_step" THEN d
    ELSE [d EXCEPT !.posts = @ + 1, !.steps = s.draws,
                   !.last = IF s.ui = Fight THEN @ ELSE f]

(* _AuditStreamDecoder.frame; the births since the last frame belong to    *)
(* the update this frame closes.                                           *)
TakeFrame(ctl, d, row) ==
    LET f == row.sum
        s == Patched(d, row)
        fits == /\ ~d.closed
                /\ FrameFits(ctl, d, row)
                /\ IF ctl THEN CallFrameFits(d, row, s) /\ DrawFrameFits(d, f, s) ELSE f.pay.render = "none"
                /\ f.seq = d.next
                /\ \A i \in DOMAIN d.spawns :
                      IF f.kind = "post_step" THEN d.prev.kind = "pre_step" /\ d.spawns[i].v = d.prev.v
                      ELSE d.spawns[i].v.tick = f.v.tick /\ d.spawns[i].v.rev <= f.v.rev
        c == IF ctl THEN DrawFrame(CallFrame(d, f, s), f, s) ELSE d
    IN IF ~fits THEN [d EXCEPT !.ok = FALSE]
       ELSE [c EXCEPT !.next = @ + 1, !.prev = [seq |-> f.seq, kind |-> f.kind, v |-> f.v, pay |-> f.pay],
                      !.state = s, !.spawns = <<>>]

(* What a reader gets of a frame: its header, its state and its births. *)
Yielded(d, row) ==
    [seq |-> row.sum.seq, kind |-> row.sum.kind, v |-> row.sum.v, pay |-> row.sum.pay,
     state |-> Patched(d, row), births |-> [i \in DOMAIN d.spawns |-> d.spawns[i].body.val]]

(* _AuditStreamDecoder.finish, and its final form. *)
Finished(ctl, d) ==
    /\ d.ok /\ d.prev.kind # "pre_step"
    /\ ctl => d.pre = NoFrame /\ (Terminal(d) => d.over)
FinallyFinished(ctl, d) == Finished(ctl, d) /\ d.spawns = <<>>

(* _walk_audit: merge the files by sequence number into the decoder.  A    *)
(* zero-clock post frame is handed on only when its answer has been seen.  *)
(* `only' is the request a live reader expects, 0 for any.                 *)
Walk(ctl, d0, files, only) ==
    LET widths == {Len(files.sums), Len(files.deltas)} \cup (IF ctl THEN {Len(files.raws)} ELSE {})
        rows == Max(widths)
        RowAt(i) == [sum |-> files.sums[i], delta |-> files.deltas[i],
                     raw |-> IF ctl THEN files.raws[i] ELSE NoState]
        Frame(a) ==
            IF (\E n \in widths : a.f > n) \/ a.held # <<>>
            THEN [a EXCEPT !.d.ok = FALSE]
            ELSE LET row == RowAt(a.f)
                     y == Yielded(a.d, row)
                     d == TakeFrame(ctl, a.d, row)
                     waits == ctl /\ y.kind = "post_step" /\ y.pay.delta = 0
                 IN IF ~d.ok \/ (only # 0 /\ y.pay.rid # only) THEN [a EXCEPT !.d.ok = FALSE]
                    ELSE [a EXCEPT !.d = d, !.f = @ + 1,
                                   !.held = IF waits THEN <<y>> ELSE <<>>,
                                   !.out = IF waits THEN @ ELSE Append(@, y)]
        Event(a) ==
            LET d == TakeEvent(ctl, a.d, files.events[a.e])
            IN IF d.ok /\ d.over /\ a.held # <<>>
               THEN [a EXCEPT !.d = d, !.e = @ + 1, !.out = @ \o a.held, !.held = <<>>]
               ELSE [a EXCEPT !.d = d, !.e = @ + 1]
        Next1(a, i) ==
            IF ~a.d.ok THEN a
            ELSE IF /\ a.f <= rows
                    /\ \/ a.e > Len(files.events)
                       \/ a.f > Len(files.sums)
                       \/ files.sums[a.f].seq <= files.events[a.e].seq
                 THEN Frame(a) ELSE Event(a)
        End(end) == [d |-> [end.d EXCEPT !.ok = Finished(ctl, end.d)], out |-> end.out]
    IN End(FoldLeft(Next1, [d |-> d0, e |-> 1, f |-> 1, held |-> <<>>, out |-> <<>>],
                    [i \in 1..(Len(files.events) + rows) |-> i]))

(* _closed_events: the closes in their order at one boundary, each healthy *)
(* and counting what the decoder verified.                                 *)
EngineClosed(d, e) ==
    /\ e.kind = "engine_call_closed" /\ d.rid = 0 /\ d.zeros + d.ends <= 1
    /\ e.body = [calls |-> d.calls, ticks |-> d.ticks, zeros |-> d.zeros, ends |-> d.ends]
DrawClosed(d, e) ==
    e.kind = "draw_schedule_closed" /\ e.body.steps = d.steps /\ d.warm # NoState /\ d.steps = d.ticks - d.ends
(* mutant: the births the hook captured are not compared with those read *)
SpawnClosedUncounted(d, e) == e.kind = "spawn_hook_closed"
SpawnClosed(d, e) == e.kind = "spawn_hook_closed" /\ e.body.captured = d.births

ClosedEvents(ctl, d) ==
    LET n == Len(d.tail)
    IN IF ~ctl THEN n > 0 /\ d.tail[n].kind = "recording_closed"
       ELSE /\ n >= 4 /\ d.tail[n - 3].kind = "recording_closed"
            /\ EngineClosed(d, d.tail[n - 2]) /\ DrawClosed(d, d.tail[n - 1]) /\ SpawnClosed(d, d.tail[n])
            /\ \A k \in 0..2 : d.tail[n - k].v = d.tail[n - 3].v

(* AuditLog with require_closed: the whole audit, decoded, or refused. *)
AuditLog(ctl, files) ==
    LET Whole(w) == [ok |-> FinallyFinished(ctl, w.d) /\ ClosedEvents(ctl, w.d), d |-> w.d, frames |-> w.out]
    IN Whole(Walk(ctl, NewDecoder, files, 0))

RequestHeaders(log, rid) == SelectSeq(log.frames, LAMBDA f : f.pay.rid = rid)
RequestEvents(log, rid) == SelectSeq(log.d.kept, LAMBDA e : e.rid = rid)

(* _DrawEvidence.initial: the marker is the boundary of the warm draw. *)
DrawInitial(ctl, d, initial) ==
    ctl => d.warm = [v |-> initial.v, state |-> initial.state] /\ initial.state.draws = 0
=============================================================================
