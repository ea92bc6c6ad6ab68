---------------------------- MODULE RecordedGame -----------------------------
(***************************************************************************)
(* A game that is played through the runtime and audited as it runs: one   *)
(* record per process, with the audit files it has written so far          *)
(* (controller.cpp writes the records in this order, determinism/audit.cpp *)
(* numbers them and splits them over the files; AuditStream says how they  *)
(* are laid out).  The engine is not a function of its state here: `Pick'  *)
(* says what each original update happens to do, so a replay is free to go *)
(* another way than its source.  `went' is the history of the game itself, *)
(* kept beside the records for the properties to compare them with.        *)
(* With ctl FALSE this is the counter game of engine_replay.py's demo and  *)
(* of archives made before the controlled modes: frames without calls.     *)
(***************************************************************************)
EXTENDS AuditStream

Values == 0..1                        (* what the game's data can be *)
(* What an update does: new data, a zombie's initial data or 0 for none,   *)
(* and whether the fight goes on, changes wave, is left, or is left by an  *)
(* update that did not move the clock.                                     *)
Picks == [g : Values, birth : 0..2, end : {"go", "wave", "scene", "zero"}]
Pick0 == [g |-> 0, birth |-> 0, end |-> "go"]

NoFiles == [events |-> <<>>, sums |-> <<>>, deltas |-> <<>>, raws |-> <<>>]

(* Audit: number the record, and append it to events.jsonl. *)
Write(rt, kind, rid, body) ==
    [rt EXCEPT !.seq = @ + 1,
               !.files.events = Append(@, [seq |-> rt.seq, kind |-> kind, v |-> rt.v, rid |-> rid, body |-> body])]

(* Audit of a frame: checksum, delta and, when controlled, the raw call,   *)
(* all with one sequence number; the first delta is the whole state.       *)
WriteFrame(rt, kind, pay) ==
    LET row == [seq |-> rt.seq, kind |-> kind, v |-> rt.v, pay |-> pay]
        news == IF rt.base = NoState THEN rt.state
                ELSE [x \in {y \in DOMAIN rt.state : rt.state[y] # rt.base[y]} |-> rt.state[x]]
    IN [rt EXCEPT !.seq = @ + 1, !.base = rt.state,
                  !.files.sums = Append(@, row @@ [digest |-> rt.state]),
                  !.files.deltas = Append(@, row @@ [first |-> rt.base = NoState, patch |-> news]),
                  !.files.raws = IF rt.ctl
                                 THEN Append(@, [seq |-> rt.seq, kind |-> kind, v |-> rt.v, call |-> pay.call])
                                 ELSE @]

(* A game ready for its first request: prepare_render has drawn once and   *)
(* recorded it when the drawing is controlled.                             *)
Ready(ctl, g, rev) ==
    LET s == [g |-> g, clock |-> 0, ui |-> Fight, draws |-> 0]
        rt == [ctl |-> ctl, v |-> [tick |-> 0, rev |-> rev], state |-> s, base |-> NoState,
               seq |-> 0, calls |-> 0, ticks |-> 0, zeros |-> 0, ends |-> 0, births |-> 0,
               closed |-> FALSE, files |-> NoFiles, went |-> <<>>]
    IN IF ctl THEN Write(rt, "render_prepared", 0, [state |-> s]) ELSE rt

(* RunEngineFrame and AfterStep: one original update between a pre_step    *)
(* and a post_step.  A birth is queued by the hook and drained, with the   *)
(* version of the pre_step, before the next record.                        *)
Update(a, req, pick) ==
    LET rt == a.rt
        id == IF rt.ctl THEN rt.calls + 1 ELSE 0
        nth == IF rt.ctl THEN a.calls + 1 ELSE 0
        pre == WriteFrame(rt, "pre_step", [rid |-> req.id, asked |-> req.n, done |-> a.done, delta |-> 0,
                                           call |-> id, index |-> nth, render |-> "none"])
        born == IF pick.birth = 0 \/ ~rt.ctl THEN pre
                ELSE [Write(pre, "zombie_initialized", 0, [ord |-> rt.births, val |-> pick.birth, call |-> id])
                      EXCEPT !.births = @ + 1]
        delta == IF pick.end = "zero" THEN 0 ELSE 1
        left == pick.end \in {"scene", "zero"}
        drawn == IF rt.ctl /\ ~left THEN 1 ELSE 0
        run == [born EXCEPT !.state = [g |-> pick.g, clock |-> @.clock + delta, ui |-> IF left THEN 4 ELSE Fight,
                                       draws |-> @.draws + drawn],
                            !.v = IF delta = 1 THEN [tick |-> @.tick + 1, rev |-> 0] ELSE @,
                            !.calls = id, !.ticks = @ + delta, !.zeros = @ + 1 - delta,
                            !.ends = IF left THEN @ + delta ELSE @]
        post == WriteFrame(run, "post_step", [rid |-> req.id, asked |-> 0, done |-> a.done + delta, delta |-> delta,
                                              call |-> id, index |-> nth,
                                              render |-> IF ~rt.ctl THEN "none" ELSE IF left THEN "terminal" ELSE "step"])
        told == IF left THEN Write(post, "terminal_transition", req.id, [delta |-> delta]) ELSE post
    IN [a EXCEPT !.rt = told, !.done = @ + delta, !.calls = @ + 1, !.zero = @ + 1 - delta,
                 !.path = Append(@, [from |-> rt.state.g, birth |-> IF rt.ctl THEN pick.birth ELSE 0,
                                     to |-> pick.g, ui |-> run.state.ui, moved |-> delta]),
                 !.stop = CASE left -> "scene_changed"
                            [] pick.end = "wave" -> "wave_changed"
                            [] a.done + delta = req.n -> "budget_exhausted"
                            [] OTHER -> "go"]

(* commit and advance: the actions, each recorded whether it worked or     *)
(* not, the updates while there is budget, and the answer.                 *)
Obs(rt) == [v |-> rt.v, g |-> rt.state.g, ui |-> rt.state.ui]

Answer(req, outs, a, calls) ==
    [asked |-> req.n, done |-> a.done, outs |-> outs, stop |-> a.stop, obs |-> Obs(a.rt),
     calls |-> calls, zero |-> IF a.rt.ctl THEN a.zero ELSE 0, lastCall |-> IF calls > 0 THEN a.rt.calls ELSE 0]

Completed(req, a, result) ==
    LET told == [method |-> req.method, acts |-> result.outs, asked |-> req.n, path |-> a.path, stop |-> a.stop]
    IN [rt |-> [Write(a.rt, "request_completed", req.id, result) EXCEPT !.went = Append(@, told)], result |-> result]

Finish(req, outs, a) == Completed(req, a, Answer(req, outs, a, IF a.rt.ctl THEN a.calls ELSE 0))

Execute(rt, req, works, picks) ==
    LET started == Write(rt, "request_started", req.id, req)
        acted == IF req.acts = 0 THEN started
                 ELSE Write([started EXCEPT !.v.rev = @ + 1], "action", req.id, [ordinal |-> 0, ok |-> works])
        outs == IF req.acts = 0 THEN <<>> ELSE <<works>>
        failed == req.acts = 1 /\ ~works
        a0 == [rt |-> acted, done |-> 0, calls |-> 0, zero |-> 0, path |-> <<>>,
               stop |-> IF failed THEN "action_failed" ELSE IF req.n = 0 THEN "budget_exhausted" ELSE "go"]
    IN Finish(req, outs, FoldLeft(LAMBDA x, p : IF x.stop = "go" THEN Update(x, req, p) ELSE x, a0, picks))

(* stop_recording: the record of the close, then what each hook counted. *)
StopRecording(rt, rid) ==
    LET c == Write(rt, "recording_closed", rid, [closed |-> TRUE])
        e == Write(c, "engine_call_closed", 0,
                   [calls |-> rt.calls, ticks |-> rt.ticks, zeros |-> rt.zeros, ends |-> rt.ends])
        w == Write(e, "draw_schedule_closed", 0, [steps |-> rt.state.draws])
        s == Write(w, "spawn_hook_closed", 0, [captured |-> rt.births])
    IN [IF rt.ctl THEN s ELSE c EXCEPT !.closed = TRUE]
=============================================================================
