----------------------------- MODULE Controller -----------------------------
(***************************************************************************)
(* The resident controller (runtime/controller.cpp) and the frame loop     *)
(* that drives it (runtime/runtime.cpp): pump, scripts, one original       *)
(* update.  Requests are taken at the pump only; the original update and   *)
(* the audit, drawing and journal writes around it may each fail.          *)
(*                                                                         *)
(* A request's journal is RequestDedup's subject; here a completion is     *)
(* kept or lost.  inStep_ is left out: it is set only inside one call.     *)
(***************************************************************************)
EXTENDS EngineCalls, Integers

CONSTANTS
    MaxTicks,       \* largest tick budget of a request
    MaxCalls,       \* bounds on what the runs explore
    MaxEpoch, MaxRevision, MaxBoards, MaxFaults

ASSUME ControllerAssumption ==
    {MaxTicks, MaxCalls, MaxEpoch, MaxRevision, MaxBoards, MaxFaults} \subseteq Nat

VARIABLES
    native,     \* the game: its Board (0 for none), UI and GameClock
    c,          \* the Controller object and the backend's preparation flags
    at          \* where the game thread is in its loop

vars == <<native, c, at>>

Fight(n) == n.board # 0 /\ n.ui = "fight"

Idle == [live |-> FALSE, requested |-> 0, executed |-> 0, calls |-> 0]

(* A preparation flag of the backend holds the epoch it was set in.        *)
Unset == 0
Unprepared == [seeded |-> Unset, bound |-> Unset, normalized |-> Unset, warmed |-> Unset]
Done(s, flag) == s.prep[flag] # Unset

Init ==
    /\ native = [board |-> 0, ui |-> "menu", clock |-> 0, made |-> 0]
    /\ \E silent \in BOOLEAN : \* whether the runtime controls the audio counters
         c = [silent |-> silent, board |-> 0, ready |-> FALSE, clock |-> 0, epoch |-> 1, tick |-> 0, revision |-> 0,
                 pending |-> Idle, fault |-> FALSE, storage |-> FALSE, frozen |-> FALSE,
                 closed |-> FALSE, calls |-> NoCalls, prep |-> Unprepared,
                 \* history: ticks and calls reported in replies, a released freeze,
                 \* a fight that changed since the version last did
                 told |-> [ticks |-> 0, calls |-> 0], thawed |-> FALSE, changed |-> FALSE]
    /\ at = "outside"

-----------------------------------------------------------------------------
(* Pieces of the handlers, on a controller record s.                       *)

(* A faulty ShouldStep that looks at the freeze but not at the storage.    *)
ShouldStepUnsaved(s) ==
    ~Faulted(s.calls) /\ ~s.fault /\ ~s.frozen /\ ~s.closed /\ (~s.ready \/ s.pending.live)

Stopped(s) == s.fault \/ s.storage \/ s.frozen \/ s.closed
ShouldStep(s) == ~Faulted(s.calls) /\ ~Stopped(s) /\ (~s.ready \/ s.pending.live)

(* A faulty Settled: the reply is built from the emptied request.          *)
SettledEmpty(s, lost) ==
    [s EXCEPT !.pending = Idle, !.told.calls = @ + s.pending.calls,
              !.storage = @ \/ lost, !.frozen = @ \/ lost]

(* The pending request is answered, with its measured work.                *)
Settled(s, lost) ==
    [s EXCEPT !.pending = Idle,
              !.told = [ticks |-> @.ticks + s.pending.executed, calls |-> @.calls + s.pending.calls],
              !.storage = @ \/ lost, !.frozen = @ \/ lost]

(* Fail.  While the original update runs, the request stays alive.         *)
FailAtOnce(s, lost) ==
    LET t == [s EXCEPT !.fault = TRUE, !.frozen = TRUE]
    IN IF s.pending.live THEN Settled(t, lost) ELSE t
Fail(s, lost) ==
    IF InFlight(s.calls) THEN [s EXCEPT !.fault = TRUE] ELSE FailAtOnce(s, lost)

(* Finish: its audit may throw, which fails the request instead.           *)
Finish(s, audited, lost) ==
    IF ~s.pending.live THEN s ELSE IF audited THEN Settled(s, lost) ELSE Fail(s, lost)

StorageFail(s, audited, lost) ==
    Finish([s EXCEPT !.storage = TRUE, !.frozen = TRUE], audited, lost)

(* The answer to the request at hand; if lost, the pending one goes too.   *)
Reply(s, mine, audited, lost) == IF mine THEN StorageFail(s, audited, lost) ELSE s

(* A faulty handler that changes the fight under the old revision.         *)
Unrevised(s) == [s EXCEPT !.changed = TRUE]

Revised(s) == [s EXCEPT !.revision = @ + 1, !.changed = FALSE]

(* Boundary: whatever happened to the fight outside a measured update.     *)
Moved(s, n) == n.board # s.board \/ Fight(n) # s.ready \/ (Fight(n) /\ n.clock < s.clock)

NewEpochStillPrepared(s) ==
    [s EXCEPT !.epoch = @ + 1, !.tick = 0, !.revision = 0, !.changed = FALSE]

NewEpoch(s) ==
    [s EXCEPT !.epoch = @ + 1, !.tick = 0, !.revision = 0, !.changed = FALSE,
              !.prep = [Unprepared EXCEPT !.bound = s.prep.bound]]

(* A faulty Boundary that keeps the pending request into the new epoch.    *)
BoundaryKeepsPending(s, n, lost) ==
    LET gone == s.ready /\ (~Fight(n) \/ n.board # s.board)
        u == IF Moved(s, n) THEN NewEpoch([s EXCEPT !.frozen = @ \/ gone]) ELSE s
    IN IF s.fault \/ s.storage THEN s
       ELSE [u EXCEPT !.board = n.board, !.ready = Fight(n), !.clock = n.clock]

Boundary(s, n, lost) ==
    LET gone == s.ready /\ (~Fight(n) \/ n.board # s.board)
        t == [s EXCEPT !.frozen = @ \/ gone]
        u == IF Moved(s, n) THEN NewEpoch(t) ELSE s
    IN IF s.fault \/ s.storage THEN s
       ELSE IF Moved(s, n) /\ s.pending.live THEN Fail(t, lost)
       ELSE [u EXCEPT !.board = n.board, !.ready = Fight(n), !.clock = n.clock]

-----------------------------------------------------------------------------
(* The game.  The bounds on its Boards and epochs end the exploration.     *)

Gone == {[native EXCEPT !.board = 0, !.ui = "menu", !.clock = 0]}
Loaded == {[board |-> native.made + 1, ui |-> u, clock |-> k, made |-> native.made + 1] :
             u \in {"cards", "fight"}, k \in IF native.made < MaxBoards THEN 0 .. 1 ELSE {}}
Shown(ui) == [native EXCEPT !.ui = ui]
Explored(n) == Moved(c, n) => c.epoch < MaxEpoch

(* The player or a script leaves the fight, or sets its clock back.  A     *)
(* forward clock change or a Board at the old address is not seen by       *)
(* Boundary, and is assumed not to happen.                                 *)
External ==
    /\ at \in {"outside", "frame"} /\ native.board # 0
    /\ native' \in Gone \cup Loaded
                   \cup (IF Fight(native) THEN {Shown("lost")} ELSE {})
                   \cup {[native EXCEPT !.clock = k] : k \in 0 .. (native.clock - 1)}
    /\ Explored(native')
    /\ c' = [c EXCEPT !.changed = TRUE]
    /\ UNCHANGED at

(* The hook is entered while the update runs, or on a foreign thread.      *)
GuardFault ==
    /\ c.calls.faults < MaxFaults
    /\ c' = [c EXCEPT !.calls = Guarded(@)]
    /\ UNCHANGED <<native, at>>

-----------------------------------------------------------------------------
(* The pump: BeforeFrame, and the requests Drain hands to the controller.  *)

(* A guard, draw gate or floating-point fault fails the run; requests are  *)
(* still served.                                                           *)
GateFails ==
    /\ at = "outside"
    /\ \E lost \in BOOLEAN : c' = Fail(c, lost)
    /\ at' = "pump"
    /\ UNCHANGED native

Pump ==
    /\ at = "outside" /\ ~Faulted(c.calls)
    /\ \E lost \in BOOLEAN : c' = Boundary(c, native, lost)
    /\ at' = "pump"
    /\ UNCHANGED native

Leave ==
    /\ at = "pump"
    /\ at' = IF ShouldStep(c) THEN "frame" ELSE "outside"
    /\ UNCHANGED <<native, c>>

(* What every mutation checks before its journal entry.                    *)
Open(s) == ~s.fault /\ ~s.storage /\ ~s.closed
Paused(s) == s.ready /\ ~s.frozen

AtPump == at = "pump" /\ UNCHANGED <<native, at>>
Accepting == AtPump /\ Open(c) /\ ~c.pending.live /\ c.revision < MaxRevision

(* Rejected, or "busy": only its own answer is written.  The journal may   *)
(* refuse it, or a control refused for capacity may leave a faulted file.  *)
Rejected ==
    /\ AtPump /\ Open(c)
    /\ \E audited, lost \in BOOLEAN : c' \in {StorageFail(c, audited, lost), [c EXCEPT !.storage = TRUE]}

Pause ==
    /\ AtPump /\ ~c.closed
    /\ \E mine, audited, lost \in BOOLEAN :
         c' = Reply(Finish(c, audited, lost), mine, audited, lost)

Disconnect ==
    /\ AtPump
    /\ \E audited, lost \in BOOLEAN : c' = Finish(c, audited, lost)

(* stop_recording: a failed audit or native close leaves it open.          *)
StopRecording ==
    /\ AtPump /\ ~c.closed /\ ~c.pending.live
    /\ \E mine \in BOOLEAN, s \in {c, Fail(c, FALSE), [c EXCEPT !.closed = TRUE]} :
         c' = Reply(s, mine, TRUE, FALSE)

(* A handler that changed the fight's state: a new revision, then the      *)
(* audit and the answer.  A backend that cannot say what it wrote fails.   *)
Completed(s) ==
    \E mine \in BOOLEAN : c' \in {Reply(s, mine, TRUE, FALSE), Reply(Fail(s, FALSE), mine, TRUE, FALSE)}
Failed(s) == \E mine \in BOOLEAN : c' = Reply(Fail(s, FALSE), mine, TRUE, FALSE)

(* initialize leaves the title or main menu, perhaps for a new Board.      *)
Initialize ==
    /\ at = "pump" /\ Open(c) /\ ~c.pending.live /\ c.revision < MaxRevision
    /\ native.board = 0 /\ native.ui = "menu"
    /\ native' \in {native} \cup {n \in Loaded : n.ui = "cards"}
    /\ Explored(native')
    /\ Completed([Revised(c) EXCEPT !.frozen = FALSE, !.thawed = @ \/ c.frozen])
    /\ UNCHANGED at

Sealed(s) == Done(s, "bound") \/ Done(s, "normalized")

RngSeed ==
    /\ Accepting /\ Paused(c) /\ ~Sealed(c)
    /\ Completed([Revised(c) EXCEPT !.prep.seeded = c.epoch])

ClockRestore ==
    /\ at = "pump" /\ Open(c) /\ ~c.pending.live /\ c.revision < MaxRevision
    /\ Paused(c) /\ ~Sealed(c)
    /\ \E k \in 0 .. 1 :
         /\ native' = [native EXCEPT !.clock = k]
         /\ Completed([Revised(c) EXCEPT !.clock = k])
    /\ UNCHANGED at

(* Preparation is only for a fight without a tick, in a process without an *)
(* engine call, before the warm draw.                                      *)
Unused == Paused(c) /\ c.tick = 0 /\ c.calls.entered = 0 /\ ~Done(c, "warmed")

SoundCounterOrigin ==
    /\ Accepting /\ c.silent /\ Unused /\ ~Done(c, "bound")
    /\ \/ /\ Done(c, "seeded") /\ ~Done(c, "normalized")
          /\ Completed([Revised(c) EXCEPT !.prep.bound = c.epoch])
       \/ Failed(Revised(c))

B0Normalization ==
    /\ Accepting /\ c.silent /\ Unused /\ ~Done(c, "normalized") /\ Done(c, "bound")
    /\ \/ Done(c, "seeded") /\ Completed([Revised(c) EXCEPT !.prep.normalized = c.epoch])
       \/ Failed(Revised(c))

PrepareRender ==
    /\ Accepting /\ Paused(c) /\ c.tick = 0 /\ ~Done(c, "warmed")
    /\ c.silent => Done(c, "normalized")
    /\ \/ /\ Done(c, "seeded") /\ (c.silent => Done(c, "bound"))
          /\ Completed([Revised(c) EXCEPT !.prep.warmed = c.epoch])
       \/ Failed(Revised(c))

(* commit/advance: the actions first, each a new revision; a failed one,   *)
(* or a zero budget, ends the request here.                                *)
Started(n) == [c EXCEPT !.pending = [Idle EXCEPT !.live = TRUE, !.requested = n]]
Commit(n) ==
    /\ Accepting /\ Paused(c) /\ Done(c, "warmed")
    /\ c.calls.reserved + n <= MaxCalls
    /\ \E acted \in {Started(n), Revised(Started(n))}, audited, lost \in BOOLEAN :
         \/ c' = Fail(acted, lost)
         \/ n > 0 /\ c' = acted
         \/ (n = 0 \/ acted # Started(n)) /\ c' = Finish(acted, audited, lost)

-----------------------------------------------------------------------------
(* The frame: RunOneEngineFrame.                                           *)

Checked == Boundary(c, native, FALSE)

(* A fault after the scripts or before the update.                         *)
FrameFails ==
    /\ at = "frame"
    /\ \E lost \in BOOLEAN : c' = Fail(c, lost)
    /\ at' = "outside"
    /\ UNCHANGED native

(* Boundary alone: a change the scripts made stops the frame.              *)
FrameRefused ==
    /\ at = "frame" /\ ~Faulted(c.calls) /\ ~ShouldStep(Checked)
    /\ \E lost \in BOOLEAN : c' = Boundary(c, native, lost)
    /\ at' = "outside"
    /\ UNCHANGED native

(* A menu or loading update is not measured.                               *)
MenuFrame ==
    /\ at = "frame" /\ ShouldStep(Checked) /\ ~Checked.ready
    /\ native' \in {native} \cup Gone \cup Loaded
                   \cup (IF native.ui = "cards" THEN {Shown("fight")} ELSE {})
    /\ Explored(native')
    /\ c' \in {Checked, Fail(Checked, FALSE)}
    /\ at' = "outside"

PreAuditFails ==
    /\ at = "frame" /\ ShouldStep(Checked) /\ Checked.ready
    /\ \E lost \in BOOLEAN :
         c' = Fail([Checked EXCEPT !.calls = Abort(ReserveCall(@))], lost)
    /\ at' = "outside"
    /\ UNCHANGED native

EnterUpdate ==
    /\ at = "frame" /\ ShouldStep(Checked) /\ Checked.ready
    /\ c' = [Checked EXCEPT !.calls = Entered(ReserveCall(@)), !.changed = TRUE]
    /\ at' = "update"
    /\ UNCHANGED native

(* A fault reported while the update runs waits for its return.            *)
FailInUpdate ==
    /\ at = "update"
    /\ c' = Fail(c, FALSE)
    /\ UNCHANGED <<native, at>>

Updated ==
    Gone \cup Loaded
    \cup [board : {native.board}, ui : {"fight", "lost"}, made : {native.made},
          clock : {k \in (native.clock - 1) .. (native.clock + 2) : k >= 0}]

UpdateThrows ==
    /\ at = "update"
    /\ native' \in Updated /\ Explored(native')
    /\ \E lost \in BOOLEAN : c' = Fail([c EXCEPT !.calls = Abort(@)], lost)
    /\ at' = "outside"

-----------------------------------------------------------------------------
(* AfterStep, for the game n the update left.                              *)

MeasuredCall(s) == [s EXCEPT !.calls = Returned(@), !.pending.calls = @ + 1]

(* A Board that was replaced or removed has no comparable clock.           *)
BoardLost(n) ==
    /\ n.board # c.board
    /\ \E lost \in BOOLEAN :
         LET s == MeasuredCall(c)
         IN c' = Fail([s EXCEPT !.frozen = TRUE, !.calls = Unverified(@)], lost)

Delta(n) == n.clock - c.clock
Over(n) == ~Fight(n)
ZeroEnd(n) == Over(n) /\ Delta(n) = 0 /\ n.ui = "lost"

Measured(n) ==
    LET s == [MeasuredCall(c) EXCEPT !.clock = n.clock]
    IN IF Delta(n) > 0
       THEN [s EXCEPT !.tick = @ + Delta(n), !.revision = 0, !.pending.executed = @ + Delta(n),
                      !.changed = FALSE]
       ELSE s

(* No post boundary: an earlier fault, a failed draw, a guard fault during *)
(* it, or a failed post audit.  A call whose evidence failed is aborted.   *)
PostMissing(n) ==
    /\ n.board = c.board
    /\ \E lost \in BOOLEAN, k \in {c.calls, Guarded(c.calls)} :
         LET s == [Measured(n) EXCEPT !.calls = Returned(k)]
         IN c' \in {Fail([s EXCEPT !.calls = Unverified(@)], lost), Fail([s EXCEPT !.calls = Abort(@)], lost)}

Verified(n) ==
    [Measured(n) EXCEPT !.calls = CompleteCall(@, TRUE, Delta(n) = 1, ZeroEnd(n), Over(n) /\ Delta(n) = 1)]

Unfaulted(n) == n.board = c.board /\ ~Faulted(c.calls) /\ ~c.fault

(* The fight ended in this update: the reply keeps the old version.        *)
FightEnds(n) ==
    /\ Unfaulted(n) /\ Over(n)
    /\ \E audited, lost \in BOOLEAN :
         LET s == [Verified(n) EXCEPT !.frozen = TRUE]
         IN c' \in {Fail(s, lost)}
                   \cup (IF Delta(n) = 1 \/ ZeroEnd(n)
                         THEN {Boundary(Finish(s, audited, lost), n, FALSE)} ELSE {})


WrongCount(n) ==
    /\ Unfaulted(n) /\ ~Over(n) /\ Delta(n) # 1
    /\ \E audited, lost \in BOOLEAN : c' = Finish([Verified(n) EXCEPT !.frozen = TRUE], audited, lost)

(* One verified tick; the budget or the awaited wave may end the request.  *)
StepDone(n) ==
    /\ Unfaulted(n) /\ ~Over(n) /\ Delta(n) = 1
    /\ \E audited, lost \in BOOLEAN :
         \/ c' = Finish(Verified(n), audited, lost)
         \/ Verified(n).pending.executed < Verified(n).pending.requested /\ c' = Verified(n)

UpdateReturns ==
    /\ at = "update"
    /\ native' \in Updated /\ Explored(native')
    /\ \/ BoardLost(native') \/ PostMissing(native')
       \/ FightEnds(native') \/ WrongCount(native') \/ StepDone(native')
    /\ at' = "outside"

-----------------------------------------------------------------------------

Requests ==
    \/ Rejected \/ Pause \/ Disconnect \/ StopRecording
    \/ Initialize \/ RngSeed \/ ClockRestore
    \/ SoundCounterOrigin \/ B0Normalization \/ PrepareRender
    \/ \E n \in 0 .. MaxTicks : Commit(n)

Loop ==
    \/ GateFails \/ Pump \/ Leave
    \/ FrameFails \/ FrameRefused \/ MenuFrame
    \/ PreAuditFails \/ EnterUpdate
    \/ UpdateThrows \/ UpdateReturns

Next == Requests \/ Loop \/ External \/ GuardFault \/ FailInUpdate

(* The game calls the hook again after every frame, and its update returns *)
(* or throws.                                                              *)
Spec == Init /\ [][Next]_vars /\ WF_vars(Loop)

-----------------------------------------------------------------------------
(* Properties                                                              *)

(* The state has its types.                                                *)
TypeOK ==
    /\ at \in {"outside", "pump", "frame", "update"}
    /\ native \in [board : Nat, ui : {"menu", "cards", "fight", "lost"}, clock : Nat, made : Nat]
    /\ c \in [silent : BOOLEAN, board : Nat, ready : BOOLEAN, clock : Nat, epoch : Nat, tick : Nat, revision : Nat,
              pending : [live : BOOLEAN, requested : Nat, executed : Nat, calls : Nat],
              fault : BOOLEAN, storage : BOOLEAN, frozen : BOOLEAN, closed : BOOLEAN,
              calls : CallsType, prep : [DOMAIN Unprepared -> Nat],
              told : [ticks : Nat, calls : Nat], thawed : BOOLEAN, changed : BOOLEAN]

(* Two states of a running fight never share a version: whatever changed   *)
(* it since an observation, a request expecting that version is stale.     *)
VersionFresh == at = "pump" /\ c.ready /\ ~Stopped(c) => ~c.changed

(* No work is lost or told twice, whatever failed: every entered call is in *)
(* flight, returned or aborted, and only one of these; every returned call *)
(* is in exactly one reply or is the pending request's; and while the run  *)
(* goes on, so is every tick.  A pending request always has budget left    *)
(* when the next frame comes, so "No controlled call budget"               *)
(* (controller.cpp:111) is never thrown.                                   *)
WorkTold ==
    LET k == c.calls
    IN /\ TypeOK
       /\ k.entered = k.returned + k.aborted + One(InFlight(k))
       /\ at = "update" <=> InFlight(k)
       /\ k.steps + k.zero <= k.posts /\ k.posts <= k.returned
       /\ c.told.calls + c.pending.calls = k.returned
       /\ ~Stopped(c) /\ ~c.thawed => c.told.ticks + c.pending.executed = k.steps
       /\ c.pending.live => c.pending.executed < c.pending.requested

(* A measured update runs in a fight that was itself seeded, anchored and  *)
(* warmed: no preparation carries over from an earlier fight.              *)
PreparedSteps ==
    at = "update" => \A flag \in {"seeded", "warmed"} \cup IF c.silent THEN {"bound", "normalized"} ELSE {} :
                        c.prep[flag] = c.epoch

(* A failed, unsaved or closed run stops for good, though requests keep    *)
(* coming: no new call, and within an epoch no new version.  (Only a closed *)
(* run still sees the Board change, which begins an epoch.)                *)
StoppedForGood ==
    [][(c.fault \/ c.storage \/ c.closed) /\ at # "update"
       => /\ c'.calls.entered = c.calls.entered
          /\ \/ c'.epoch = c.epoch /\ c'.tick = c.tick /\ c'.revision = c.revision
             \/ c.closed /\ ~c.fault /\ ~c.storage /\ c'.epoch # c.epoch]_vars

(* An advancement ends: it uses its budget or something stops it.  (With   *)
(* its journal faulted it waits for its client: see the README.)           *)
PendingEnds == c.pending.live ~> (~c.pending.live \/ c.storage)

=============================================================================
