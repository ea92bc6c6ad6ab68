----------------------------- MODULE EngineCalls -----------------------------
(***************************************************************************)
(* EngineCallTracker of runtime/engine_call.hpp as operators on a record   *)
(* "k": the scalar evidence of every original update the runtime lets      *)
(* through.  A call is reserved, entered, returned and completed, or       *)
(* aborted on the way.  faults may be raised from any thread.              *)
(***************************************************************************)
EXTENDS Naturals

Phases == {"idle", "prepared", "entered", "returned"}

NoCalls ==
    [phase |-> "idle", reserved |-> 0, entered |-> 0, returned |-> 0, posts |-> 0,
     steps |-> 0, zero |-> 0, terminalSteps |-> 0, aborted |-> 0, faults |-> 0]

CallsType ==
    [phase : Phases, reserved : Nat, entered : Nat, returned : Nat, posts : Nat, steps : Nat,
     zero : Nat, terminalSteps : Nat, aborted : Nat, faults : Nat]

One(b) == IF b THEN 1 ELSE 0

Active(k) == k.phase # "idle"
InFlight(k) == k.phase = "entered"
Faulted(k) == k.faults # 0

(* GuardEntry while a call is active, or on another thread.                *)
Guarded(k) == [k EXCEPT !.faults = @ + 1]

ReserveCall(k) == [k EXCEPT !.reserved = @ + 1, !.phase = "prepared"]
Entered(k) == [k EXCEPT !.entered = @ + 1, !.phase = "entered"]
Returned(k) == [k EXCEPT !.returned = @ + 1, !.phase = "returned"]

CompleteCall(k, post, step, terminalZero, terminalStep) ==
    [k EXCEPT !.posts = @ + One(post), !.steps = @ + One(step),
              !.zero = @ + One(terminalZero), !.terminalSteps = @ + One(terminalStep),
              !.phase = "idle"]
Unverified(k) == CompleteCall(k, FALSE, FALSE, FALSE, FALSE)

(* A measured return never becomes an aborted invocation.                  *)
Abort(k) ==
    [k EXCEPT !.aborted = @ + One(InFlight(k)), !.faults = @ + 1, !.phase = "idle"]

(* What Health reports.                                                    *)
HealthyCalls(k) ==
    /\ ~Faulted(k) /\ ~Active(k)
    /\ k.reserved = k.entered /\ k.entered = k.returned /\ k.returned = k.posts
    /\ k.returned = k.steps + k.zero
    /\ k.zero <= 1

=============================================================================
