--------------------------- MODULE ControllerProofs ---------------------------
(***************************************************************************)
(* Proofs about Controller: no engine call or tick is lost or told twice,  *)
(* a version names one state, an update only runs in a prepared fight, and *)
(* a failed run stops for good.                                            *)
(*                                                                         *)
(* The handlers are operators on the controller's record, so the lemmas    *)
(* are about records: what ending a request (Ended) and looking at the     *)
(* game (Looked) leave alone, and what each keeps of the invariant Good.   *)
(***************************************************************************)
EXTENDS Controller, TLAPS

PendingType == [live : BOOLEAN, requested : Nat, executed : Nat, calls : Nat]
PrepType == [{"seeded", "bound", "normalized", "warmed"} -> Nat]
ToldType == [ticks : Nat, calls : Nat]
CtlType ==
    [silent : BOOLEAN, board : Nat, ready : BOOLEAN, clock : Nat, epoch : Nat, tick : Nat, revision : Nat,
     pending : PendingType, fault : BOOLEAN, storage : BOOLEAN, frozen : BOOLEAN, closed : BOOLEAN,
     calls : CallsType, prep : PrepType, told : ToldType, thawed : BOOLEAN, changed : BOOLEAN]
NativeType == [board : Nat, ui : {"menu", "cards", "fight", "lost"}, clock : Nat, made : Nat]

(* Every entered call is returned, aborted or in flight, and every         *)
(* returned one is in a reply or in the pending request.                   *)
Counted(s) ==
    /\ s.calls.entered = s.calls.returned + s.calls.aborted + One(InFlight(s.calls))
    /\ s.calls.steps + s.calls.zero <= s.calls.posts /\ s.calls.posts <= s.calls.returned
    /\ s.told.calls + s.pending.calls = s.calls.returned
    /\ ~s.pending.live => s.pending = Idle

(* While the run goes on, so are the ticks; and a request has budget left. *)
Ticked(s) == ~Stopped(s) /\ ~s.thawed => s.told.ticks + s.pending.executed = s.calls.steps
Budget(s) == s.pending.live => s.pending.executed < s.pending.requested

(* The preparation of this epoch was done in its order; only the counter   *)
(* origin may be left from an earlier one, and then nothing follows it.    *)
Prepared(s) ==
    /\ s.epoch # Unset
    /\ s.prep.seeded \in {Unset, s.epoch} /\ s.prep.normalized \in {Unset, s.epoch}
    /\ s.prep.warmed \in {Unset, s.epoch}
    /\ s.prep.bound # Unset /\ s.prep.seeded # Unset => s.prep.bound = s.epoch
    /\ s.prep.normalized # Unset => s.prep.seeded # Unset /\ s.prep.bound # Unset
    /\ s.prep.warmed # Unset => s.prep.seeded # Unset /\ (s.silent => s.prep.normalized # Unset)
    /\ s.pending.live => s.prep.warmed # Unset

(* What the controller last saw of the game n: at the pump it is current,  *)
(* and in the frame a change is one that Boundary will see.                *)
Seen(a, n, s) ==
    /\ n.board <= n.made /\ s.board <= n.made /\ (s.ready => s.board # 0)
    /\ a = "pump" /\ Open(s) =>
          s.ready = Fight(n) /\ (s.ready => s.board = n.board /\ s.clock = n.clock)
    /\ a = "pump" /\ s.ready /\ ~Stopped(s) => ~s.changed
    /\ a \in {"outside", "frame"} /\ s.ready /\ ~Stopped(s) =>
          Moved(s, n) \/ (~s.changed /\ n.clock = s.clock)

Fair(a, n, s) ==
    /\ a \in {"outside", "pump", "frame", "update"} /\ n \in NativeType /\ s \in CtlType
    /\ Counted(s) /\ Ticked(s) /\ Prepared(s) /\ Seen(a, n, s)
    /\ InFlight(s.calls) <=> a = "update"
    /\ a = "update" => s.pending.live
Good(a, n, s) == Fair(a, n, s) /\ Budget(s)

Inv == Good(at, native, c)

-----------------------------------------------------------------------------
(* The call tracker.                                                       *)

(* What a call counts on its way, as far as the invariant looks at it.     *)
SameCounts(k, l) ==
    /\ l \in CallsType /\ l.entered = k.entered /\ l.returned = k.returned /\ l.aborted = k.aborted
    /\ l.posts = k.posts /\ l.steps = k.steps /\ l.zero = k.zero

(* A call that is reserved, and a fault raised by another entry.           *)
LEMMA ReservedCall ==
    ASSUME NEW k \in CallsType
    PROVE  /\ SameCounts(k, ReserveCall(k)) /\ ~InFlight(ReserveCall(k))
           /\ SameCounts(k, Guarded(k)) /\ (InFlight(Guarded(k)) <=> InFlight(k))
<1>1. k.reserved + 1 \in Nat /\ k.faults + 1 \in Nat
  BY DEF CallsType
<1>2. /\ \A e \in Nat : [k EXCEPT !.reserved = e, !.phase = "prepared"] \in CallsType
      /\ \A e \in Nat : [k EXCEPT !.faults = e] \in CallsType
  BY DEF CallsType, Phases
<1>3. ReserveCall(k) \in CallsType /\ Guarded(k) \in CallsType
  BY <1>1, <1>2 DEF ReserveCall, Guarded
<1>4. SameCounts(k, ReserveCall(k)) /\ ~InFlight(ReserveCall(k))
  BY <1>3 DEF CallsType, SameCounts, ReserveCall, InFlight
<1>5. SameCounts(k, Guarded(k)) /\ (InFlight(Guarded(k)) <=> InFlight(k))
  BY <1>3 DEF CallsType, SameCounts, Guarded, InFlight
<1> QED
  BY <1>4, <1>5

(* A call that enters.                                                     *)
LEMMA EnteredCall ==
    ASSUME NEW k \in CallsType
    PROVE  LET l == Entered(k)
           IN /\ l \in CallsType /\ InFlight(l) /\ l.entered = k.entered + 1 /\ l.returned = k.returned
              /\ l.aborted = k.aborted /\ l.posts = k.posts /\ l.steps = k.steps /\ l.zero = k.zero
<1>1. k.entered + 1 \in Nat
  BY DEF CallsType
<1>2. \A e \in Nat : [k EXCEPT !.entered = e, !.phase = "entered"] \in CallsType
  BY DEF CallsType, Phases
<1>3. Entered(k) \in CallsType
  BY <1>1, <1>2 DEF Entered
<1> QED
  BY <1>3 DEF CallsType, Entered, InFlight

(* A call that returns.                                                    *)
LEMMA ReturnedCall ==
    ASSUME NEW k \in CallsType
    PROVE  LET l == Returned(k)
           IN /\ l \in CallsType /\ ~InFlight(l) /\ l.entered = k.entered /\ l.returned = k.returned + 1
              /\ l.aborted = k.aborted /\ l.posts = k.posts /\ l.steps = k.steps /\ l.zero = k.zero
<1>1. k.returned + 1 \in Nat
  BY DEF CallsType
<1>2. \A e \in Nat : [k EXCEPT !.returned = e, !.phase = "returned"] \in CallsType
  BY DEF CallsType, Phases
<1>3. Returned(k) \in CallsType
  BY <1>1, <1>2 DEF Returned
<1> QED
  BY <1>3 DEF CallsType, Returned, InFlight

(* A call that is given up: aborted only if it had not returned.           *)
LEMMA AbortedCall ==
    ASSUME NEW k \in CallsType
    PROVE  LET l == Abort(k)
           IN /\ l \in CallsType /\ ~InFlight(l) /\ l.entered = k.entered /\ l.returned = k.returned
              /\ l.aborted = k.aborted + One(InFlight(k))
              /\ l.posts = k.posts /\ l.steps = k.steps /\ l.zero = k.zero
<1>1. One(InFlight(k)) \in Nat
  BY DEF One
<1>2. k.aborted + One(InFlight(k)) \in Nat /\ k.faults + 1 \in Nat
  BY <1>1 DEF CallsType
<1>3. \A e, f \in Nat : [k EXCEPT !.aborted = e, !.faults = f, !.phase = "idle"] \in CallsType
  BY DEF CallsType, Phases
<1>4. Abort(k) \in CallsType
  BY <1>2, <1>3 DEF Abort
<1> QED
  BY <1>1, <1>4 DEF CallsType, Abort, InFlight

(* Whether a number was counted up.                                        *)
Counts(b, old, new) == (b => new = old + 1) /\ (~b => new = old)

(* From k to l a call was completed, with what was verified of it.         *)
Completes(k, post, step, zero, l) ==
    /\ l \in CallsType /\ ~InFlight(l) /\ l.entered = k.entered /\ l.returned = k.returned
    /\ l.aborted = k.aborted
    /\ Counts(post, k.posts, l.posts) /\ Counts(step, k.steps, l.steps) /\ Counts(zero, k.zero, l.zero)

(* A call that is completed, with what was verified of it.                 *)
LEMMA CompletedCall ==
    ASSUME NEW k \in CallsType, NEW post \in BOOLEAN, NEW step \in BOOLEAN, NEW zero \in BOOLEAN,
           NEW last \in BOOLEAN
    PROVE  Completes(k, post, step, zero, CompleteCall(k, post, step, zero, last))
<1>1. One(post) \in Nat /\ One(step) \in Nat /\ One(zero) \in Nat /\ One(last) \in Nat
  BY DEF One
<1>2. /\ k.posts + One(post) \in Nat /\ k.steps + One(step) \in Nat /\ k.zero + One(zero) \in Nat
      /\ k.terminalSteps + One(last) \in Nat
  BY <1>1 DEF CallsType
<1>3. \A e, f, g, h \in Nat :
          [k EXCEPT !.posts = e, !.steps = f, !.zero = g, !.terminalSteps = h, !.phase = "idle"] \in CallsType
  BY DEF CallsType, Phases
<1>4. CompleteCall(k, post, step, zero, last) \in CallsType
  BY <1>2, <1>3 DEF CompleteCall
<1> DEFINE l == CompleteCall(k, post, step, zero, last)
<1>5. l.posts = k.posts + One(post) /\ l.steps = k.steps + One(step) /\ l.zero = k.zero + One(zero)
  BY <1>1, <1>4 DEF CallsType, CompleteCall
<1>6. /\ Counts(post, k.posts, l.posts) /\ Counts(step, k.steps, l.steps) /\ Counts(zero, k.zero, l.zero)
  <2> HIDE DEF l
  <2> QED
    BY <1>5 DEF Counts, One, CallsType
<1> QED
  BY <1>4, <1>6 DEF CallsType, CompleteCall, InFlight, Completes

(* From k to l the call in flight returned and was verified.               *)
Verifies(k, step, l) ==
    /\ l \in CallsType /\ ~InFlight(l) /\ l.entered = k.entered /\ l.aborted = k.aborted
    /\ l.returned = k.returned + 1 /\ (step => l.steps = k.steps + 1)
    /\ l.steps + l.zero <= l.posts /\ l.posts <= l.returned

(* A call that returned and is verified: a step, the last one or neither.  *)
LEMMA VerifiedCall ==
    ASSUME NEW k \in CallsType, k.steps + k.zero <= k.posts, k.posts <= k.returned,
           NEW post \in BOOLEAN, NEW step \in BOOLEAN, NEW zero \in BOOLEAN, NEW last \in BOOLEAN,
           post, ~(step /\ zero)
    PROVE  Verifies(k, step, CompleteCall(Returned(k), post, step, zero, last))
<1> DEFINE r == Returned(k)
           l == CompleteCall(r, post, step, zero, last)
<1>1. /\ r \in CallsType /\ r.entered = k.entered /\ r.aborted = k.aborted /\ r.returned = k.returned + 1
      /\ r.posts = k.posts /\ r.steps = k.steps /\ r.zero = k.zero
  BY ReturnedCall
<1> HIDE DEF r
<1>2. /\ l \in CallsType /\ ~InFlight(l) /\ l.entered = r.entered /\ l.returned = r.returned
      /\ l.aborted = r.aborted
      /\ Counts(post, r.posts, l.posts) /\ Counts(step, r.steps, l.steps) /\ Counts(zero, r.zero, l.zero)
  <2>1. Completes(r, post, step, zero, l)
    BY <1>1, CompletedCall
  <2> HIDE DEF l
  <2> QED
    BY <2>1 DEF Completes
<1> HIDE DEF l
<1>3. /\ k.steps \in Nat /\ k.zero \in Nat /\ k.posts \in Nat /\ k.returned \in Nat
      /\ l.returned = k.returned + 1
  BY <1>1, <1>2 DEF CallsType
<1>4. l.posts = k.posts + 1 /\ (step => l.steps = k.steps + 1) /\ (~step => l.steps = k.steps)
      /\ (zero => l.zero = k.zero + 1) /\ (~zero => l.zero = k.zero)
  BY <1>1, <1>2 DEF Counts
<1>5. l.steps + l.zero <= l.posts /\ l.posts <= l.returned
  <2>1. CASE step
    BY <1>3, <1>4, <2>1
  <2>2. CASE ~step
    BY <1>3, <1>4, <2>2
  <2> QED
    BY <2>1, <2>2
<1> QED
  BY <1>1, <1>2, <1>4, <1>5 DEF l, r, Verifies

(* A call that returned counts nothing more if it is not verified.         *)
LEMMA UnverifiedCall ==
    ASSUME NEW k \in CallsType, ~InFlight(k)
    PROVE  /\ SameCounts(k, Unverified(k)) /\ ~InFlight(Unverified(k))
           /\ SameCounts(k, Abort(k)) /\ ~InFlight(Abort(k))
<1>1. /\ k.posts + 0 = k.posts /\ k.steps + 0 = k.steps /\ k.zero + 0 = k.zero /\ k.aborted + 0 = k.aborted
      /\ One(FALSE) = 0 /\ One(InFlight(k)) = 0
  BY DEF CallsType, One
<1>2. SameCounts(k, Unverified(k)) /\ ~InFlight(Unverified(k))
  <2>1. PICK no \in BOOLEAN : no = FALSE
    OBVIOUS
  <2> DEFINE l == CompleteCall(k, no, no, no, no)
  <2>2. Completes(k, no, no, no, l)
    BY CompletedCall
  <2>3. Unverified(k) = l
    BY <2>1 DEF Unverified
  <2> HIDE DEF l
  <2> QED
    BY <2>1, <2>2, <2>3 DEF SameCounts, Counts, Completes
<1>3. SameCounts(k, Abort(k)) /\ ~InFlight(Abort(k))
  BY <1>1, AbortedCall DEF SameCounts
<1> QED
  BY <1>2, <1>3

-----------------------------------------------------------------------------
(* Ending a request.                                                       *)

(* What the handlers that end a request leave alone.                       *)
Rest(s) == <<s.silent, s.board, s.ready, s.clock, s.epoch, s.tick, s.revision, s.closed, s.calls, s.prep,
             s.thawed, s.changed>>

(* From s to t the pending request was answered with its work, or not.     *)
Ended(s, t) ==
    /\ t \in CtlType /\ Rest(t) = Rest(s)
    /\ (s.fault => t.fault) /\ (s.storage => t.storage) /\ (s.frozen => t.frozen)
    /\ \/ t.pending = s.pending /\ t.told = s.told
       \/ /\ s.pending.live /\ t.pending = Idle
          /\ t.told = [ticks |-> s.told.ticks + s.pending.executed, calls |-> s.told.calls + s.pending.calls]

(* Nothing need end.                                                       *)
LEMMA EndedSame == \A s \in CtlType : Ended(s, s)
  BY DEF Ended

(* Two handlers in a row end at most the one request.                      *)
LEMMA EndedTwice ==
    ASSUME NEW s \in CtlType, NEW t, NEW u, Ended(s, t), Ended(t, u)
    PROVE  Ended(s, u)
<1>1. u \in CtlType /\ Rest(u) = Rest(s)
  BY DEF Ended
<1>2. (s.fault => u.fault) /\ (s.storage => u.storage) /\ (s.frozen => u.frozen)
  BY DEF Ended
<1>3. CASE t.pending = s.pending /\ t.told = s.told
  BY <1>1, <1>2, <1>3 DEF Ended
<1>4. CASE /\ s.pending.live /\ t.pending = Idle
           /\ t.told = [ticks |-> s.told.ticks + s.pending.executed, calls |-> s.told.calls + s.pending.calls]
  <2>1. ~t.pending.live
    BY <1>4 DEF Idle
  <2>2. u.pending = t.pending /\ u.told = t.told
    BY <2>1 DEF Ended
  <2> QED
    BY <1>1, <1>2, <1>4, <2>2 DEF Ended
<1> QED
  BY <1>3, <1>4 DEF Ended

(* The request is answered.                                                *)
LEMMA SettledEnds ==
    ASSUME NEW s \in CtlType, NEW lost \in BOOLEAN, s.pending.live
    PROVE  Ended(s, Settled(s, lost)) /\ Settled(s, lost).pending = Idle
<1> DEFINE t == Settled(s, lost)
           told == [ticks |-> s.told.ticks + s.pending.executed, calls |-> s.told.calls + s.pending.calls]
<1>1. told \in ToldType /\ Idle \in PendingType
  BY DEF CtlType, ToldType, PendingType, Idle
<1>2. t = [s EXCEPT !.pending = Idle, !.told = told, !.storage = @ \/ lost, !.frozen = @ \/ lost]
  BY DEF Settled
<1> HIDE DEF told
<1>3. t \in CtlType
  BY <1>1, <1>2 DEF CtlType
<1>4. /\ Rest(t) = Rest(s) /\ t.pending = Idle /\ t.told = told
  BY <1>1, <1>2 DEF CtlType, Rest
<1>5. (s.fault => t.fault) /\ (s.storage => t.storage) /\ (s.frozen => t.frozen)
  BY <1>1, <1>2 DEF CtlType
<1> QED
  BY <1>3, <1>4, <1>5 DEF Ended, told

(* Fail ends the request, or leaves it to the update that runs.            *)
LEMMA FailEnds ==
    ASSUME NEW s \in CtlType, NEW lost \in BOOLEAN
    PROVE  /\ Ended(s, Fail(s, lost)) /\ Fail(s, lost).fault
           /\ ~InFlight(s.calls) => ~Fail(s, lost).pending.live
           /\ InFlight(s.calls) => Fail(s, lost).pending = s.pending
<1>1. CASE InFlight(s.calls)
  <2> DEFINE t == Fail(s, lost)
  <2>1. t = [s EXCEPT !.fault = TRUE]
    BY <1>1 DEF Fail
  <2>2. /\ t \in CtlType /\ Rest(t) = Rest(s) /\ t.pending = s.pending /\ t.told = s.told
        /\ t.fault /\ t.storage = s.storage /\ t.frozen = s.frozen
    BY <2>1 DEF CtlType, Rest
  <2> QED
    BY <1>1, <2>2 DEF Ended
<1>2. CASE ~InFlight(s.calls)
  <2> DEFINE t == [s EXCEPT !.fault = TRUE, !.frozen = TRUE]
  <2>1. /\ t \in CtlType /\ Rest(t) = Rest(s) /\ t.pending = s.pending /\ t.told = s.told
        /\ t.fault /\ t.storage = s.storage /\ t.frozen
    BY DEF CtlType, Rest
  <2>2. Fail(s, lost) = IF s.pending.live THEN Settled(t, lost) ELSE t
    BY <1>2 DEF Fail, FailAtOnce
  <2> HIDE DEF t
  <2>3. Ended(s, t)
    BY <2>1 DEF Ended
  <2>4. CASE s.pending.live
    <3>1. Ended(t, Settled(t, lost)) /\ Settled(t, lost).pending = Idle
      BY <2>1, <2>4, SettledEnds
    <3>2. Ended(s, Settled(t, lost)) /\ Settled(t, lost).fault
      BY <2>1, <2>3, <3>1, EndedTwice DEF Ended
    <3> QED
      BY <1>2, <2>2, <2>4, <3>1, <3>2 DEF Idle
  <2>5. CASE ~s.pending.live
    BY <1>2, <2>1, <2>2, <2>3, <2>5
  <2> QED
    BY <2>4, <2>5
<1> QED
  BY <1>1, <1>2

(* Finish answers the pending request, or its audit fails it.              *)
LEMMA FinishEnds ==
    ASSUME NEW s \in CtlType, NEW audited \in BOOLEAN, NEW lost \in BOOLEAN
    PROVE  /\ Ended(s, Finish(s, audited, lost))
           /\ ~InFlight(s.calls) => ~Finish(s, audited, lost).pending.live
  BY SettledEnds, FailEnds, EndedSame DEF Finish, Idle

(* A lost write stops the run and ends the pending request too.            *)
LEMMA StorageFailEnds ==
    ASSUME NEW s \in CtlType, NEW audited \in BOOLEAN, NEW lost \in BOOLEAN
    PROVE  Ended(s, StorageFail(s, audited, lost))
<1> DEFINE t == [s EXCEPT !.storage = TRUE, !.frozen = TRUE]
<1>1. /\ t \in CtlType /\ Rest(t) = Rest(s) /\ t.pending = s.pending /\ t.told = s.told
      /\ t.fault = s.fault /\ t.storage /\ t.frozen
  BY DEF CtlType, Rest
<1>2. StorageFail(s, audited, lost) = Finish(t, audited, lost)
  BY DEF StorageFail
<1> HIDE DEF t
<1>3. Ended(s, t)
  BY <1>1 DEF Ended
<1>4. Ended(t, Finish(t, audited, lost))
  BY <1>1, FinishEnds
<1> QED
  BY <1>2, <1>3, <1>4, EndedTwice

(* An answer that is lost ends the pending request.                        *)
LEMMA ReplyEnds ==
    ASSUME NEW s \in CtlType, NEW mine \in BOOLEAN, NEW audited \in BOOLEAN, NEW lost \in BOOLEAN
    PROVE  Ended(s, Reply(s, mine, audited, lost))
  BY StorageFailEnds, EndedSame DEF Reply

(* A handler's answer may be lost, or its audit fail.                      *)
LEMMA CompletedEnds ==
    ASSUME NEW s \in CtlType, Completed(s) \/ Failed(s)
    PROVE  Ended(s, c')
<1>1. PICK mine \in BOOLEAN : c' = Reply(s, mine, TRUE, FALSE) \/ c' = Reply(Fail(s, FALSE), mine, TRUE, FALSE)
  BY DEF Completed, Failed
<1>2. Ended(s, Reply(s, mine, TRUE, FALSE))
  BY ReplyEnds
<1>3. Ended(s, Fail(s, FALSE)) /\ Fail(s, FALSE) \in CtlType
  BY FailEnds DEF Ended
<1>4. Ended(s, Reply(Fail(s, FALSE), mine, TRUE, FALSE))
  BY <1>3, ReplyEnds, EndedTwice
<1> QED
  BY <1>1, <1>2, <1>4

(* Ending a request keeps the counts and the preparation.                  *)
LEMMA EndedKeeps ==
    ASSUME NEW s \in CtlType, NEW t, Ended(s, t)
    PROVE  /\ t \in CtlType
           /\ t.silent = s.silent /\ t.board = s.board /\ t.ready = s.ready /\ t.clock = s.clock /\ t.epoch = s.epoch
           /\ t.calls = s.calls /\ t.prep = s.prep /\ t.thawed = s.thawed /\ t.changed = s.changed /\ t.closed = s.closed
           /\ (s.fault => t.fault) /\ (s.storage => t.storage) /\ (s.frozen => t.frozen)
           /\ Stopped(s) => Stopped(t)
           /\ Counted(s) => Counted(t)
           /\ Counted(s) /\ Ticked(s) => Ticked(t)
           /\ Prepared(s) => Prepared(t)
           /\ Budget(s) => Budget(t)
<1>1. /\ t \in CtlType
      /\ t.silent = s.silent /\ t.board = s.board /\ t.ready = s.ready /\ t.clock = s.clock /\ t.epoch = s.epoch
      /\ t.calls = s.calls /\ t.prep = s.prep /\ t.thawed = s.thawed /\ t.changed = s.changed /\ t.closed = s.closed
      /\ (s.fault => t.fault) /\ (s.storage => t.storage) /\ (s.frozen => t.frozen)
  BY DEF Ended, Rest
<1>2. Stopped(s) => Stopped(t)
  BY <1>1 DEF Stopped
<1>3. (Counted(s) => Counted(t)) /\ (Counted(s) /\ Ticked(s) => Ticked(t))
  <2>1. CASE t.pending = s.pending /\ t.told = s.told
    BY <1>1, <1>2, <2>1 DEF Counted, Ticked
  <2>2. CASE /\ s.pending.live /\ t.pending = Idle
             /\ t.told = [ticks |-> s.told.ticks + s.pending.executed, calls |-> s.told.calls + s.pending.calls]
    BY <1>1, <1>2, <2>2 DEF Counted, Ticked, Idle, CtlType, PendingType, ToldType
  <2> QED
    BY <2>1, <2>2 DEF Ended
<1>4. Prepared(s) => Prepared(t)
  <2>1. t.pending.live => s.pending.live
    BY DEF Ended, Idle
  <2> QED
    BY <1>1, <2>1 DEF Prepared
<1>5. Budget(s) => Budget(t)
  BY DEF Ended, Budget, Idle
<1> QED
  BY <1>1, <1>2, <1>3, <1>4, <1>5

(* And so it keeps the invariant.                                          *)
LEMMA EndedFair ==
    ASSUME NEW a, NEW n, NEW s, NEW t, Fair(a, n, s), Ended(s, t), a # "update" \/ t.pending = s.pending
    PROVE  Fair(a, n, t) /\ (Budget(s) \/ ~t.pending.live => Good(a, n, t))
<1>1. /\ s \in CtlType /\ t \in CtlType
      /\ t.silent = s.silent /\ t.board = s.board /\ t.ready = s.ready /\ t.clock = s.clock
      /\ t.calls = s.calls /\ t.changed = s.changed /\ t.closed = s.closed
      /\ (s.fault => t.fault) /\ (s.storage => t.storage)
      /\ Stopped(s) => Stopped(t)
      /\ Counted(t) /\ Ticked(t) /\ Prepared(t) /\ (Budget(s) => Budget(t))
  BY EndedKeeps DEF Fair
<1>2. Seen(a, n, t)
  BY <1>1 DEF Fair, Seen, Moved, Open
<1> QED
  BY <1>1, <1>2 DEF Fair, Good, Budget

-----------------------------------------------------------------------------
(* Looking at the game.                                                    *)

(* From s to t the controller took up the game n: in a new epoch if the    *)
(* fight is not the one it knew.                                           *)
Looked(s, n, t) ==
    /\ t \in CtlType /\ t.board = n.board /\ t.ready = Fight(n) /\ t.clock = n.clock
    /\ t.silent = s.silent /\ t.pending = s.pending /\ t.closed = s.closed /\ t.calls = s.calls
    /\ t.told = s.told /\ t.thawed = s.thawed
    /\ ~s.fault /\ ~s.storage /\ ~t.fault /\ ~t.storage /\ (s.frozen => t.frozen)
    /\ \/ /\ ~Moved(s, n)
          /\ t.epoch = s.epoch /\ t.tick = s.tick /\ t.revision = s.revision /\ t.prep = s.prep
          /\ t.changed = s.changed
       \/ /\ Moved(s, n) /\ ~s.pending.live
          /\ t.epoch = s.epoch + 1 /\ ~t.changed
          /\ t.prep = [Unprepared EXCEPT !.bound = s.prep.bound]

(* Boundary fails the pending request of a fight that is gone, and         *)
(* otherwise takes up the game unless the run has failed.                  *)
LEMMA BoundaryEnds ==
    ASSUME NEW s \in CtlType, NEW n \in NativeType, NEW lost \in BOOLEAN
    PROVE  \/ Ended(s, Boundary(s, n, lost)) /\ (Boundary(s, n, lost).fault \/ Boundary(s, n, lost).storage)
           \/ Looked(s, n, Boundary(s, n, lost))
<1> DEFINE t == Boundary(s, n, lost)
           gone == s.ready /\ (~Fight(n) \/ n.board # s.board)
           u == [s EXCEPT !.frozen = @ \/ gone]
<1>1. CASE s.fault \/ s.storage
  BY <1>1, EndedSame DEF Boundary
<1>2. CASE ~s.fault /\ ~s.storage /\ Moved(s, n) /\ s.pending.live
  <2>1. t = Fail(u, lost)
    BY <1>2 DEF Boundary
  <2>2. /\ u \in CtlType /\ Rest(u) = Rest(s) /\ u.pending = s.pending /\ u.told = s.told
        /\ u.fault = s.fault /\ u.storage = s.storage /\ (s.frozen => u.frozen)
    BY DEF CtlType, Rest
  <2> HIDE DEF u
  <2>3. Ended(s, u)
    BY <2>2 DEF Ended
  <2>4. Ended(u, t) /\ t.fault
    BY <2>1, <2>2, FailEnds
  <2> QED
    BY <2>3, <2>4, EndedTwice
<1>3. CASE ~s.fault /\ ~s.storage /\ Moved(s, n) /\ ~s.pending.live
  <2> DEFINE p == [Unprepared EXCEPT !.bound = s.prep.bound]
             f == s.frozen \/ gone
  <2>1. t = [NewEpoch(u) EXCEPT !.board = n.board, !.ready = Fight(n), !.clock = n.clock]
    BY <1>3 DEF Boundary
  <2>2. p \in PrepType /\ f \in BOOLEAN /\ (s.frozen => f)
    BY DEF PrepType, CtlType, Unprepared, Unset
  <2>3. n.board \in Nat /\ Fight(n) \in BOOLEAN /\ n.clock \in Nat
    BY DEF NativeType, Fight
  <2>4. t = [s EXCEPT !.frozen = f, !.epoch = @ + 1, !.tick = 0, !.revision = 0, !.changed = FALSE, !.prep = p,
                      !.board = n.board, !.ready = Fight(n), !.clock = n.clock]
    BY <2>1 DEF NewEpoch, CtlType
  <2> HIDE DEF p, f, t
  <2>5. t \in CtlType
    <3>1. [s EXCEPT !.frozen = f, !.epoch = @ + 1, !.tick = 0, !.revision = 0] \in CtlType
      <4>1. s.epoch + 1 \in Nat
        BY DEF CtlType
      <4>2. \A e \in Nat : [s EXCEPT !.frozen = f, !.epoch = e, !.tick = 0, !.revision = 0] \in CtlType
        BY <2>2 DEF CtlType
      <4> QED
        BY <4>1, <4>2
    <3>2. \A r \in CtlType : [r EXCEPT !.changed = FALSE, !.prep = p, !.board = n.board, !.ready = Fight(n),
                                       !.clock = n.clock] \in CtlType
      BY <2>2, <2>3 DEF CtlType
    <3> QED
      BY <2>4, <3>1, <3>2
  <2>6. /\ t.board = n.board /\ t.ready = Fight(n) /\ t.clock = n.clock
        /\ t.silent = s.silent /\ t.pending = s.pending /\ t.closed = s.closed /\ t.calls = s.calls
        /\ t.told = s.told /\ t.thawed = s.thawed /\ t.fault = s.fault /\ t.storage = s.storage
        /\ t.epoch = s.epoch + 1 /\ ~t.changed /\ t.prep = p /\ t.frozen = f
    BY <2>4 DEF CtlType
  <2> QED
    BY <1>3, <2>2, <2>5, <2>6 DEF Looked, p, t
<1>4. CASE ~s.fault /\ ~s.storage /\ ~Moved(s, n)
  <2>1. t = [s EXCEPT !.board = n.board, !.ready = Fight(n), !.clock = n.clock]
    BY <1>4 DEF Boundary
  <2>2. n.board \in Nat /\ Fight(n) \in BOOLEAN /\ n.clock \in Nat
    BY DEF NativeType, Fight
  <2> HIDE DEF t
  <2>3. t \in CtlType
    BY <2>1, <2>2 DEF CtlType
  <2>4. /\ t.board = n.board /\ t.ready = Fight(n) /\ t.clock = n.clock
        /\ t.silent = s.silent /\ t.pending = s.pending /\ t.closed = s.closed /\ t.calls = s.calls
        /\ t.told = s.told /\ t.thawed = s.thawed /\ t.fault = s.fault /\ t.storage = s.storage
        /\ t.epoch = s.epoch /\ t.tick = s.tick /\ t.revision = s.revision /\ t.prep = s.prep
        /\ t.changed = s.changed /\ t.frozen = s.frozen
    BY <2>1 DEF CtlType
  <2> QED
    BY <1>4, <2>3, <2>4 DEF Looked, t
<1> QED
  BY <1>1, <1>2, <1>3, <1>4

(* What the controller then knows of the game is what the game is.         *)
LEMMA LookedGood ==
    ASSUME NEW a \in {"outside", "frame"}, NEW b \in {"outside", "pump", "frame"}, NEW n, NEW s, NEW t,
           Fair(a, n, s), Looked(s, n, t)
    PROVE  Fair(b, n, t) /\ (Budget(s) => Good(b, n, t))
<1>1. /\ s \in CtlType /\ n \in NativeType /\ t \in CtlType /\ ~InFlight(t.calls)
      /\ t.board = n.board /\ t.ready = Fight(n) /\ t.clock = n.clock
  BY DEF Fair, Looked
<1>2. Stopped(s) => Stopped(t)
  BY DEF Looked, Stopped
<1>3. Counted(t) /\ Ticked(t) /\ (Budget(s) => Budget(t))
  BY <1>2 DEF Fair, Looked, Counted, Ticked, Budget
<1>4. Prepared(t)
  <2>1. CASE ~Moved(s, n)
    BY <2>1 DEF Fair, Looked, Prepared
  <2>2. CASE Moved(s, n)
    <3>1. /\ ~t.pending.live /\ t.epoch = s.epoch + 1
          /\ t.prep.seeded = Unset /\ t.prep.normalized = Unset /\ t.prep.warmed = Unset
      BY <2>2 DEF Looked, Unprepared
    <3> QED
      BY <1>1, <3>1 DEF Prepared, CtlType, Unset
  <2> QED
    BY <2>1, <2>2
<1>5. Seen(b, n, t)
  <2>1. n.board <= n.made /\ n.board \in Nat
    BY DEF Fair, Seen, NativeType
  <2>2. t.ready /\ ~Stopped(t) => ~t.changed
    <3>1. CASE ~Moved(s, n)
      BY <1>1, <1>2, <3>1 DEF Fair, Seen, Looked, Moved
    <3>2. CASE Moved(s, n)
      BY <3>2 DEF Looked
    <3> QED
      BY <3>1, <3>2
  <2> QED
    BY <1>1, <2>1, <2>2 DEF Seen, Fight
<1> QED
  BY <1>1, <1>3, <1>4, <1>5 DEF Fair, Good

-----------------------------------------------------------------------------
(* Requests at the pump.                                                   *)

(* The fields of the invariant's record.                                   *)
LEMMA InvFields ==
    ASSUME Inv
    PROVE  native \in NativeType /\ c \in CtlType /\ Fair(at, native, c) /\ Budget(c)
  BY DEF Inv, Good, Fair

(* A request is handled on a state d that is good, and then answered.      *)
LEMMA Answered ==
    ASSUME at = "pump", UNCHANGED at, NEW d, Good("pump", native', d), Ended(d, c')
    PROVE  Inv'
<1>1. Good("pump", native', c')
  BY EndedFair DEF Good
<1> QED
  BY <1>1 DEF Inv

(* Requests that only end the pending one, close the record or lose a      *)
(* write.                                                                  *)
LEMMA EndingSteps ==
    ASSUME Inv, Rejected \/ Pause \/ Disconnect \/ StopRecording
    PROVE  Inv'
<1>1. c \in CtlType
  BY InvFields
<1>2. at = "pump" /\ UNCHANGED <<native, at>> /\ Good("pump", native', c)
  BY DEF Inv, Rejected, Pause, Disconnect, StopRecording, AtPump
<1>3. CASE Rejected
  <2> DEFINE t == [c EXCEPT !.storage = TRUE]
  <2>1. /\ t \in CtlType /\ Rest(t) = Rest(c) /\ t.pending = c.pending /\ t.told = c.told
        /\ t.fault = c.fault /\ t.storage /\ t.frozen = c.frozen
    BY <1>1 DEF CtlType, Rest
  <2>2. Ended(c, t)
    BY <2>1 DEF Ended
  <2>3. \A audited, lost \in BOOLEAN : Ended(c, StorageFail(c, audited, lost))
    BY <1>1, StorageFailEnds
  <2>4. Ended(c, c')
    BY <1>3, <2>2, <2>3 DEF Rejected
  <2> QED
    BY <1>2, <2>4, Answered
<1>4. CASE Pause
  <2>1. PICK mine, audited, lost \in BOOLEAN : c' = Reply(Finish(c, audited, lost), mine, audited, lost)
    BY <1>4 DEF Pause
  <2>2. Ended(c, Finish(c, audited, lost)) /\ Finish(c, audited, lost) \in CtlType
    BY <1>1, FinishEnds DEF Ended
  <2>3. Ended(c, c')
    BY <1>1, <2>1, <2>2, ReplyEnds, EndedTwice
  <2> QED
    BY <1>2, <2>3, Answered
<1>5. CASE Disconnect
  <2>1. Ended(c, c')
    BY <1>1, <1>5, FinishEnds DEF Disconnect
  <2> QED
    BY <1>2, <2>1, Answered
<1>6. CASE StopRecording
  <2> DEFINE t == [c EXCEPT !.closed = TRUE]
  <2>1. PICK mine \in BOOLEAN, s \in {c, Fail(c, FALSE), t} : c' = Reply(s, mine, TRUE, FALSE)
    BY <1>6 DEF StopRecording
  <2>2. /\ t \in CtlType /\ t.closed /\ t.board = c.board /\ t.ready = c.ready /\ t.silent = c.silent
        /\ t.epoch = c.epoch /\ t.prep = c.prep /\ t.pending = c.pending /\ t.calls = c.calls /\ t.told = c.told
    BY <1>1 DEF CtlType
  <2> HIDE DEF t
  <2>3. Counted(t) /\ Ticked(t) /\ Budget(t) /\ Prepared(t)
    BY <1>2, <2>2 DEF Good, Fair, Counted, Ticked, Budget, Prepared, Stopped
  <2>4. Seen("pump", native', t)
    BY <1>2, <2>2 DEF Good, Fair, Seen, Open, Stopped
  <2>5. Good("pump", native', t)
    BY <1>2, <2>2, <2>3, <2>4 DEF Good, Fair
  <2>6. Good("pump", native', Fail(c, FALSE)) /\ Fail(c, FALSE) \in CtlType
    <3>1. Ended(c, Fail(c, FALSE))
      BY <1>1, FailEnds
    <3> QED
      BY <1>2, <3>1, EndedFair DEF Good, Ended
  <2>7. Good("pump", native', s) /\ s \in CtlType
    BY <1>1, <1>2, <2>2, <2>5, <2>6
  <2> QED
    BY <1>2, <2>1, <2>7, ReplyEnds, Answered
<1> QED
  BY <1>3, <1>4, <1>5, <1>6

(* A new revision, with other preparation flags.                           *)
RevisedTo(s, p, t) == t = [s EXCEPT !.revision = @ + 1, !.changed = FALSE, !.prep = p]

(* A new revision keeps a good state good.                                 *)
LEMMA RevisedGood ==
    ASSUME NEW n, NEW s, NEW p \in PrepType, NEW t, Good("pump", n, s), RevisedTo(s, p, t)
    PROVE  /\ t \in CtlType /\ t.prep = p /\ t.epoch = s.epoch /\ t.silent = s.silent /\ t.pending = s.pending
           /\ Prepared(t) => Good("pump", n, t)
<1>1. s \in CtlType
  BY DEF Good, Fair
<1>2. t \in CtlType
  <2>1. s.revision + 1 \in Nat
    BY <1>1 DEF CtlType
  <2>2. \A e \in Nat : [s EXCEPT !.revision = e, !.changed = FALSE, !.prep = p] \in CtlType
    BY <1>1 DEF CtlType
  <2> QED
    BY <2>1, <2>2 DEF RevisedTo
<1>3. /\ t.silent = s.silent /\ t.board = s.board /\ t.ready = s.ready /\ t.clock = s.clock /\ t.epoch = s.epoch
      /\ t.pending = s.pending /\ t.fault = s.fault /\ t.storage = s.storage /\ t.frozen = s.frozen
      /\ t.closed = s.closed /\ t.calls = s.calls /\ t.told = s.told /\ t.thawed = s.thawed /\ ~t.changed /\ t.prep = p
  BY <1>1 DEF RevisedTo, CtlType
<1>4. Counted(t) /\ Ticked(t) /\ Budget(t)
  BY <1>3 DEF Good, Fair, Counted, Ticked, Budget, Stopped
<1>5. Seen("pump", n, t)
  BY <1>3 DEF Good, Fair, Seen, Open, Stopped
<1> QED
  BY <1>2, <1>3, <1>4, <1>5 DEF Good, Fair

(* The preparation requests, in the order the backend admits them.         *)
LEMMA PreparingSteps ==
    ASSUME Inv, RngSeed \/ SoundCounterOrigin \/ B0Normalization \/ PrepareRender
    PROVE  Inv'
<1>1. c \in CtlType /\ Prepared(c) /\ c.prep \in PrepType /\ c.epoch \in Nat
  BY InvFields DEF Fair, CtlType
<1>2. at = "pump" /\ UNCHANGED <<native, at>> /\ Good("pump", native', c) /\ ~c.pending.live
  BY DEF Inv, RngSeed, SoundCounterOrigin, B0Normalization, PrepareRender, Accepting, AtPump
<1>3. ASSUME NEW t, Good("pump", native', t), Completed(t) \/ Failed(t) PROVE Inv'
  <2>1. t \in CtlType
    BY <1>3 DEF Good, Fair
  <2> QED
    BY <1>2, <1>3, <2>1, CompletedEnds, Answered
<1>4. Good("pump", native', Revised(c))
  <2>1. RevisedTo(c, c.prep, Revised(c))
    BY <1>1 DEF RevisedTo, Revised, CtlType
  <2>2. Prepared(Revised(c))
    BY <1>1, <1>2, <2>1, RevisedGood DEF Prepared
  <2> QED
    BY <1>1, <1>2, <2>1, <2>2, RevisedGood
<1>5. CASE RngSeed
  <2> DEFINE p == [c.prep EXCEPT !["seeded"] = c.epoch]
             t == [Revised(c) EXCEPT !.prep.seeded = c.epoch]
  <2>1. RevisedTo(c, p, t)
    BY <1>1 DEF RevisedTo, Revised, CtlType
  <2>2. /\ p \in PrepType /\ p.seeded = c.epoch /\ p.bound = c.prep.bound
        /\ p.normalized = c.prep.normalized /\ p.warmed = c.prep.warmed
    BY <1>1 DEF PrepType
  <2>3. c.prep.bound = Unset /\ c.prep.normalized = Unset /\ Completed(t)
    BY <1>5 DEF RngSeed, Sealed, Done
  <2> HIDE DEF t, p
  <2>4. Good("pump", native', t)
    <3>1. /\ t.prep = p /\ t.epoch = c.epoch /\ t.silent = c.silent /\ t.pending = c.pending
          /\ Prepared(t) => Good("pump", native', t)
      BY <1>2, <2>1, <2>2, RevisedGood
    <3>2. Prepared(t)
      BY <1>1, <1>2, <2>2, <2>3, <3>1 DEF Prepared
    <3> QED
      BY <3>1, <3>2
  <2> QED
    BY <1>3, <2>3, <2>4
<1>6. CASE SoundCounterOrigin
  <2> DEFINE p == [c.prep EXCEPT !["bound"] = c.epoch]
             t == [Revised(c) EXCEPT !.prep.bound = c.epoch]
  <2>1. RevisedTo(c, p, t)
    BY <1>1 DEF RevisedTo, Revised, CtlType
  <2>2. /\ p \in PrepType /\ p.seeded = c.prep.seeded /\ p.bound = c.epoch
        /\ p.normalized = c.prep.normalized /\ p.warmed = c.prep.warmed
    BY <1>1 DEF PrepType
  <2>3. Failed(Revised(c)) \/ (c.prep.seeded # Unset /\ Completed(t))
    BY <1>6 DEF SoundCounterOrigin, Done
  <2> HIDE DEF t, p
  <2>4. c.prep.seeded # Unset => Good("pump", native', t)
    <3>1. /\ t.prep = p /\ t.epoch = c.epoch /\ t.silent = c.silent /\ t.pending = c.pending
          /\ Prepared(t) => Good("pump", native', t)
      BY <1>2, <2>1, <2>2, RevisedGood
    <3>2. c.prep.seeded # Unset => Prepared(t)
      BY <1>1, <1>2, <2>2, <3>1 DEF Prepared
    <3> QED
      BY <3>1, <3>2
  <2> QED
    BY <1>3, <1>4, <2>3, <2>4
<1>7. CASE B0Normalization
  <2> DEFINE p == [c.prep EXCEPT !["normalized"] = c.epoch]
             t == [Revised(c) EXCEPT !.prep.normalized = c.epoch]
  <2>1. RevisedTo(c, p, t)
    BY <1>1 DEF RevisedTo, Revised, CtlType
  <2>2. /\ p \in PrepType /\ p.seeded = c.prep.seeded /\ p.bound = c.prep.bound
        /\ p.normalized = c.epoch /\ p.warmed = c.prep.warmed
    BY <1>1 DEF PrepType
  <2>3. c.prep.bound # Unset /\ (Failed(Revised(c)) \/ (c.prep.seeded # Unset /\ Completed(t)))
    BY <1>7 DEF B0Normalization, Done
  <2> HIDE DEF t, p
  <2>4. c.prep.seeded # Unset => Good("pump", native', t)
    <3>1. /\ t.prep = p /\ t.epoch = c.epoch /\ t.silent = c.silent /\ t.pending = c.pending
          /\ Prepared(t) => Good("pump", native', t)
      BY <1>2, <2>1, <2>2, RevisedGood
    <3>2. c.prep.seeded # Unset => Prepared(t)
      BY <1>1, <1>2, <2>2, <2>3, <3>1 DEF Prepared
    <3> QED
      BY <3>1, <3>2
  <2> QED
    BY <1>3, <1>4, <2>3, <2>4
<1>8. CASE PrepareRender
  <2> DEFINE p == [c.prep EXCEPT !["warmed"] = c.epoch]
             t == [Revised(c) EXCEPT !.prep.warmed = c.epoch]
  <2>1. RevisedTo(c, p, t)
    BY <1>1 DEF RevisedTo, Revised, CtlType
  <2>2. /\ p \in PrepType /\ p.seeded = c.prep.seeded /\ p.bound = c.prep.bound
        /\ p.normalized = c.prep.normalized /\ p.warmed = c.epoch
    BY <1>1 DEF PrepType
  <2>3. /\ c.silent => c.prep.normalized # Unset
        /\ Failed(Revised(c)) \/ (c.prep.seeded # Unset /\ Completed(t))
    BY <1>8 DEF PrepareRender, Done
  <2> HIDE DEF t, p
  <2>4. c.prep.seeded # Unset => Good("pump", native', t)
    <3>1. /\ t.prep = p /\ t.epoch = c.epoch /\ t.silent = c.silent /\ t.pending = c.pending
          /\ Prepared(t) => Good("pump", native', t)
      BY <1>2, <2>1, <2>2, RevisedGood
    <3>2. c.prep.seeded # Unset => Prepared(t)
      BY <1>1, <1>2, <2>2, <2>3, <3>1 DEF Prepared
    <3> QED
      BY <3>1, <3>2
  <2> QED
    BY <1>3, <1>4, <2>3, <2>4
<1> QED
  BY <1>5, <1>6, <1>7, <1>8

(* Requests that change the game too: initialize and the clock.            *)
LEMMA GameSteps == ASSUME Inv, Initialize \/ ClockRestore PROVE Inv'
<1>1. c \in CtlType /\ native \in NativeType /\ Counted(c) /\ Ticked(c) /\ Prepared(c) /\ Seen("pump", native, c)
  BY InvFields DEF Fair, Initialize, ClockRestore
<1>2. /\ at = "pump" /\ UNCHANGED at /\ Open(c) /\ ~c.pending.live /\ ~InFlight(c.calls)
  BY InvFields DEF Fair, Initialize, ClockRestore
<1>3. c.revision + 1 \in Nat
  BY <1>1 DEF CtlType
<1>4. CASE Initialize
  <2> DEFINE t == [Revised(c) EXCEPT !.frozen = FALSE, !.thawed = @ \/ c.frozen]
  <2>1. /\ native' \in NativeType /\ native'.board <= native'.made /\ c.board <= native'.made
        /\ Fight(native') = FALSE
    BY <1>1, <1>4 DEF Initialize, Loaded, NativeType, CtlType, Seen, Fight
  <2>2. c.ready = FALSE
    BY <1>1, <1>2, <1>4 DEF Initialize, Seen, Fight
  <2>3. t \in CtlType
    BY <1>1, <1>3 DEF Revised, CtlType
  <2>4. /\ t.silent = c.silent /\ t.board = c.board /\ t.ready = c.ready /\ t.epoch = c.epoch /\ t.pending = c.pending
        /\ t.fault = c.fault /\ t.storage = c.storage /\ t.closed = c.closed /\ t.calls = c.calls /\ t.prep = c.prep
        /\ t.told = c.told /\ t.thawed = (c.thawed \/ c.frozen)
    BY <1>1 DEF Revised, CtlType
  <2>5. Completed(t)
    BY <1>4 DEF Initialize
  <2> HIDE DEF t
  <2>6. Counted(t) /\ Ticked(t) /\ Prepared(t) /\ Budget(t)
    BY <1>1, <1>2, <2>4 DEF Counted, Ticked, Prepared, Budget, Stopped, Open
  <2>7. Seen("pump", native', t)
    BY <1>1, <2>1, <2>2, <2>4 DEF Seen
  <2>8. Good("pump", native', t)
    BY <1>2, <2>1, <2>3, <2>4, <2>6, <2>7 DEF Good, Fair
  <2> QED
    BY <1>2, <2>3, <2>5, <2>8, CompletedEnds, Answered
<1>5. CASE ClockRestore
  <2>1. PICK k \in 0 .. 1 : native' = [native EXCEPT !.clock = k] /\ Completed([Revised(c) EXCEPT !.clock = k])
    BY <1>5 DEF ClockRestore
  <2> DEFINE t == [Revised(c) EXCEPT !.clock = k]
  <2>2. /\ native' \in NativeType /\ native'.board = native.board /\ native'.ui = native.ui
        /\ native'.made = native.made /\ native'.clock = k
    BY <1>1, <2>1 DEF NativeType
  <2>3. t \in CtlType
    <3>1. \A e \in Nat : \A l \in Nat : [c EXCEPT !.revision = e, !.changed = FALSE, !.clock = l] \in CtlType
      BY <1>1 DEF CtlType
    <3>2. k \in Nat /\ t = [c EXCEPT !.revision = @ + 1, !.changed = FALSE, !.clock = k]
      BY <2>1 DEF Revised
    <3> QED
      BY <1>3, <3>1, <3>2
  <2>4. /\ t.silent = c.silent /\ t.board = c.board /\ t.ready = c.ready /\ t.epoch = c.epoch /\ t.pending = c.pending
        /\ t.fault = c.fault /\ t.storage = c.storage /\ t.closed = c.closed /\ t.calls = c.calls /\ t.prep = c.prep
        /\ t.told = c.told /\ t.thawed = c.thawed /\ t.frozen = c.frozen /\ ~t.changed /\ t.clock = k
    BY <1>1 DEF Revised, CtlType
  <2> HIDE DEF t
  <2>5. Counted(t) /\ Ticked(t) /\ Prepared(t) /\ Budget(t)
    BY <1>1, <1>2, <2>4 DEF Counted, Ticked, Prepared, Budget, Stopped
  <2>6. Seen("pump", native', t)
    BY <1>1, <1>2, <2>2, <2>4 DEF Seen, Fight
  <2>7. Good("pump", native', t)
    BY <1>2, <2>2, <2>3, <2>4, <2>5, <2>6 DEF Good, Fair
  <2> QED
    BY <1>2, <2>1, <2>3, <2>7, CompletedEnds, Answered DEF t
<1> QED
  BY <1>4, <1>5

(* An advancement begins with nothing counted, and has a tick to run or is *)
(* answered at once.                                                       *)
LEMMA CommitStep == ASSUME Inv, NEW n \in Nat, Commit(n) PROVE Inv'
<1>1. c \in CtlType /\ Fair("pump", native, c) /\ Counted(c) /\ Ticked(c) /\ Prepared(c) /\ Seen("pump", native, c)
  BY InvFields DEF Fair, Commit, Accepting, AtPump
<1>2. /\ at = "pump" /\ UNCHANGED <<at, native>> /\ c.pending = Idle /\ c.prep.warmed # Unset
      /\ ~InFlight(c.calls)
  BY <1>1 DEF Fair, Counted, Commit, Accepting, AtPump, Done
<1> DEFINE q == [Idle EXCEPT !.live = TRUE, !.requested = n]
           s == Started(n)
<1>3. /\ s = [c EXCEPT !.pending = q] /\ q \in PendingType
      /\ q.live /\ q.requested = n /\ q.executed = 0 /\ q.calls = 0
  BY DEF Started, PendingType, Idle
<1> HIDE DEF q
<1>4. s \in CtlType
  BY <1>1, <1>3 DEF CtlType
<1>5. /\ s.silent = c.silent /\ s.board = c.board /\ s.ready = c.ready /\ s.clock = c.clock /\ s.epoch = c.epoch
      /\ s.pending = q /\ s.fault = c.fault /\ s.storage = c.storage /\ s.frozen = c.frozen /\ s.closed = c.closed
      /\ s.calls = c.calls /\ s.prep = c.prep /\ s.told = c.told /\ s.thawed = c.thawed /\ s.changed = c.changed
  BY <1>1, <1>3 DEF CtlType
<1> HIDE DEF s
<1>6. Fair("pump", native', s) /\ (n > 0 => Budget(s))
  <2>1. Counted(s) /\ Ticked(s)
    BY <1>1, <1>2, <1>3, <1>5 DEF Counted, Ticked, Stopped, Idle
  <2>2. Prepared(s)
    BY <1>1, <1>2, <1>5 DEF Prepared
  <2>3. Seen("pump", native', s)
    BY <1>1, <1>2, <1>5 DEF Seen, Open, Stopped
  <2>4. native' \in NativeType
    BY <1>1, <1>2 DEF Fair
  <2> QED
    BY <1>2, <1>3, <1>4, <1>5, <2>1, <2>2, <2>3, <2>4 DEF Fair, Budget
<1>7. Fair("pump", native', Revised(s)) /\ (n > 0 => Budget(Revised(s)))
  <2> DEFINE t == Revised(s)
  <2>1. t \in CtlType
    <3>1. \A e \in Nat : [s EXCEPT !.revision = e, !.changed = FALSE] \in CtlType
      BY <1>4 DEF CtlType
    <3>2. s.revision + 1 \in Nat
      BY <1>4 DEF CtlType
    <3> QED
      BY <3>1, <3>2 DEF Revised
  <2>2. /\ t.silent = s.silent /\ t.board = s.board /\ t.ready = s.ready /\ t.clock = s.clock /\ t.epoch = s.epoch
        /\ t.pending = s.pending /\ t.fault = s.fault /\ t.storage = s.storage /\ t.frozen = s.frozen /\ t.closed = s.closed
        /\ t.calls = s.calls /\ t.prep = s.prep /\ t.told = s.told /\ t.thawed = s.thawed /\ ~t.changed
    BY <1>4 DEF Revised, CtlType
  <2> HIDE DEF t
  <2>3. Counted(t) /\ Ticked(t) /\ Prepared(t) /\ Seen("pump", native', t)
    BY <1>6, <2>2 DEF Fair, Counted, Ticked, Prepared, Seen, Stopped, Open
  <2> QED
    BY <1>6, <2>1, <2>2, <2>3 DEF Fair, Budget, t
<1>8. PICK acted \in {s, Revised(s)}, audited \in BOOLEAN, lost \in BOOLEAN :
         \/ c' = Fail(acted, lost)
         \/ n > 0 /\ c' = acted
         \/ c' = Finish(acted, audited, lost)
  BY DEF Commit, s
<1>9. Fair("pump", native', acted) /\ (n > 0 => Budget(acted)) /\ acted \in CtlType /\ ~InFlight(acted.calls)
  BY <1>6, <1>7 DEF Fair
<1>10. Good("pump", native', c')
  <2>1. CASE c' = Fail(acted, lost)
    BY <1>9, <2>1, FailEnds, EndedFair
  <2>2. CASE c' = Finish(acted, audited, lost)
    BY <1>9, <2>2, FinishEnds, EndedFair
  <2>3. CASE n > 0 /\ c' = acted
    BY <1>9, <2>3 DEF Good
  <2> QED
    BY <1>8, <2>1, <2>2, <2>3
<1> QED
  BY <1>2, <1>10 DEF Inv

-----------------------------------------------------------------------------
(* The game's own steps and the pump.                                      *)

(* The pump is left for the scripts and the frame, or for nothing.         *)
LEMMA LeaveStep == ASSUME Inv, Leave PROVE Inv'
<1>1. Fair("pump", native, c) /\ Budget(c) /\ at' \in {"frame", "outside"} /\ UNCHANGED <<native, c>>
  BY InvFields DEF Leave
<1>2. Seen(at', native', c')
  BY <1>1 DEF Fair, Seen, Open, Stopped
<1> QED
  BY <1>1, <1>2 DEF Fair, Good, Inv

(* A change of the fight outside a measured update is one that Boundary    *)
(* sees.                                                                   *)
LEMMA ExternalStep == ASSUME Inv, External PROVE Inv'
<1>1. /\ native \in NativeType /\ c \in CtlType /\ Fair(at, native, c) /\ Budget(c) /\ at \in {"outside", "frame"}
      /\ c' = [c EXCEPT !.changed = TRUE] /\ UNCHANGED at
  BY InvFields DEF External
<1>2. /\ c' \in CtlType
      /\ c'.silent = c.silent /\ c'.board = c.board /\ c'.ready = c.ready /\ c'.clock = c.clock /\ c'.epoch = c.epoch
      /\ c'.pending = c.pending /\ c'.fault = c.fault /\ c'.storage = c.storage /\ c'.frozen = c.frozen
      /\ c'.closed = c.closed /\ c'.calls = c.calls /\ c'.prep = c.prep /\ c'.told = c.told /\ c'.thawed = c.thawed
  BY <1>1 DEF CtlType
<1>3. Counted(c') /\ Ticked(c') /\ Prepared(c') /\ Budget(c')
  BY <1>1, <1>2 DEF Fair, Counted, Ticked, Prepared, Budget, Stopped
<1>4. /\ native' \in NativeType /\ native'.board <= native'.made /\ c.board <= native'.made
      /\ c.ready /\ ~Stopped(c) => Moved(c, native')
  <2>1. /\ native.board <= native.made /\ c.board <= native.made /\ (c.ready => c.board # 0)
        /\ c.ready /\ ~Stopped(c) => Moved(c, native) \/ native.clock = c.clock
        /\ c.board \in Nat /\ c.clock \in Nat
    BY <1>1 DEF Fair, Seen, CtlType
  <2>2. CASE native' \in Gone
    <3>1. native' = [native EXCEPT !.board = 0, !.ui = "menu", !.clock = 0]
      BY <2>2 DEF Gone
    <3>2. native' \in NativeType /\ native'.board = 0 /\ native'.made = native.made /\ native.made \in Nat
      BY <1>1, <3>1 DEF NativeType
    <3> QED
      BY <2>1, <3>2 DEF Moved
  <2>3. CASE native' \in Loaded
    BY <1>1, <2>1, <2>3 DEF Loaded, NativeType, Moved
  <2>4. CASE native' = Shown("lost")
    BY <1>1, <2>1, <2>4 DEF Shown, NativeType, Moved, Fight
  <2>5. CASE \E k \in 0 .. (native.clock - 1) : native' = [native EXCEPT !.clock = k]
    <3>1. PICK k \in 0 .. (native.clock - 1) : native' = [native EXCEPT !.clock = k]
      BY <2>5
    <3>2. k \in Nat /\ k < native.clock /\ native.clock \in Nat
      BY <1>1 DEF NativeType
    <3>3. /\ native' \in NativeType /\ native'.board = native.board /\ native'.ui = native.ui
          /\ native'.made = native.made /\ native'.clock = k
      BY <1>1, <3>1, <3>2 DEF NativeType
    <3>4. CASE Moved(c, native)
      BY <2>1, <3>2, <3>3, <3>4 DEF Moved, Fight
    <3>5. CASE c.ready /\ ~Stopped(c) /\ native.clock = c.clock
      BY <2>1, <3>2, <3>3, <3>5 DEF Moved
    <3> QED
      BY <2>1, <3>3, <3>4, <3>5
  <2> QED
    BY <2>2, <2>3, <2>4, <2>5 DEF External
<1>5. Seen(at', native', c')
  <2>1. Stopped(c') <=> Stopped(c)
    BY <1>2 DEF Stopped
  <2>2. Moved(c, native') => Moved(c', native')
    BY <1>2 DEF Moved
  <2> QED
    BY <1>1, <1>2, <1>4, <2>1, <2>2 DEF Fair, Seen
<1> QED
  BY <1>1, <1>2, <1>3, <1>4, <1>5 DEF Fair, Good, Inv

(* Other scalars of the call tracker are not counted.                      *)
LEMMA CallsGood ==
    ASSUME NEW a, NEW n, NEW s, NEW k \in CallsType, NEW t, Good(a, n, s), t = [s EXCEPT !.calls = k],
           InFlight(k) <=> InFlight(s.calls), SameCounts(s.calls, k)
    PROVE  Good(a, n, t)
<1>1. s \in CtlType
  BY DEF Good, Fair
<1>2. /\ t \in CtlType /\ t.calls = k
      /\ t.silent = s.silent /\ t.board = s.board /\ t.ready = s.ready /\ t.clock = s.clock /\ t.epoch = s.epoch
      /\ t.pending = s.pending /\ t.fault = s.fault /\ t.storage = s.storage /\ t.frozen = s.frozen
      /\ t.closed = s.closed /\ t.prep = s.prep /\ t.told = s.told /\ t.thawed = s.thawed /\ t.changed = s.changed
  BY <1>1 DEF CtlType
<1>3. Counted(t) /\ Ticked(t) /\ Budget(t) /\ Prepared(t)
  BY <1>2 DEF Good, Fair, Counted, Ticked, Budget, Prepared, Stopped, One, SameCounts
<1>4. Seen(a, n, t)
  BY <1>2 DEF Good, Fair, Seen, Open, Stopped, Moved
<1> QED
  BY <1>2, <1>3, <1>4 DEF Good, Fair

(* The hook is entered a second time.                                      *)
LEMMA GuardFaultStep == ASSUME Inv, GuardFault PROVE Inv'
<1> DEFINE k == Guarded(c.calls)
<1>1. c.calls \in CallsType /\ c' = [c EXCEPT !.calls = k] /\ UNCHANGED <<native, at>>
  BY InvFields DEF CtlType, GuardFault
<1>2. k \in CallsType /\ SameCounts(c.calls, k) /\ (InFlight(k) <=> InFlight(c.calls))
  BY <1>1, ReservedCall DEF SameCounts
<1> HIDE DEF k
<1>3. Good(at, native, c')
  BY <1>1, <1>2, CallsGood DEF Inv
<1> QED
  BY <1>1, <1>3 DEF Inv

(* Where a failed run's game thread is, it has nothing to see.             *)
LEMMA FailedAnywhere ==
    ASSUME NEW a \in {"outside", "pump", "frame"}, NEW b \in {"outside", "pump", "frame"}, NEW n, NEW m \in NativeType,
           NEW s, Good(a, n, s), s.fault \/ s.storage, m.board <= m.made, n.made <= m.made
    PROVE  Good(b, m, s)
<1>1. /\ Seen(a, n, s) /\ s \in CtlType /\ n \in NativeType /\ Stopped(s) /\ ~Open(s)
  BY DEF Good, Fair, Stopped, Open
<1>2. s.board \in Nat /\ n.made \in Nat /\ m.made \in Nat
  BY <1>1 DEF CtlType, NativeType
<1>3. Seen(b, m, s)
  BY <1>1, <1>2 DEF Seen
<1> QED
  BY <1>3 DEF Good, Fair

(* The pump looks at the game, unless a gate has failed the run.           *)
LEMMA PumpSteps == ASSUME Inv, GateFails \/ Pump PROVE Inv'
<1>1. /\ native \in NativeType /\ c \in CtlType /\ Good("outside", native, c) /\ at' = "pump" /\ UNCHANGED native
      /\ native.board <= native.made /\ native.made \in Nat
  BY InvFields DEF Inv, GateFails, Pump, Fair, Seen, NativeType
<1>2. ASSUME Ended(c, c'), c'.fault \/ c'.storage PROVE Inv'
  <2>1. Good("outside", native, c')
    BY <1>1, <1>2, EndedFair DEF Good
  <2>2. Good("pump", native, c')
    BY <1>1, <1>2, <2>1, FailedAnywhere
  <2> QED
    BY <1>1, <2>2 DEF Inv
<1>3. CASE GateFails
  BY <1>1, <1>2, <1>3, FailEnds DEF GateFails
<1>4. CASE Pump
  <2>1. PICK lost \in BOOLEAN : c' = Boundary(c, native, lost)
    BY <1>4 DEF Pump
  <2>2. CASE Looked(c, native, c')
    <3>1. Good("pump", native, c')
      BY <1>1, <2>2, LookedGood DEF Good
    <3> QED
      BY <1>1, <3>1 DEF Inv
  <2> QED
    BY <1>1, <1>2, <2>1, <2>2, BoundaryEnds
<1> QED
  BY <1>3, <1>4

-----------------------------------------------------------------------------
(* The frame.                                                              *)

(* A frame that goes on has taken up the game.                             *)
LEMMA CheckedGood ==
    ASSUME Inv, at = "frame", ShouldStep(Checked)
    PROVE  /\ Checked \in CtlType /\ Good("frame", native, Checked) /\ Good("outside", native, Checked)
           /\ ~Stopped(Checked) /\ (Checked.ready => Checked.pending.live)
<1>1. native \in NativeType /\ c \in CtlType /\ Good("frame", native, c)
  BY InvFields DEF Inv
<1>2. ~Stopped(Checked) /\ (Checked.ready => Checked.pending.live)
  BY DEF ShouldStep
<1>3. ~Checked.fault /\ ~Checked.storage
  BY <1>2 DEF Stopped
<1>4. Looked(c, native, Checked)
  BY <1>1, <1>3, BoundaryEnds DEF Checked
<1> QED
  BY <1>1, <1>2, <1>4, LookedGood DEF Good, Looked

(* What a game step may leave is a game, and its Boards are numbered.      *)
LEMMA NativeGrows ==
    ASSUME native \in NativeType, native.board <= native.made,
           \/ native' \in {native} \cup Gone \cup Loaded
                          \cup (IF native.ui = "cards" THEN {Shown("fight")} ELSE {})
           \/ native' \in Updated
    PROVE  native' \in NativeType /\ native'.board <= native'.made /\ native.made <= native'.made
<1>1. CASE native' \in Gone
  <2>1. native' = [native EXCEPT !.board = 0, !.ui = "menu", !.clock = 0]
    BY <1>1 DEF Gone
  <2>2. native' \in NativeType /\ native'.board = 0 /\ native'.made = native.made /\ native.made \in Nat
    BY <2>1 DEF NativeType
  <2> QED
    BY <2>2
<1>2. CASE native' \in Loaded
  BY <1>2 DEF Loaded, NativeType
<1>3. CASE native' = Shown("fight")
  <2>1. native' \in NativeType /\ native'.board = native.board /\ native'.made = native.made /\ native.made \in Nat
    BY <1>3 DEF Shown, NativeType
  <2> QED
    BY <2>1
<1>4. CASE native' \in [board : {native.board}, ui : {"fight", "lost"}, made : {native.made},
                        clock : {k \in (native.clock - 1) .. (native.clock + 2) : k >= 0}]
  BY <1>4 DEF NativeType
<1>5. CASE native' = native
  BY <1>5 DEF NativeType
<1>6. CASE native' \in {native} \cup Gone \cup Loaded \cup (IF native.ui = "cards" THEN {Shown("fight")} ELSE {})
  BY <1>1, <1>2, <1>3, <1>5, <1>6
<1>7. CASE native' \in Updated
  BY <1>1, <1>2, <1>4, <1>7 DEF Updated
<1> QED
  BY <1>6, <1>7

(* The steps of a frame before its update.                                 *)
LEMMA FrameSteps ==
    ASSUME Inv, FrameFails \/ FrameRefused \/ MenuFrame \/ PreAuditFails \/ EnterUpdate
    PROVE  Inv'
<1>1. /\ native \in NativeType /\ c \in CtlType /\ Good("frame", native, c) /\ at = "frame"
      /\ native.board <= native.made /\ native.made \in Nat
  BY InvFields DEF Inv, FrameFails, FrameRefused, MenuFrame, PreAuditFails, EnterUpdate, Fair, Seen, NativeType
<1>2. ASSUME Ended(c, c'), c'.fault \/ c'.storage, at' = "outside", UNCHANGED native PROVE Inv'
  <2>1. Good("frame", native, c')
    BY <1>1, <1>2, EndedFair DEF Good
  <2>2. Good("outside", native, c')
    BY <1>1, <1>2, <2>1, FailedAnywhere
  <2> QED
    BY <1>2, <2>2 DEF Inv
<1>3. CASE FrameFails
  BY <1>1, <1>2, <1>3, FailEnds DEF FrameFails
<1>4. CASE FrameRefused
  <2>1. PICK lost \in BOOLEAN : c' = Boundary(c, native, lost)
    BY <1>4 DEF FrameRefused
  <2>2. at' = "outside" /\ UNCHANGED native
    BY <1>4 DEF FrameRefused
  <2>3. CASE Looked(c, native, c')
    <3>1. Good("outside", native, c')
      BY <1>1, <2>3, LookedGood DEF Good
    <3> QED
      BY <2>2, <3>1 DEF Inv
  <2> QED
    BY <1>1, <1>2, <2>1, <2>2, <2>3, BoundaryEnds
<1> DEFINE s == Checked
<1>5. ASSUME ShouldStep(s)
      PROVE  /\ s \in CtlType /\ Good("frame", native, s) /\ Good("outside", native, s)
             /\ ~Stopped(s) /\ (s.ready => s.pending.live)
  BY <1>1, <1>5, CheckedGood
<1>6. CASE MenuFrame
  <2>1. ShouldStep(s) /\ ~s.ready /\ c' \in {s, Fail(s, FALSE)} /\ at' = "outside"
    BY <1>6 DEF MenuFrame
  <2> HIDE DEF s
  <2>2. native' \in NativeType /\ native'.board <= native'.made /\ native.made <= native'.made
    BY <1>1, <1>6, NativeGrows DEF MenuFrame
  <2>3. Seen("outside", native', s)
    <3>1. s.board <= native.made /\ s.board \in Nat /\ native.made \in Nat /\ native'.made \in Nat
      BY <1>1, <1>5, <2>1, <2>2 DEF Good, Fair, Seen, CtlType, NativeType
    <3> QED
      BY <2>1, <2>2, <3>1 DEF Seen
  <2>4. Good("outside", native', s)
    BY <1>5, <2>1, <2>2, <2>3 DEF Good, Fair
  <2>5. Good("outside", native', Fail(s, FALSE))
    BY <1>5, <2>1, <2>4, FailEnds, EndedFair DEF Good
  <2> QED
    BY <2>1, <2>4, <2>5 DEF Inv
<1>7. CASE PreAuditFails
  <2> DEFINE k == Abort(ReserveCall(s.calls))
             t == [s EXCEPT !.calls = k]
  <2>1. PICK lost \in BOOLEAN : c' = Fail(t, lost)
    BY <1>7 DEF PreAuditFails
  <2>2. ShouldStep(s) /\ at' = "outside" /\ UNCHANGED native
    BY <1>7 DEF PreAuditFails
  <2> HIDE DEF s
  <2>3. s.calls \in CallsType /\ ~InFlight(s.calls) /\ s \in CtlType
    BY <1>5, <2>2 DEF Good, Fair, CtlType
  <2>4. k \in CallsType /\ ~InFlight(k) /\ SameCounts(s.calls, k)
    <3>1. LET l == ReserveCall(s.calls) IN l \in CallsType /\ ~InFlight(l) /\ SameCounts(s.calls, l)
      BY <2>3, ReservedCall DEF SameCounts
    <3>2. k \in CallsType /\ ~InFlight(k) /\ k.aborted = s.calls.aborted + 0
      BY <3>1, AbortedCall DEF SameCounts, One
    <3> QED
      BY <2>3, <3>1, <3>2, AbortedCall DEF SameCounts, CallsType
  <2> HIDE DEF k
  <2>5. Good("outside", native, t)
    BY <1>5, <2>2, <2>3, <2>4, CallsGood
  <2>6. Good("outside", native, c')
    <3>1. t \in CtlType
      BY <2>5 DEF Good, Fair
    <3>2. Ended(t, c')
      BY <2>1, <3>1, FailEnds
    <3> HIDE DEF t
    <3> QED
      BY <2>5, <3>2, EndedFair DEF Good
  <2> QED
    BY <2>2, <2>6 DEF Inv
<1>8. CASE EnterUpdate
  <2> DEFINE k == Entered(ReserveCall(s.calls))
  <2>1. /\ ShouldStep(s) /\ s.ready /\ at' = "update" /\ UNCHANGED native
        /\ c' = [s EXCEPT !.calls = k, !.changed = TRUE]
    BY <1>8 DEF EnterUpdate
  <2> HIDE DEF s
  <2>2. s.calls \in CallsType /\ ~InFlight(s.calls) /\ s \in CtlType /\ s.pending.live
    BY <1>5, <2>1 DEF Good, Fair, CtlType
  <2>3. /\ k \in CallsType /\ InFlight(k) /\ k.entered = s.calls.entered + 1
        /\ k.returned = s.calls.returned /\ k.aborted = s.calls.aborted /\ k.posts = s.calls.posts
        /\ k.steps = s.calls.steps /\ k.zero = s.calls.zero
    BY <2>2, ReservedCall, EnteredCall DEF SameCounts
  <2> HIDE DEF k
  <2>4. /\ c' \in CtlType /\ c'.calls = k
        /\ c'.silent = s.silent /\ c'.board = s.board /\ c'.ready = s.ready /\ c'.epoch = s.epoch
        /\ c'.pending = s.pending /\ c'.fault = s.fault /\ c'.storage = s.storage /\ c'.frozen = s.frozen
        /\ c'.closed = s.closed /\ c'.prep = s.prep /\ c'.told = s.told /\ c'.thawed = s.thawed
    BY <2>1, <2>2, <2>3 DEF CtlType
  <2>5. Counted(s) /\ Ticked(s) /\ Prepared(s) /\ Budget(s) /\ Seen("outside", native, s)
    BY <1>5, <2>1 DEF Good, Fair
  <2>6. Counted(c') /\ Ticked(c') /\ Prepared(c') /\ Budget(c')
    <3>1. Counted(c')
      BY <2>2, <2>3, <2>4, <2>5 DEF Counted, One, CallsType
    <3> QED
      BY <2>3, <2>4, <2>5, <3>1 DEF Ticked, Prepared, Budget, Stopped
  <2>7. Seen("update", native, c')
    BY <2>4, <2>5 DEF Seen
  <2> QED
    BY <1>1, <2>1, <2>2, <2>3, <2>4, <2>6, <2>7 DEF Good, Fair, Inv
<1> QED
  BY <1>3, <1>4, <1>6, <1>7, <1>8

-----------------------------------------------------------------------------
(* The update and its return.                                              *)

(* A measured call is counted in the request that is alive.                *)
LEMMA CallReturned ==
    ASSUME Counted(c), Prepared(c), c \in CtlType, InFlight(c.calls), c.pending.live, NEW d \in CtlType,
           d.silent = c.silent, d.epoch = c.epoch, d.prep = c.prep, d.told = c.told, d.pending.live,
           d.pending.calls = c.pending.calls + 1, d.calls.entered = c.calls.entered,
           d.calls.returned = c.calls.returned + 1, d.calls.aborted = c.calls.aborted, ~InFlight(d.calls),
           d.calls.steps + d.calls.zero <= d.calls.posts, d.calls.posts <= d.calls.returned
    PROVE  Counted(d) /\ Prepared(d)
<1>1. Counted(d)
  BY DEF Counted, One, CtlType, CallsType, PendingType, ToldType
<1>2. Prepared(d)
  BY DEF Prepared
<1> QED
  BY <1>1, <1>2

(* After an update the request is answered, and the run has stopped or     *)
(* knows the game's clock.                                                 *)
LEMMA AfterUpdate ==
    ASSUME NEW d \in CtlType, NEW n \in NativeType, NEW t, Counted(d), Prepared(d), ~InFlight(d.calls),
           Ended(d, t), Budget(t), n.board <= n.made, d.board <= n.made, d.ready => d.board # 0,
           Stopped(t) \/ (Ticked(d) /\ ~d.changed /\ d.clock = n.clock)
    PROVE  Good("outside", n, t)
<1>1. /\ t \in CtlType /\ t.board = d.board /\ t.ready = d.ready /\ t.clock = d.clock
      /\ t.calls = d.calls /\ t.changed = d.changed
      /\ Counted(t) /\ (Ticked(d) => Ticked(t)) /\ Prepared(t)
  BY EndedKeeps
<1>2. Ticked(t)
  BY <1>1 DEF Ticked
<1>3. Seen("outside", n, t)
  BY <1>1 DEF Seen
<1> QED
  BY <1>1, <1>2, <1>3 DEF Good, Fair

(* A fault while the update runs leaves the request to its return.         *)
LEMMA FailInUpdateStep == ASSUME Inv, FailInUpdate PROVE Inv'
<1>1. c \in CtlType /\ Good("update", native, c) /\ InFlight(c.calls) /\ UNCHANGED <<native, at>>
  BY InvFields DEF Inv, FailInUpdate, Fair
<1>2. Ended(c, c') /\ c'.pending = c.pending
  BY <1>1, FailEnds DEF FailInUpdate
<1>3. Good("update", native, c')
  BY <1>1, <1>2, EndedFair DEF Good
<1> QED
  BY <1>1, <1>3 DEF Inv, FailInUpdate

(* An update that throws is an aborted call.                               *)
LEMMA UpdateThrowsStep == ASSUME Inv, UpdateThrows PROVE Inv'
<1>1. /\ c \in CtlType /\ native \in NativeType /\ Fair("update", native, c) /\ InFlight(c.calls)
      /\ native' \in Updated /\ at' = "outside" /\ c.calls \in CallsType
  BY InvFields DEF UpdateThrows, Fair, CtlType
<1>2. /\ native' \in NativeType /\ native'.board <= native'.made /\ native.made <= native'.made
      /\ native.made \in Nat /\ native'.made \in Nat
  BY <1>1, NativeGrows DEF Fair, Seen, NativeType
<1> DEFINE k == Abort(c.calls)
           d == [c EXCEPT !.calls = k]
<1>3. PICK lost \in BOOLEAN : c' = Fail(d, lost)
  BY DEF UpdateThrows
<1>4. /\ k \in CallsType /\ ~InFlight(k) /\ k.entered = c.calls.entered /\ k.returned = c.calls.returned
      /\ k.aborted = c.calls.aborted + 1
      /\ k.posts = c.calls.posts /\ k.steps = c.calls.steps /\ k.zero = c.calls.zero
  BY <1>1, AbortedCall DEF One
<1> HIDE DEF k
<1>5. /\ d \in CtlType /\ d.calls = k /\ d.silent = c.silent /\ d.board = c.board /\ d.ready = c.ready
      /\ d.epoch = c.epoch /\ d.pending = c.pending /\ d.prep = c.prep /\ d.told = c.told
  BY <1>1, <1>4 DEF CtlType
<1> HIDE DEF d
<1>6. Counted(d)
  BY <1>1, <1>4, <1>5 DEF Fair, Counted, One, CallsType
<1>7. Prepared(d)
  BY <1>1, <1>5 DEF Fair, Prepared
<1>8. d.board <= native'.made /\ (d.ready => d.board # 0)
  BY <1>1, <1>2, <1>5 DEF Fair, Seen, CtlType
<1>9. Ended(d, c') /\ c'.fault /\ ~c'.pending.live
  BY <1>3, <1>4, <1>5, FailEnds
<1>10. Good("outside", native', c')
  BY <1>2, <1>4, <1>5, <1>6, <1>7, <1>8, <1>9, AfterUpdate DEF Stopped, Budget
<1> QED
  BY <1>1, <1>10 DEF Inv

(* The call has returned, to a Board that may be another.                  *)
LEMMA MeasuredCallFields ==
    ASSUME c \in CtlType
    PROVE  LET s == MeasuredCall(c)
           IN /\ s \in CtlType /\ s.calls = Returned(c.calls)
              /\ s.silent = c.silent /\ s.board = c.board /\ s.ready = c.ready /\ s.epoch = c.epoch
              /\ s.prep = c.prep /\ s.told = c.told /\ s.thawed = c.thawed /\ s.fault = c.fault
              /\ s.storage = c.storage /\ s.frozen = c.frozen /\ s.closed = c.closed /\ s.clock = c.clock
              /\ s.pending.live = c.pending.live /\ s.pending.requested = c.pending.requested
              /\ s.pending.calls = c.pending.calls + 1 /\ s.pending.executed = c.pending.executed
<1> DEFINE q == [c.pending EXCEPT !.calls = @ + 1]
           k == Returned(c.calls)
<1>1. MeasuredCall(c) = [c EXCEPT !.calls = k, !.pending = q]
  BY DEF MeasuredCall, CtlType
<1>2. k \in CallsType
  BY ReturnedCall DEF CtlType
<1>3. /\ q \in PendingType /\ q.live = c.pending.live /\ q.requested = c.pending.requested
      /\ q.calls = c.pending.calls + 1 /\ q.executed = c.pending.executed
  <2>1. \A e \in Nat : [c.pending EXCEPT !.calls = e] \in PendingType
    BY DEF CtlType, PendingType
  <2>2. c.pending.calls + 1 \in Nat
    BY DEF CtlType, PendingType
  <2>3. q \in PendingType
    BY <2>1, <2>2
  <2> QED
    BY <2>3 DEF CtlType, PendingType
<1> HIDE DEF q
<1> QED
  BY <1>1, <1>2, <1>3 DEF CtlType

(* The call is measured, whatever is verified of it.                       *)
LEMMA MeasuredFields ==
    ASSUME c \in CtlType, NEW n \in NativeType
    PROVE  LET s == Measured(n)
           IN /\ s \in CtlType /\ s.calls = Returned(c.calls) /\ s.clock = n.clock
              /\ s.silent = c.silent /\ s.board = c.board /\ s.ready = c.ready /\ s.epoch = c.epoch
              /\ s.prep = c.prep /\ s.told = c.told /\ s.thawed = c.thawed /\ s.fault = c.fault
              /\ s.storage = c.storage /\ s.frozen = c.frozen /\ s.closed = c.closed
              /\ s.pending.live = c.pending.live /\ s.pending.requested = c.pending.requested
              /\ s.pending.calls = c.pending.calls + 1
              /\ Delta(n) > 0 => ~s.changed /\ s.pending.executed = c.pending.executed + Delta(n)
              /\ ~(Delta(n) > 0) => s.pending.executed = c.pending.executed
<1> DEFINE m == MeasuredCall(c)
           k == m.calls
           q == m.pending
           s == [m EXCEPT !.clock = n.clock]
           t == [s EXCEPT !.tick = @ + Delta(n), !.revision = 0, !.pending.executed = @ + Delta(n), !.changed = FALSE]
<1>1. Measured(n) = IF Delta(n) > 0 THEN t ELSE s
  BY DEF Measured
<1>2. n.clock \in Nat
  BY DEF NativeType
<1>3. /\ m \in CtlType /\ k = Returned(c.calls) /\ q \in PendingType
      /\ m.silent = c.silent /\ m.board = c.board /\ m.ready = c.ready /\ m.epoch = c.epoch
      /\ m.prep = c.prep /\ m.told = c.told /\ m.thawed = c.thawed /\ m.fault = c.fault
      /\ m.storage = c.storage /\ m.frozen = c.frozen /\ m.closed = c.closed
      /\ q.live = c.pending.live /\ q.requested = c.pending.requested
      /\ q.calls = c.pending.calls + 1 /\ q.executed = c.pending.executed
  BY MeasuredCallFields DEF CtlType
<1> HIDE DEF m
<1>4. /\ s \in CtlType /\ s.calls = k /\ s.clock = n.clock /\ s.pending = q
      /\ s.silent = c.silent /\ s.board = c.board /\ s.ready = c.ready /\ s.epoch = c.epoch
      /\ s.prep = c.prep /\ s.told = c.told /\ s.thawed = c.thawed /\ s.fault = c.fault
      /\ s.storage = c.storage /\ s.frozen = c.frozen /\ s.closed = c.closed
  BY <1>2, <1>3 DEF CtlType
<1> HIDE DEF q, k
<1>5. CASE ~(Delta(n) > 0)
  BY <1>1, <1>3, <1>4, <1>5
<1>6. CASE Delta(n) > 0
  <2> DEFINE r == [q EXCEPT !.executed = @ + Delta(n)]
  <2>1. Delta(n) \in Nat
    BY <1>2, <1>6 DEF Delta, CtlType
  <2>2. /\ r \in PendingType /\ r.live = q.live /\ r.requested = q.requested /\ r.calls = q.calls
        /\ r.executed = q.executed + Delta(n)
    <3>1. \A e \in Nat : [q EXCEPT !.executed = e] \in PendingType
      BY <1>3 DEF PendingType
    <3>2. q.executed + Delta(n) \in Nat
      BY <1>3, <2>1 DEF PendingType
    <3>3. r \in PendingType
      BY <3>1, <3>2
    <3> QED
      BY <1>3, <3>3 DEF PendingType
  <2>3. t = [s EXCEPT !.tick = @ + Delta(n), !.revision = 0, !.pending = r, !.changed = FALSE]
    BY <1>4
  <2> HIDE DEF r, s, t
  <2>4. t \in CtlType
    <3>1. \A e \in Nat : [s EXCEPT !.tick = e, !.revision = 0, !.pending = r, !.changed = FALSE] \in CtlType
      BY <1>4, <2>2 DEF CtlType
    <3>2. s.tick + Delta(n) \in Nat
      BY <1>4, <2>1 DEF CtlType
    <3> QED
      BY <2>3, <3>1, <3>2
  <2>5. /\ t.calls = s.calls /\ t.clock = s.clock /\ t.pending = r /\ ~t.changed
        /\ t.silent = s.silent /\ t.board = s.board /\ t.ready = s.ready /\ t.epoch = s.epoch
        /\ t.prep = s.prep /\ t.told = s.told /\ t.thawed = s.thawed /\ t.fault = s.fault
        /\ t.storage = s.storage /\ t.frozen = s.frozen /\ t.closed = s.closed
    BY <1>4, <2>3 DEF CtlType
  <2> QED
    BY <1>1, <1>3, <1>4, <1>6, <2>2, <2>4, <2>5
<1> QED
  BY <1>5, <1>6

(* What completes the measured call only changes its calls and may freeze. *)
CompletedTo(s, k, f, t) == t = [s EXCEPT !.calls = k, !.frozen = f]

(* Completing the measured call leaves every other field as it was.        *)
LEMMA CompletedFields ==
    ASSUME NEW s \in CtlType, NEW k \in CallsType, NEW f \in BOOLEAN, NEW t, CompletedTo(s, k, f, t)
    PROVE  /\ t \in CtlType /\ t.calls = k /\ t.clock = s.clock
           /\ t.silent = s.silent /\ t.board = s.board /\ t.ready = s.ready /\ t.epoch = s.epoch
           /\ t.prep = s.prep /\ t.told = s.told /\ t.thawed = s.thawed /\ t.fault = s.fault
           /\ t.storage = s.storage /\ t.frozen = f /\ t.closed = s.closed
           /\ t.pending = s.pending /\ t.changed = s.changed
  BY DEF CtlType, CompletedTo

(* Every way in which an update returns keeps the invariant.               *)
LEMMA UpdateReturnsStep == ASSUME Inv, UpdateReturns PROVE Inv'
<1> DEFINE n == native'
<1>1. /\ c \in CtlType /\ native \in NativeType /\ Fair("update", native, c) /\ InFlight(c.calls) /\ Budget(c)
      /\ n \in Updated /\ at' = "outside" /\ c.calls \in CallsType /\ c.pending.live
  BY InvFields DEF UpdateReturns, Fair, CtlType
<1>2. /\ n \in NativeType /\ n.board <= n.made /\ native.made <= n.made
      /\ native.made \in Nat /\ n.made \in Nat
  BY <1>1, NativeGrows DEF Fair, Seen, NativeType
<1>3. c.board <= n.made /\ (c.ready => c.board # 0)
  BY <1>1, <1>2 DEF Fair, Seen, CtlType
<1>4. UNCHANGED <<>> /\ (BoardLost(n) \/ PostMissing(n) \/ FightEnds(n) \/ WrongCount(n) \/ StepDone(n))
  BY DEF UpdateReturns
<1> HIDE DEF n
<1>5. SUFFICES Good("outside", n, c')
  BY <1>1 DEF Inv, n
<1>6. Counted(c) /\ Ticked(c) /\ Prepared(c)
  BY <1>1 DEF Fair
\* A record d that the call leaves, with its call completed or given up.
<1> DEFINE Left(d) ==
        /\ d \in CtlType /\ d.board = c.board /\ d.ready = c.ready
        /\ d.silent = c.silent /\ d.epoch = c.epoch /\ d.prep = c.prep /\ d.told = c.told
        /\ d.pending.live /\ d.pending.calls = c.pending.calls + 1
        /\ d.calls.entered = c.calls.entered /\ d.calls.returned = c.calls.returned + 1
        /\ d.calls.aborted = c.calls.aborted /\ ~InFlight(d.calls)
        /\ d.calls.steps + d.calls.zero <= d.calls.posts /\ d.calls.posts <= d.calls.returned
<1>7. ASSUME NEW d, Left(d) PROVE Counted(d) /\ Prepared(d)
  BY <1>1, <1>6, <1>7, CallReturned
<1>8. ASSUME NEW d, Left(d), NEW t, Ended(d, t), Budget(t),
             Stopped(t) \/ (Ticked(d) /\ ~d.changed /\ d.clock = n.clock)
      PROVE  Good("outside", n, t)
  BY <1>2, <1>3, <1>7, <1>8, AfterUpdate
<1>9. ASSUME NEW d, Left(d), NEW lost \in BOOLEAN, c' = Fail(d, lost) PROVE Good("outside", n, c')
  <2>1. Ended(d, c') /\ c'.fault /\ ~c'.pending.live
    BY <1>9, FailEnds
  <2> QED
    BY <1>8, <1>9, <2>1 DEF Stopped, Budget
\* The calls k after it.
<1> DEFINE Past(k) ==
        /\ k \in CallsType /\ ~InFlight(k) /\ k.entered = c.calls.entered /\ k.aborted = c.calls.aborted
        /\ k.returned = c.calls.returned + 1
        /\ k.steps + k.zero <= k.posts /\ k.posts <= k.returned
<1>10. ASSUME NEW k \in CallsType, SameCounts(c.calls, k)
       PROVE  /\ Returned(k) \in CallsType
              /\ Past(Unverified(Returned(k))) /\ Past(Abort(Returned(k)))
  <2> DEFINE r == Returned(k)
  <2>1. /\ r \in CallsType /\ ~InFlight(r) /\ r.entered = c.calls.entered /\ r.aborted = c.calls.aborted
        /\ r.returned = c.calls.returned + 1 /\ r.posts = c.calls.posts /\ r.steps = c.calls.steps
        /\ r.zero = c.calls.zero
    BY <1>10, ReturnedCall DEF SameCounts
  <2> HIDE DEF r
  <2>2. r.steps + r.zero <= r.posts /\ r.posts <= r.returned
    BY <1>1, <1>6, <2>1 DEF Counted, CallsType
  <2>3. /\ SameCounts(r, Unverified(r)) /\ ~InFlight(Unverified(r))
        /\ SameCounts(r, Abort(r)) /\ ~InFlight(Abort(r))
    BY <2>1, UnverifiedCall
  <2> QED
    BY <2>1, <2>2, <2>3 DEF SameCounts, r
<1>11. SameCounts(c.calls, c.calls) /\ SameCounts(c.calls, Guarded(c.calls)) /\ Guarded(c.calls) \in CallsType
  BY <1>1, ReservedCall DEF SameCounts
<1>12. ASSUME NEW s \in CtlType, s.board = c.board, s.ready = c.ready, s.silent = c.silent, s.epoch = c.epoch,
              s.prep = c.prep, s.told = c.told, s.pending.live, s.pending.calls = c.pending.calls + 1,
              NEW k, Past(k), NEW f \in BOOLEAN, NEW d, CompletedTo(s, k, f, d)
       PROVE  Left(d)
  BY <1>12, CompletedFields
<1>13. CASE BoardLost(n)
  <2> DEFINE s == MeasuredCall(c)
             k == Unverified(Returned(c.calls))
             d == [s EXCEPT !.frozen = TRUE, !.calls = Unverified(@)]
  <2>1. /\ s \in CtlType /\ s.calls = Returned(c.calls) /\ s.board = c.board /\ s.ready = c.ready
        /\ s.silent = c.silent /\ s.epoch = c.epoch /\ s.prep = c.prep /\ s.told = c.told
        /\ s.pending.live /\ s.pending.calls = c.pending.calls + 1
    BY <1>1, MeasuredCallFields
  <2>2. PICK lost \in BOOLEAN : c' = Fail(d, lost)
    BY <1>13 DEF BoardLost
  <2> HIDE DEF s
  <2>3. CompletedTo(s, k, TRUE, d)
    BY <2>1 DEF CtlType, CompletedTo
  <2>4. Past(k)
    BY <1>1, <1>10, <1>11
  <2> HIDE DEF k, d
  <2>5. Left(d)
    BY <1>12, <2>1, <2>3, <2>4
  <2> QED
    BY <1>9, <2>2, <2>5
<1> DEFINE m == Measured(n)
           D == Delta(n)
<1>14. /\ m \in CtlType /\ m.calls = Returned(c.calls) /\ m.clock = n.clock
       /\ m.silent = c.silent /\ m.board = c.board /\ m.ready = c.ready /\ m.epoch = c.epoch
       /\ m.prep = c.prep /\ m.told = c.told /\ m.thawed = c.thawed /\ m.fault = c.fault
       /\ m.storage = c.storage /\ m.frozen = c.frozen /\ m.closed = c.closed
       /\ m.pending.live /\ m.pending.requested = c.pending.requested
       /\ m.pending.calls = c.pending.calls + 1
       /\ D > 0 => ~m.changed /\ m.pending.executed = c.pending.executed + D
       /\ m.frozen \in BOOLEAN
  <2>1. m.frozen \in BOOLEAN
    BY <1>1, <1>2, MeasuredFields DEF CtlType
  <2> QED
    BY <1>1, <1>2, <2>1, MeasuredFields
<1>15. CASE PostMissing(n)
  <2>1. PICK lost \in BOOLEAN, k \in {c.calls, Guarded(c.calls)} :
           LET s == [m EXCEPT !.calls = Returned(k)]
           IN c' \in {Fail([s EXCEPT !.calls = Unverified(@)], lost), Fail([s EXCEPT !.calls = Abort(@)], lost)}
    BY <1>15 DEF PostMissing
  <2> DEFINE s == [m EXCEPT !.calls = Returned(k)]
             u == Unverified(Returned(k))
             a == Abort(Returned(k))
             du == [s EXCEPT !.calls = Unverified(@)]
             da == [s EXCEPT !.calls = Abort(@)]
  <2>2. Past(u) /\ Past(a)
    BY <1>1, <1>10, <1>11
  <2>3. c' = Fail(du, lost) \/ c' = Fail(da, lost)
    BY <2>1
  <2> HIDE DEF m
  <2>4. CompletedTo(m, u, m.frozen, du) /\ CompletedTo(m, a, m.frozen, da)
    BY <1>14 DEF CtlType, CompletedTo
  <2> HIDE DEF u, a, du, da
  <2>5. Left(du) /\ Left(da)
    BY <1>12, <1>14, <2>2, <2>4
  <2> QED
    BY <1>9, <2>3, <2>5
<1> DEFINE v == Verified(n)
           k == CompleteCall(Returned(c.calls), TRUE, D = 1, ZeroEnd(n), Over(n) /\ D = 1)
<1>16. Past(k) /\ (D = 1 => k.steps = c.calls.steps + 1)
  <2>1. PICK post \in BOOLEAN, step \in BOOLEAN, zero \in BOOLEAN, last \in BOOLEAN :
           post = TRUE /\ step = (D = 1) /\ zero = ZeroEnd(n) /\ last = (Over(n) /\ D = 1)
    BY DEF ZeroEnd
  <2>2. k = CompleteCall(Returned(c.calls), post, step, zero, last)
    BY <2>1
  <2>3. post /\ ~(step /\ zero)
    <3>1. D = 1 => ~ZeroEnd(n)
      BY DEF ZeroEnd
    <3> QED
      BY <2>1, <3>1
  <2> HIDE DEF k
  <2>4. c.calls.steps + c.calls.zero <= c.calls.posts /\ c.calls.posts <= c.calls.returned
    BY <1>6 DEF Counted
  <2>5. Verifies(c.calls, step, k)
    BY <1>1, <2>2, <2>3, <2>4, VerifiedCall
  <2> QED
    BY <2>1, <2>5 DEF Verifies
<1>17. \A f \in BOOLEAN : CompletedTo(m, k, f, [v EXCEPT !.frozen = f])
  BY <1>14 DEF CtlType, CompletedTo, Verified
<1>18. CompletedTo(m, k, m.frozen, v)
  BY <1>14 DEF CtlType, CompletedTo, Verified
<1> DEFINE stopped == [v EXCEPT !.frozen = TRUE]
<1>19. CompletedTo(m, k, TRUE, stopped)
  BY <1>17
<1> HIDE DEF m, k, v, D, stopped
<1>20. Left(stopped) /\ stopped.frozen
  BY <1>12, <1>14, <1>16, <1>19, CompletedFields
<1>21. Left(v)
  BY <1>12, <1>14, <1>16, <1>18
<1>22. ASSUME NEW audited \in BOOLEAN, NEW lost \in BOOLEAN
       PROVE  Good("outside", n, Finish(stopped, audited, lost))
  <2> DEFINE t == Finish(stopped, audited, lost)
  <2>1. Ended(stopped, t) /\ ~t.pending.live
    BY <1>20, FinishEnds
  <2>2. Stopped(t) /\ Budget(t)
    BY <1>20, <2>1 DEF Ended, Stopped, Budget
  <2> QED
    BY <1>8, <1>20, <2>1, <2>2
<1>23. CASE FightEnds(n)
  <2>1. PICK audited \in BOOLEAN, lost \in BOOLEAN :
           c' = Fail(stopped, lost) \/ c' = Boundary(Finish(stopped, audited, lost), n, FALSE)
    BY <1>23 DEF FightEnds, stopped, v
  <2>2. CASE c' = Boundary(Finish(stopped, audited, lost), n, FALSE)
    <3> DEFINE t == Finish(stopped, audited, lost)
    <3>1. Good("outside", n, t) /\ t \in CtlType
      BY <1>22 DEF Good, Fair
    <3> HIDE DEF t
    <3>2. Ended(t, c') \/ Looked(t, n, c')
      BY <1>2, <2>2, <3>1, BoundaryEnds DEF t
    <3> QED
      BY <3>1, <3>2, EndedFair, LookedGood DEF Good
  <2> QED
    BY <1>9, <1>20, <2>1, <2>2
<1>24. CASE WrongCount(n)
  BY <1>22, <1>24 DEF WrongCount, stopped, v
<1>25. CASE StepDone(n)
  <2>1. D = 1 /\ D > 0
    BY <1>25 DEF StepDone, D
  <2>2. /\ v \in CtlType /\ v.calls = k /\ v.clock = n.clock /\ ~v.changed /\ v.told = c.told /\ v.thawed = c.thawed
        /\ v.pending.executed = c.pending.executed + 1
        /\ v.fault = c.fault /\ v.storage = c.storage /\ v.frozen = c.frozen /\ v.closed = c.closed
    BY <1>14, <1>16, <1>18, <2>1, CompletedFields
  <2>3. Ticked(v)
    BY <1>1, <1>6, <1>16, <2>1, <2>2 DEF Ticked, Stopped, CtlType, CallsType, PendingType, ToldType
  <2>4. PICK audited \in BOOLEAN, lost \in BOOLEAN :
           c' = Finish(v, audited, lost) \/ (v.pending.executed < v.pending.requested /\ c' = v)
    BY <1>25 DEF StepDone, v
  <2>5. Ended(v, c') /\ Budget(c')
    BY <1>21, <2>2, <2>4, FinishEnds, EndedSame DEF Budget
  <2> QED
    BY <1>8, <1>21, <2>2, <2>3, <2>5
<1> QED
  BY <1>4, <1>13, <1>15, <1>23, <1>24, <1>25

-----------------------------------------------------------------------------
(* The theorems.                                                           *)

(* The game is not there yet, and nothing was asked.                       *)
LEMMA InitInv == Init => Inv
<1> SUFFICES ASSUME Init PROVE Inv
  OBVIOUS
<1>1. native \in NativeType /\ native.board = 0 /\ native.made = 0
  BY DEF Init, NativeType
<1>2. PICK silent \in BOOLEAN :
         c = [silent |-> silent, board |-> 0, ready |-> FALSE, clock |-> 0, epoch |-> 1, tick |-> 0, revision |-> 0,
                 pending |-> Idle, fault |-> FALSE, storage |-> FALSE, frozen |-> FALSE,
                 closed |-> FALSE, calls |-> NoCalls, prep |-> Unprepared,
                 told |-> [ticks |-> 0, calls |-> 0], thawed |-> FALSE, changed |-> FALSE]
  BY DEF Init
<1>3. Idle \in PendingType /\ NoCalls \in CallsType /\ Unprepared \in PrepType
  BY DEF Idle, PendingType, NoCalls, CallsType, Phases, Unprepared, PrepType, Unset
<1>4. c \in CtlType
  BY <1>2, <1>3 DEF CtlType, ToldType
<1>5. Counted(c) /\ Ticked(c) /\ Budget(c) /\ ~InFlight(c.calls)
  BY <1>2 DEF Counted, Ticked, Budget, InFlight, NoCalls, Idle, One
<1>6. Prepared(c)
  BY <1>2 DEF Prepared, Unprepared, Unset, Idle
<1>7. Seen("outside", native, c)
  BY <1>1, <1>2 DEF Seen
<1> QED
  BY <1>1, <1>4, <1>5, <1>6, <1>7 DEF Init, Inv, Good, Fair

(* Every step keeps the invariant.                                         *)
LEMMA NextInv == Inv /\ [Next]_vars => Inv'
<1> SUFFICES ASSUME Inv, [Next]_vars PROVE Inv'
  OBVIOUS
<1>1. CASE Requests
  <2>1. CASE \E n \in 0 .. MaxTicks : Commit(n)
    BY <2>1, CommitStep, ControllerAssumption
  <2> QED
    BY <1>1, <2>1, EndingSteps, GameSteps, PreparingSteps DEF Requests
<1>2. CASE Loop
  BY <1>2, PumpSteps, LeaveStep, FrameSteps, UpdateThrowsStep, UpdateReturnsStep DEF Loop
<1>3. CASE External \/ GuardFault \/ FailInUpdate
  BY <1>3, ExternalStep, GuardFaultStep, FailInUpdateStep
<1>4. CASE UNCHANGED vars
  BY <1>4 DEF vars, Inv
<1> QED
  BY <1>1, <1>2, <1>3, <1>4 DEF Next

(* The invariant holds in every behaviour.                                 *)
LEMMA InvAlways == Spec => []Inv
  BY InitInv, NextInv, PTL DEF Spec

(* No call and no tick is lost or told twice, whatever fails and whenever; *)
(* and no frame begins for a request that has no tick left.                *)
THEOREM WorkAccounted == Spec => []WorkTold
<1>1. Inv => WorkTold
  <2> SUFFICES ASSUME Inv PROVE WorkTold
    OBVIOUS
  <2>1. /\ c \in CtlType /\ native \in NativeType /\ Counted(c) /\ Ticked(c) /\ Budget(c)
        /\ at \in {"outside", "pump", "frame", "update"} /\ (InFlight(c.calls) <=> at = "update")
    BY DEF Inv, Good, Fair
  <2>2. TypeOK
    BY <2>1 DEF TypeOK, CtlType, NativeType, PendingType, PrepType, ToldType, Unprepared
  <2> QED
    BY <2>1, <2>2 DEF WorkTold, Counted, Ticked, Budget
<1> QED
  BY <1>1, InvAlways, PTL

(* A version a request may expect is never older than the fight's state.   *)
THEOREM VersionsFresh == Spec => []VersionFresh
<1>1. Inv => VersionFresh
  BY DEF Inv, Good, Fair, Seen, VersionFresh
<1> QED
  BY <1>1, InvAlways, PTL

(* An update only runs in a fight that was itself prepared.                *)
THEOREM StepsPrepared == Spec => []PreparedSteps
<1>1. Inv => PreparedSteps
  BY DEF Inv, Good, Fair, Prepared, PreparedSteps
<1> QED
  BY <1>1, InvAlways, PTL

-----------------------------------------------------------------------------
(* A stopped run.                                                          *)

(* From s to t nothing was called and no version was made.                 *)
Rests(s, t) == t.calls.entered = s.calls.entered /\ t.epoch = s.epoch /\ t.tick = s.tick /\ t.revision = s.revision

(* Ending a request makes no call and no version.                          *)
LEMMA EndedRests == ASSUME NEW s, NEW t, Ended(s, t) PROVE Rests(s, t) /\ t.closed = s.closed
  BY DEF Ended, Rest, Rests

(* Looking at the game neither, but for a new epoch of a run that did not  *)
(* fail; and it never reopens a closed one.                                *)
LEMMA BoundaryRests ==
    ASSUME NEW s \in CtlType, NEW n \in NativeType, NEW lost \in BOOLEAN
    PROVE  LET t == Boundary(s, n, lost)
           IN /\ t.closed = s.closed /\ t.calls.entered = s.calls.entered
              /\ Rests(s, t) \/ (~s.fault /\ ~s.storage /\ t.epoch # s.epoch)
              /\ s.fault \/ s.storage => t = s
<1> DEFINE t == Boundary(s, n, lost)
<1>1. s.fault \/ s.storage => t = s
  BY DEF Boundary
<1>2. CASE Ended(s, t)
  BY <1>1, <1>2, EndedRests DEF Rests
<1>3. CASE Looked(s, n, t)
  BY <1>1, <1>3 DEF Looked, Rests, CtlType
<1> QED
  BY <1>2, <1>3, BoundaryEnds

(* The frame's own look does not let a stopped run go on.                  *)
LEMMA StaysStopped ==
    ASSUME Inv, c.fault \/ c.storage \/ c.closed
    PROVE  ~ShouldStep(Checked)
<1>1. Checked.closed = c.closed /\ (c.fault \/ c.storage => Checked = c)
  BY InvFields, BoundaryRests DEF Checked
<1> HIDE DEF Inv
<1> QED
  BY <1>1 DEF ShouldStep, Stopped

(* A run that failed, could not save or was closed makes no further call,  *)
(* whatever is asked of it, and no further version in its epoch.           *)
THEOREM StaysDown == Spec => StoppedForGood
<1> DEFINE Stays == (c.fault \/ c.storage \/ c.closed) /\ at # "update"
                    => /\ c'.calls.entered = c.calls.entered
                       /\ \/ c'.epoch = c.epoch /\ c'.tick = c.tick /\ c'.revision = c.revision
                          \/ c.closed /\ ~c.fault /\ ~c.storage /\ c'.epoch # c.epoch
<1>1. ASSUME Inv, [Next]_vars PROVE Stays
  <2> SUFFICES ASSUME c.fault \/ c.storage \/ c.closed, at # "update"
               PROVE  Rests(c, c') \/ (/\ c'.calls.entered = c.calls.entered
                                       /\ c.closed /\ ~c.fault /\ ~c.storage /\ c'.epoch # c.epoch)
    BY DEF Rests
  <2>1. c \in CtlType /\ native \in NativeType /\ ~Open(c) /\ ~ShouldStep(Checked)
    BY <1>1, InvFields, StaysStopped DEF Open
  <2>2. CASE Ended(c, c') \/ UNCHANGED c
    BY <2>2, EndedRests DEF Rests
  <2>3. CASE GateFails \/ FrameFails \/ Disconnect
    BY <2>1, <2>2, <2>3, FailEnds, FinishEnds DEF GateFails, FrameFails, Disconnect
  <2>4. CASE Pause
    <3>1. PICK mine \in BOOLEAN, audited \in BOOLEAN, lost \in BOOLEAN :
             c' = Reply(Finish(c, audited, lost), mine, audited, lost)
      BY <2>4 DEF Pause
    <3> DEFINE d == Finish(c, audited, lost)
    <3>2. Ended(c, d) /\ d \in CtlType
      BY <2>1, FinishEnds DEF Ended
    <3> HIDE DEF d
    <3>3. Ended(d, c')
      BY <3>1, <3>2, ReplyEnds DEF d
    <3> QED
      BY <2>1, <2>2, <3>2, <3>3, EndedTwice
  <2>5. CASE StopRecording
    <3>1. PICK mine \in BOOLEAN, s \in {c, Fail(c, FALSE), [c EXCEPT !.closed = TRUE]} :
             c' = Reply(s, mine, TRUE, FALSE)
      BY <2>5 DEF StopRecording
    <3>2. s \in CtlType /\ Rests(c, s)
      <4>1. CASE s = Fail(c, FALSE)
        BY <2>1, <4>1, FailEnds, EndedRests DEF Ended
      <4>2. CASE s = [c EXCEPT !.closed = TRUE]
        BY <2>1, <4>2 DEF CtlType, Rests
      <4> QED
        BY <2>1, <3>1, <4>1, <4>2 DEF Rests
    <3>3. Rests(s, c')
      BY <3>1, <3>2, ReplyEnds, EndedRests
    <3> QED
      BY <3>2, <3>3 DEF Rests
  <2>6. CASE Pump \/ FrameRefused
    <3>1. PICK lost \in BOOLEAN : c' = Boundary(c, native, lost)
      BY <2>6 DEF Pump, FrameRefused
    <3> QED
      BY <2>1, <3>1, BoundaryRests
  <2>7. CASE External
    BY <2>1, <2>7 DEF External, CtlType, Rests
  <2>8. CASE GuardFault
    BY <2>1, <2>8 DEF GuardFault, Guarded, CtlType, CallsType, Rests
  <2>9. CASE Leave \/ UNCHANGED vars
    BY <2>2, <2>9 DEF Leave, vars
  <2>10. ~(Rejected \/ Initialize \/ RngSeed \/ ClockRestore \/ SoundCounterOrigin \/ B0Normalization \/ PrepareRender)
    BY <2>1 DEF Rejected, Initialize, RngSeed, ClockRestore, SoundCounterOrigin, B0Normalization, PrepareRender,
                Accepting
  <2>11. ~\E n \in 0 .. MaxTicks : Commit(n)
    BY <2>1 DEF Commit, Accepting
  <2>12. ~(MenuFrame \/ PreAuditFails \/ EnterUpdate)
    BY <2>1 DEF MenuFrame, PreAuditFails, EnterUpdate
  <2>13. ~(UpdateThrows \/ UpdateReturns \/ FailInUpdate)
    BY DEF UpdateThrows, UpdateReturns, FailInUpdate
  <2> QED
    BY <1>1, <2>3, <2>4, <2>5, <2>6, <2>7, <2>8, <2>9, <2>10, <2>11, <2>12, <2>13 DEF Next, Requests, Loop
<1>2. Spec => [][Stays]_vars
  <2>1. Inv /\ [Next]_vars => [Stays]_vars
    BY <1>1
  <2> QED
    BY <2>1, InvAlways, PTL DEF Spec
<1> QED
  BY <1>2 DEF StoppedForGood

===============================================================================
