---------------------------- MODULE RequestDedup ----------------------------
(***************************************************************************)
(* Which requests the runtime admits, through its journal and its hot      *)
(* entries (cache_ of runtime/controller.cpp).  One action is one call     *)
(* into the controller; the controller and the journal run on the game     *)
(* thread only, so calls do not overlap.  Retries and status calls of a    *)
(* known ID only read, and are left out: what they are told is Told.       *)
(***************************************************************************)
EXTENDS RequestJournal

VARIABLES
    j,              \* the journal object
    hot,            \* Controller::cache_
    pending,        \* ID of the request the engine is still executing
    closing,        \* ID of the stop_recording whose sealing is under way
    storageFault,   \* Controller::storageFault_ is set
    recordingClosed \* Controller::recordingClosed_

vars == <<j, hot, pending, closing, storageFault, recordingClosed>>

Absent == [payload |-> None, answer |-> NoAnswer, token |-> 0]
NoHot == [id \in Ids |-> Absent]
RamOnly == {id \in Ids : hot[id].answer # NoAnswer}

Init ==
    /\ j = EmptyJournal(Root)
    /\ hot = NoHot
    /\ pending = None /\ closing = None
    /\ storageFault = FALSE /\ recordingClosed = FALSE

-----------------------------------------------------------------------------
(* The controller state a handler threads through its journal calls.       *)

State(jr, h) == [j |-> jr, hot |-> h, storage |-> storageFault]
Install(s) == j' = s.j /\ hot' = s.hot /\ storageFault' = s.storage

Admitted(jr, id, p) ==
    State(jr, [hot EXCEPT ![id] = [payload |-> p, answer |-> NoAnswer, token |-> Len(jr.log)]])

(* Controller::Complete.  A persisted answer evicts the entry, a lost one  *)
(* stays in RAM and freezes the run.                                       *)
Settle(s, id, answer, down) ==
    LET c == CompleteIn(s.j, s.hot[id].token, answer, FALSE, down)
    IN [j |-> c.j,
        hot |-> [s.hot EXCEPT ![id] = IF c.ok THEN Absent ELSE [@ EXCEPT !.answer = answer]],
        storage |-> s.storage \/ ~c.ok]

SettlePending(s, answer, down) ==
    IF pending = None THEN s ELSE Settle(s, pending, answer, down)

(* A storage fault ends the pending request (StorageFail).                 *)
DropPending(s, down) ==
    IF s.storage \/ s.j.fault THEN SettlePending(s, Lost, down) ELSE s

Faults == SUBSET Files      \* the files whose writes fail during one call
Healthy == ~j.fault /\ ~storageFault
Replies == Answers \ {Closed, Incomplete, Lost}

(* Faulty variants of Unknown: only RAM is looked up, or only this branch. *)
UnknownInRam(id, p) == hot[id] = Absent
UnknownHere(id, p) ==
    hot[id] = Absent /\ ~Damaged(j, id) /\ Matches(j, id, {j.scope}) = {}

(* What Request looks up before it admits anything: no entry, no record of *)
(* its own scope, no other content under the same ID in another scope.     *)
Unknown(id, p) ==
    /\ hot[id] = Absent
    /\ ~Damaged(j, id)
    /\ Matches(j, id, {j.scope}) = {}
    /\ LET foreign == Found(j, id, Scopes \ {j.scope})
       IN foreign = NotFound \/ foreign.payload = p

Admissible(id, p, class) ==
    /\ closing = None /\ ~recordingClosed
    /\ Class[p] = class
    /\ Unknown(id, p)
    /\ class = "mutation" => Healthy
    /\ class = "control" => RamOnly = {}
    /\ class = "close" => pending = None

-----------------------------------------------------------------------------
(* The journal could not take the reservation.  Running out of capacity is *)
(* only reported; an I/O error is a storage fault.                         *)
Refuse(id, p) ==
    /\ Admissible(id, p, Class[p])
    /\ \E down \in Faults :
         LET r == Reserve(j, id, p, down)
             failed == [State(r.j, hot) EXCEPT !.storage = TRUE]
         IN \/ /\ r.out = "capacity"
               /\ Install(State(r.j, hot))
               /\ UNCHANGED pending
            \/ /\ r.out = "error"
               /\ \E dp \in Faults : Install(DropPending(failed, dp))
               /\ pending' = None
    /\ UNCHANGED <<closing, recordingClosed>>

(* The journal took it: the states the handler may go on from.             *)
Admissions(id, p) ==
    {Admitted(r.j, id, p) : r \in {r \in {Reserve(j, id, p, down) : down \in Faults} : r.out = "ok"}}

(* commit/advance with a tick budget: the engine goes on from here.        *)
Accept(id, p) ==
    /\ Admissible(id, p, "mutation") /\ pending = None
    /\ \E s \in Admissions(id, p) : Install(s)
    /\ pending' = id
    /\ UNCHANGED <<closing, recordingClosed>>

(* A mutation answered inside its own call: rejected, a zero budget, a     *)
(* state initialisation, or "busy" while another one is pending.           *)
Answer(id, p, a) ==
    /\ Admissible(id, p, "mutation")
    /\ \E s \in Admissions(id, p), da \in Faults :
         LET t == Settle(s, id, a, da)
         IN /\ \E dp \in Faults : Install(DropPending(t, dp))
            /\ pending' = IF t.storage \/ t.j.fault THEN None ELSE pending
    /\ UNCHANGED <<closing, recordingClosed>>

(* pause and cancel first finish the pending request, then themselves.     *)
Pause(id, p, a) ==
    /\ Admissible(id, p, "control")
    /\ \E s \in Admissions(id, p), dp, da \in Faults :
         Install(Settle(SettlePending(s, a, dp), id, a, da))
    /\ pending' = None
    /\ UNCHANGED <<closing, recordingClosed>>

(* Finish: the budget is used up, the client left, an audit failed.        *)
FinishPending(a) ==
    /\ closing = None /\ pending # None
    /\ \E dp \in Faults : Install(SettlePending(State(j, hot), a, dp))
    /\ pending' = None
    /\ UNCHANGED <<closing, recordingClosed>>

(* stop_recording.  An audit or native close that throws answers the       *)
(* request like any other; otherwise sealing begins.                       *)
StopFails(id, p, a) ==
    /\ Admissible(id, p, "close")
    /\ \E s \in Admissions(id, p), da \in Faults : Install(Settle(s, id, a, da))
    /\ UNCHANGED <<pending, closing, recordingClosed>>

StopBegins(id, p) ==
    /\ Admissible(id, p, "close")
    /\ \E s \in Admissions(id, p) : Install(s)
    /\ closing' = id /\ recordingClosed' = TRUE
    /\ UNCHANGED pending

(* Complete(seal): every result that lives only in RAM is saved first, one *)
(* per iteration of its loop.  Nothing else runs until the call returns.   *)
CloseFails(jr) ==
    /\ j' = jr /\ hot' = [hot EXCEPT ![closing].answer = Incomplete]
    /\ storageFault' = TRUE /\ closing' = None

\* Faulty: the other results are not saved before the epoch is sealed.
SealAtOnce ==
    /\ closing # None
    /\ \E down \in Faults :
         LET c == CompleteIn(j, hot[closing].token, Closed, FALSE, down)
         IN /\ c.ok
            /\ j' = [c.j EXCEPT !.sealed = TRUE]
            /\ hot' = [hot EXCEPT ![closing] = Absent]
    /\ closing' = None
    /\ UNCHANGED <<pending, storageFault, recordingClosed>>

SaveRamOnly(old) ==
    /\ closing # None /\ old \in RamOnly
    /\ \E down \in Faults :
         LET c == CompleteIn(j, hot[old].token, hot[old].answer, TRUE, down)
         IN \/ /\ c.ok
               /\ j' = c.j /\ hot' = [hot EXCEPT ![old] = Absent]
               /\ UNCHANGED <<storageFault, closing>>
            \/ ~c.ok /\ CloseFails(c.j)
    /\ UNCHANGED <<pending, recordingClosed>>

Seal ==
    /\ closing # None /\ RamOnly = {}
    /\ \E down \in Faults, sealOk \in BOOLEAN :
         LET c == CompleteIn(j, hot[closing].token, Closed, FALSE, down)
         IN \/ /\ c.ok /\ sealOk
               /\ j' = [c.j EXCEPT !.sealed = TRUE]
               /\ hot' = [hot EXCEPT ![closing] = Absent]
               /\ closing' = None /\ UNCHANGED storageFault
            \/ ~(c.ok /\ sealOk) /\ CloseFails(c.j)
    /\ UNCHANGED <<pending, recordingClosed>>

(* Boundary: a new board, readiness or clock ends the pending request and, *)
(* unless that failed, begins an epoch.                                    *)
Boundary(a) ==
    /\ closing = None /\ Healthy /\ j.epoch < MaxEpoch
    /\ \E dp \in Faults :
         LET s == SettlePending(State(j, hot), a, dp)
         IN Install(IF s.storage \/ s.j.fault THEN s
                    ELSE [s EXCEPT !.j = NextEpoch(@), !.hot = NoHot])
    /\ pending' = None
    /\ UNCHANGED <<closing, recordingClosed>>

Rebind(scope) ==
    /\ closing = None /\ pending = None /\ Healthy /\ ~recordingClosed
    /\ scope # j.scope
    /\ j' = [j EXCEPT !.scope = scope]
    /\ hot' = NoHot
    /\ UNCHANGED <<pending, closing, storageFault, recordingClosed>>

(* A lookup or status of an ID outside cache_ hits a damaged walk or a     *)
(* failed read.  (Once frozen, another failure changes nothing.)           *)
LookupFails(id) ==
    LET failed == [State(Faulted(j), hot) EXCEPT !.storage = TRUE]
    IN /\ closing = None /\ hot[id] = Absent
       /\ Walk(j, id) # {}
       /\ ~j.fault \/ ~storageFault \/ pending # None
       /\ \E dp \in Faults : Install(DropPending(failed, dp))
       /\ pending' = None
       /\ UNCHANGED <<closing, recordingClosed>>

Next ==
    \/ \E id \in Ids, p \in Payloads :
         \/ Refuse(id, p)
         \/ Accept(id, p)
         \/ StopBegins(id, p)
         \/ \E a \in Replies : Answer(id, p, a) \/ Pause(id, p, a) \/ StopFails(id, p, a)
    \/ \E a \in Replies : FinishPending(a) \/ Boundary(a)
    \/ \E id \in Ids : SaveRamOnly(id) \/ LookupFails(id)
    \/ Seal
    \/ \E scope \in Scopes : Rebind(scope)

Spec == Init /\ [][Next]_vars

-----------------------------------------------------------------------------
(* Properties                                                              *)

RecordType == [id : Ids, body : Payloads \cup Answers, kind : {"reserve", "close", "complete"},
               scope : Scopes, epoch : Nat, file : Files, request : Nat, next : SUBSET Nat]
JournalType == [log : Seq(RecordType), walk : [Buckets -> SUBSET Nat],
                used : [Files -> Nat], count : [Files -> Nat], epoch : Nat, scope : Scopes,
                opened : BOOLEAN, fault : BOOLEAN, sealed : BOOLEAN, adopt : Nat]
EntryType == [payload : Payloads, answer : Answers \cup {NoAnswer}, token : Nat] \cup {Absent}

(* The state has its types: j is a journal object, hot maps IDs to cache_  *)
(* entries (runtime/controller.hpp Entry).                                 *)
TypeOK ==
    /\ j \in JournalType
    /\ hot \in [Ids -> EntryType]
    /\ pending \in Ids \cup {None} /\ closing \in Ids \cup {None}
    /\ storageFault \in BOOLEAN /\ recordingClosed \in BOOLEAN

(* Within one branch and epoch an ID is admitted at most once: whatever    *)
(* the order of retries, faults and branch switches, Request never makes   *)
(* a second reservation, so never executes the request again.              *)
AtMostOnce ==
    \A t, u \in Tokens(j) :
        /\ IsReservation(j, t) /\ IsReservation(j, u)
        /\ j.log[t].id = j.log[u].id
        /\ j.log[t].scope = j.log[u].scope /\ j.log[t].epoch = j.log[u].epoch
        => t = u

(* Find sees every record of the current epoch and nothing else: the walk  *)
(* from a bucket's head is exactly the bucket's live records, though they  *)
(* alternate between the two files.                                        *)
IndexExact ==
    \A b \in Buckets : j.walk[b] = {t \in Live(j) : BucketOf[j.log[t].id] = b}

(* A sealed archive is complete, whatever faults came before the close.    *)
SealedComplete ==
    j.sealed => \A t \in Tokens(j) : IsReservation(j, t) => Completed(j, t)

(* Pause traffic cannot consume the closing path: until a close uses the   *)
(* reserve, its last ID slot and its last CloseBytes stay free.            *)
CloseRoom ==
    /\ j.count[Spare] = Slots[Spare]
       => \E t \in Live(j) : j.log[t].kind = "close" /\ j.log[t].file = Spare
    /\ j.used[Spare] > Bytes[Spare] - CloseBytes
       => \E t \in Tokens(j) : j.log[t].kind = "close"

(* "An unsuccessful close must not consume the dedicated final ID/bytes"   *)
(* (controller.cpp:518): until a close succeeds its last slot is free.     *)
CloseSlotSurvives == ~recordingClosed => j.count[Spare] < Slots[Spare]

(* What a retry or a status call is told about an ID in a branch.          *)
Told(s, id) ==
    IF s = j.scope /\ hot[id] # Absent
    THEN [payload |-> hot[id].payload, answer |-> hot[id].answer]
    ELSE Found(j, id, {s})

Store == INSTANCE DedupStore WITH
            table <- [k \in Scopes \X Ids |-> Told(k[1], k[2])]

(* The runtime keeps the promises of DedupStore: what a retry is told      *)
(* never changes within an epoch, an ID never means two things, and an     *)
(* epoch ends at most the one unanswered advancement.                      *)
ImplementsStore == Store!Spec

=============================================================================
