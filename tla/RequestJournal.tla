--------------------------- MODULE RequestJournal ---------------------------
(***************************************************************************)
(* The request journal object of the resident runtime,                     *)
(* runtime/request_journal.hpp, as operators on a journal record "jr".     *)
(*                                                                         *)
(* Two append-only files hold the requests: the ordinary one and a         *)
(* preallocated emergency reserve.  An ID's reservation is written before  *)
(* the request runs, its completion after.  RAM holds only one head per    *)
(* hash bucket; every record links to the previous head of its bucket.     *)
(*                                                                         *)
(* Every write may fail.  A record that could not be written whole leaves  *)
(* no trace: used_ and the heads move only after the last byte.            *)
(***************************************************************************)
EXTENDS Integers, Sequences, FiniteSets

CONSTANTS
    Ids,            \* request IDs
    Payloads,       \* canonical request contents
    Answers,        \* serialized responses
    Closed,         \* the answer {"closed":true}
    Incomplete,     \* the answer recording_close_incomplete
    Lost,           \* the answer dedup_storage_failed given to a pending request
    NoAnswer,       \* a reservation without completion
    Scopes,         \* branch scopes
    Root,           \* the scope the process starts in
    Buckets,        \* hash buckets
    BucketOf,       \* [Ids -> Buckets]
    Class,          \* [Payloads -> {"mutation", "control", "close"}]
    Weight,         \* bytes a record with this body takes
    Slots,          \* [Files -> Nat], the ID quota of each file
    Bytes,          \* [Files -> Nat], the byte quota of each file
    CloseBytes,     \* reserve bytes only closing may use
    MaxEpoch        \* bound on the epochs explored

None == "none"
Normal == "normal"
Spare == "reserve"
Files == {Normal, Spare}

ASSUME ConstantsAssumption ==
    /\ {Closed, Incomplete, Lost} \subseteq Answers
    /\ NoAnswer \notin Answers
    /\ None \notin Ids /\ None \notin Payloads
    /\ Root \in Scopes
    /\ BucketOf \in [Ids -> Buckets]
    /\ Class \in [Payloads -> {"mutation", "control", "close"}]
    /\ Weight \in [Payloads \cup Answers -> Nat \ {0}]
    /\ Slots \in [Files -> Nat] /\ Slots[Spare] > 0
    /\ Bytes \in [Files -> Nat]
    /\ CloseBytes \in 0 .. Bytes[Spare]
    /\ MaxEpoch \in Nat \ {0}

-----------------------------------------------------------------------------
(* Records.  j.log lists the records of both files in the order they were  *)
(* written; a token is a place in it.  A bucket's head is kept as the set  *)
(* of tokens the walk from it visits: a walk goes from newer to older.     *)

Tokens(jr) == 1 .. Len(jr.log)
Live(jr) == {t \in Tokens(jr) : jr.log[t].epoch = jr.epoch}
IsReservation(jr, t) == jr.log[t].kind # "complete"
Completes(jr, c, t) == jr.log[c].kind = "complete" /\ jr.log[c].request = t
Completed(jr, t) == \E c \in Tokens(jr) : Completes(jr, c, t)

NoWalk == [b \in Buckets |-> {}]
NoCount == [f \in Files |-> 0]
EmptyJournal(s) ==
    [log |-> <<>>, walk |-> NoWalk, used |-> NoCount, count |-> NoCount,
     epoch |-> 1, scope |-> s, opened |-> FALSE, fault |-> FALSE, sealed |-> FALSE,
     adopt |-> 0]       \* the epoch to inherit, 0 for a fresh journal

NextEpoch(jr) == [jr EXCEPT !.epoch = @ + 1, !.walk = NoWalk, !.count = NoCount]

(* Append's quota: closing traffic alone may enter the last CloseBytes.    *)
Fits(jr, f, body, forClose) ==
    jr.used[f] + Weight[body] <= IF f = Spare /\ ~forClose THEN Bytes[f] - CloseBytes
                                 ELSE Bytes[f]

(* A faulty AppendRecord that leaves the head on the reservation.          *)
AppendWithoutHead(jr, f, id, body, kind, request) ==
    [jr EXCEPT !.log = Append(@, [id |-> id, body |-> body, kind |-> kind, scope |-> jr.scope,
                                  epoch |-> jr.epoch, file |-> f, request |-> request,
                                  next |-> jr.walk[BucketOf[id]]]),
               !.used[f] = @ + Weight[body],
               !.walk[BucketOf[id]] = IF kind = "complete" THEN @ ELSE @ \cup {Len(jr.log) + 1}]

(* A successful Append: the new record is its bucket's head, linked to the *)
(* old one; next is the walk that begins at that link.                     *)
AppendRecord(jr, f, id, body, kind, request) ==
    LET b == BucketOf[id]
        r == [id |-> id, body |-> body, kind |-> kind, scope |-> jr.scope,
              epoch |-> jr.epoch, file |-> f, request |-> request, next |-> jr.walk[b]]
    IN [jr EXCEPT !.log = Append(jr.log, r),
                  !.used = [jr.used EXCEPT ![f] = @ + Weight[body]],
                  !.walk = [jr.walk EXCEPT ![b] = @ \cup {Len(jr.log) + 1}]]

-----------------------------------------------------------------------------
(* Find walks one bucket and keeps the newest record of the ID per scope.  *)

Walk(jr, id) == jr.walk[BucketOf[id]]
Matches(jr, id, scopes) ==
    {t \in Walk(jr, id) : jr.log[t].id = id /\ jr.log[t].scope \in scopes}

(* What ends a walk in Corrupt: a record of another epoch, a completion    *)
(* that does not repeat its reservation's ID, epoch and scope, and a walk  *)
(* longer than the admitted IDs allow.                                     *)
Mismatched(jr, t) ==
    /\ jr.log[t].kind = "complete"
    /\ LET q == jr.log[jr.log[t].request]
       IN \/ q.kind = "complete" \/ q.epoch # jr.epoch
          \/ q.id # jr.log[t].id \/ q.scope # jr.log[t].scope
Damaged(jr, id) ==
    \/ Cardinality(Walk(jr, id)) > 2 * (jr.count[Normal] + jr.count[Spare]) + 1
    \/ \E t \in Walk(jr, id) :
         \/ jr.log[t].epoch # jr.epoch
         \/ jr.log[t].id = id /\ Mismatched(jr, t)

NotFound == [payload |-> None, answer |-> NoAnswer]
Found(jr, id, scopes) ==
    LET m == Matches(jr, id, scopes)
        r == jr.log[CHOOSE t \in m : \A u \in m : u <= t]
    IN IF m = {} THEN NotFound
       ELSE IF r.kind = "complete"
       THEN [payload |-> jr.log[r.request].body, answer |-> r.body]
       ELSE [payload |-> r.body, answer |-> NoAnswer]

-----------------------------------------------------------------------------
(* Reserve.  "down" is the set of files whose write fails during the call. *)

Faulted(jr) == [jr EXCEPT !.fault = TRUE]
Refused(jr, why) == [j |-> jr, out |-> why]
Reserved(jr, f, id, p) ==
    [j |-> [AppendRecord(jr, f, id, p, IF Class[p] = "close" THEN "close" ELSE "reserve", 0)
              EXCEPT !.count = [jr.count EXCEPT ![f] = @ + 1]],
     out |-> "ok"]

(* A faulty ReserveSpare without the slot kept for closing.                *)
ReserveSpareEverySlot(jr, id, p, down) ==
    IF jr.count[Spare] >= Slots[Spare] \/ ~Fits(jr, Spare, p, Class[p] = "close")
    THEN Refused(jr, "capacity")
    ELSE IF Spare \in down THEN Refused(jr, "error") ELSE Reserved(jr, Spare, id, p)

ReserveSpare(jr, id, p, down) ==
    LET forClose == Class[p] = "close"
        slots == IF forClose THEN Slots[Spare] ELSE Slots[Spare] - 1
    IN IF jr.count[Spare] >= slots \/ ~Fits(jr, Spare, p, forClose)
       THEN Refused(jr, "capacity")
       ELSE IF Spare \in down THEN Refused(jr, "error")
       ELSE Reserved(jr, Spare, id, p)

(* The ordinary file serves everyone; controls alone fall back to the      *)
(* reserve when it is full, faulted or fails now.                          *)
ReserveOpened(jr, id, p, down) ==
    LET tried == ~jr.fault /\ jr.count[Normal] < Slots[Normal] /\ Fits(jr, Normal, p, FALSE)
        after == IF tried THEN Faulted(jr) ELSE jr
    IN IF tried /\ Normal \notin down THEN Reserved(jr, Normal, id, p)
       ELSE IF Class[p] # "mutation" THEN ReserveSpare(after, id, p, down)
       ELSE Refused(after, IF after.fault THEN "error" ELSE "capacity")

(* OpenAdopted rebuilds the index one file after the other, so a bucket's  *)
(* head is its newest reserve record if it has one.  Every record of the   *)
(* inherited epoch counts as an ID.                                        *)
OpenAdopted(jr) ==
    LET inherited(f) == {t \in Tokens(jr) : jr.log[t].file = f /\ jr.log[t].epoch = jr.adopt}
        inBucket(f, b) == {t \in inherited(f) : BucketOf[jr.log[t].id] = b}
        head(b) == LET last == IF inBucket(Spare, b) # {} THEN inBucket(Spare, b)
                               ELSE inBucket(Normal, b)
                   IN {t \in last : \A u \in last : u <= t}
    IN [jr EXCEPT !.opened = TRUE,
                  !.walk = [b \in Buckets |-> head(b) \cup UNION {jr.log[t].next : t \in head(b)}],
                  !.count = [f \in Files |-> Cardinality(inherited(f))]]

(* The first Reserve opens the files.  Creating them fails for good: on    *)
(* the ordinary file without leaving a handle, so later calls fail too; on *)
(* the reserve's preallocation with both handles, so later calls pass.     *)
Reserve(jr, id, p, down) ==
    IF jr.opened THEN ReserveOpened(jr, id, p, down)
    ELSE IF jr.fault \/ down # {}
    THEN Refused([Faulted(jr) EXCEPT !.opened = IF jr.fault THEN FALSE ELSE Normal \notin down], "error")
    ELSE ReserveOpened(IF jr.adopt = 0 THEN [jr EXCEPT !.opened = TRUE] ELSE OpenAdopted(jr),
                       id, p, down)

(* Complete.  A completion lost to the ordinary file, its quota included,  *)
(* faults the journal and goes to the reserve.                             *)
CompleteIn(jr, t, answer, recovery, down) ==
    LET q == jr.log[t]
        tried == q.file = Normal /\ ~jr.fault
        after == IF tried THEN Faulted(jr) ELSE jr
    IN IF tried /\ Fits(jr, Normal, answer, FALSE) /\ Normal \notin down
       THEN [j |-> AppendRecord(jr, Normal, q.id, answer, "complete", t), ok |-> TRUE]
       ELSE IF Fits(after, Spare, answer, q.kind = "close" \/ recovery) /\ Spare \notin down
       THEN [j |-> AppendRecord(after, Spare, q.id, answer, "complete", t), ok |-> TRUE]
       ELSE [j |-> after, ok |-> FALSE]

=============================================================================
