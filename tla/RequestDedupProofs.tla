------------------------- MODULE RequestDedupProofs -------------------------
(***************************************************************************)
(* Proofs about RequestDedup.  The first part is about the journal, its    *)
(* index and who is admitted; the second about what it promises: a sealed  *)
(* archive is complete, a close always has room left, and the runtime      *)
(* implements DedupStore.                                                  *)
(***************************************************************************)
EXTENDS RequestDedup, FiniteSetTheorems, WellFoundedInduction, TLAPS

Indexed(jr) == \A b \in Buckets : jr.walk[b] = {t \in Live(jr) : BucketOf[jr.log[t].id] = b}
OncePerKey(jr) ==
    \A t, u \in Tokens(jr) :
        /\ IsReservation(jr, t) /\ IsReservation(jr, u)
        /\ jr.log[t].id = jr.log[u].id
        /\ jr.log[t].scope = jr.log[u].scope /\ jr.log[t].epoch = jr.log[u].epoch
        => t = u
PastEpochs(jr) == \A t \in Tokens(jr) : jr.log[t].epoch <= jr.epoch

JournalInv(jr) ==
    /\ jr \in JournalType
    /\ jr.adopt = 0
    /\ Indexed(jr)
    /\ OncePerKey(jr)
    /\ PastEpochs(jr)

(* The branch has not used the ID in this epoch.                           *)
Fresh(jr, id) == Matches(jr, id, {jr.scope}) = {}

(* Nothing written is ever changed.                                        *)
Extends(jr, new) ==
    /\ Len(jr.log) <= Len(new.log)
    /\ \A t \in Tokens(jr) : new.log[t] = jr.log[t]
    /\ new.scope = jr.scope /\ new.epoch = jr.epoch

NewRecord(jr, f, id, body, kind, request) ==
    [id |-> id, body |-> body, kind |-> kind, scope |-> jr.scope, epoch |-> jr.epoch,
     file |-> f, request |-> request, next |-> jr.walk[BucketOf[id]]]

(* The fields of the journal after a successful Append.                    *)
LEMMA AppendFields ==
    ASSUME NEW jr \in JournalType, NEW f \in Files, NEW id \in Ids,
           NEW body \in Payloads \cup Answers,
           NEW kind \in {"reserve", "close", "complete"}, NEW request \in Nat
    PROVE  LET new == AppendRecord(jr, f, id, body, kind, request)
           IN /\ new \in JournalType
              /\ new.log = Append(jr.log, NewRecord(jr, f, id, body, kind, request))
              /\ new.walk = [jr.walk EXCEPT ![BucketOf[id]] = @ \cup {Len(jr.log) + 1}]
              /\ new.epoch = jr.epoch /\ new.scope = jr.scope /\ new.adopt = jr.adopt
              /\ new.count = jr.count
<1> DEFINE r == NewRecord(jr, f, id, body, kind, request)
           new == AppendRecord(jr, f, id, body, kind, request)
<1>1. BucketOf[id] \in Buckets /\ Weight[body] \in Nat
  BY ConstantsAssumption
<1>2. r \in RecordType
  BY <1>1 DEF NewRecord, RecordType, JournalType
<1>3. Append(jr.log, r) \in Seq(RecordType) /\ Len(jr.log) + 1 \in Nat
  BY <1>2 DEF JournalType
<1>4. new = [jr EXCEPT !.log = Append(jr.log, r),
                       !.used = [jr.used EXCEPT ![f] = @ + Weight[body]],
                       !.walk = [jr.walk EXCEPT ![BucketOf[id]] = @ \cup {Len(jr.log) + 1}]]
  BY DEF AppendRecord, NewRecord, JournalType
<1>5. [jr.used EXCEPT ![f] = @ + Weight[body]] \in [Files -> Nat]
  BY <1>1 DEF JournalType
<1>6. [jr.walk EXCEPT ![BucketOf[id]] = @ \cup {Len(jr.log) + 1}] \in [Buckets -> SUBSET Nat]
  BY <1>1, <1>3 DEF JournalType
<1> QED
  BY <1>3, <1>4, <1>5, <1>6 DEF JournalType

(* A successful Append of a fresh reservation or a matching completion keeps *)
(* the journal invariant.                                                  *)
LEMMA AppendPreserves ==
    ASSUME NEW jr, JournalInv(jr), NEW f \in Files, NEW id \in Ids,
           NEW body \in Payloads \cup Answers,
           NEW kind \in {"reserve", "close", "complete"}, NEW request \in Nat,
           kind = "complete" \/ Fresh(jr, id)
    PROVE  LET new == AppendRecord(jr, f, id, body, kind, request)
           IN /\ JournalInv(new) /\ Extends(jr, new)
              /\ Len(new.log) = Len(jr.log) + 1
              /\ new.log[Len(new.log)].id = id
              /\ new.log[Len(new.log)].kind = kind
<1> DEFINE r == NewRecord(jr, f, id, body, kind, request)
           new == AppendRecord(jr, f, id, body, kind, request)
           n == Len(jr.log) + 1
<1>0. jr \in JournalType /\ BucketOf \in [Ids -> Buckets]
  BY ConstantsAssumption DEF JournalInv
<1>1. /\ new \in JournalType
      /\ new.log = Append(jr.log, r)
      /\ new.walk = [jr.walk EXCEPT ![BucketOf[id]] = @ \cup {n}]
      /\ new.epoch = jr.epoch /\ new.scope = jr.scope /\ new.adopt = jr.adopt
  BY <1>0, AppendFields, SMTT(30)
<1> HIDE DEF new, r
<1>2. /\ Len(jr.log) \in Nat /\ jr.log \in Seq(RecordType) /\ jr.epoch \in Nat
      /\ r \in RecordType
      /\ \A t \in Tokens(jr) : jr.log[t] \in RecordType
  <2>1. jr.log \in Seq(RecordType) /\ jr.epoch \in Nat
    BY <1>0 DEF JournalType
  <2>2. r \in RecordType
    BY <1>0 DEF r, NewRecord, RecordType, JournalType
  <2> QED
    BY <2>1, <2>2 DEF Tokens
<1>3. /\ Tokens(new) = Tokens(jr) \cup {n}
      /\ n \notin Tokens(jr)
      /\ Len(new.log) = n
      /\ new.log[n] = r
      /\ \A t \in Tokens(jr) : new.log[t] = jr.log[t]
  <2>1. Len(new.log) = n /\ \A t \in 1 .. n : new.log[t] = IF t = n THEN r ELSE jr.log[t]
    BY <1>1, <1>2
  <2> QED
    BY <2>1, <1>2 DEF Tokens
<1>4. Extends(jr, new)
  <2>1. Len(jr.log) <= Len(new.log)
    BY <1>2, <1>3
  <2> QED
    BY <2>1, <1>1, <1>3 DEF Extends
<1>5. r.id = id /\ r.kind = kind /\ r.scope = jr.scope /\ r.epoch = jr.epoch
  BY DEF r, NewRecord
<1>6. Live(new) = Live(jr) \cup {n}
  BY <1>1, <1>3, <1>5 DEF Live
<1>7. Indexed(new)
  <2> SUFFICES ASSUME NEW b \in Buckets
               PROVE  new.walk[b] = {t \in Live(new) : BucketOf[new.log[t].id] = b}
    BY DEF Indexed
  <2>1. jr.walk[b] = {t \in Live(jr) : BucketOf[jr.log[t].id] = b}
    BY DEF JournalInv, Indexed
  <2>2. {t \in Live(new) : BucketOf[new.log[t].id] = b}
          = {t \in Live(jr) : BucketOf[jr.log[t].id] = b}
              \cup (IF BucketOf[id] = b THEN {n} ELSE {})
    BY <1>3, <1>5, <1>6 DEF Live
  <2>3. new.walk[b] = jr.walk[b] \cup (IF BucketOf[id] = b THEN {n} ELSE {})
    BY <1>0, <1>1 DEF JournalType
  <2> QED
    BY <2>1, <2>2, <2>3
<1>8. OncePerKey(new)
  <2>1. CASE kind = "complete"
    <3>1. ~IsReservation(new, n) /\ \A t \in Tokens(jr) : new.log[t] = jr.log[t]
      BY <2>1, <1>3, <1>5 DEF IsReservation
    <3>2. OncePerKey(jr)
      BY DEF JournalInv
    <3> QED
      BY <3>1, <3>2, <1>3 DEF OncePerKey, IsReservation
  <2>2. CASE Fresh(jr, id)
    <3>1. ASSUME NEW t \in Tokens(jr), jr.log[t].id = id, jr.log[t].scope = jr.scope,
                 jr.log[t].epoch = jr.epoch
          PROVE  FALSE
      <4>1. t \in jr.walk[BucketOf[id]]
        BY <3>1, <1>0 DEF JournalInv, Indexed, Live
      <4> QED
        BY <4>1, <3>1, <2>2 DEF Fresh, Matches, Walk
    <3>2. OncePerKey(jr)
      BY DEF JournalInv
    <3>3. new.log[n].id = id /\ new.log[n].scope = jr.scope /\ new.log[n].epoch = jr.epoch
      BY <1>3, <1>5
    <3> QED
      BY <3>1, <3>2, <3>3, <1>3 DEF OncePerKey, IsReservation
  <2> QED
    BY <2>1, <2>2
<1>9. PastEpochs(new)
  <2>1. PastEpochs(jr)
    BY DEF JournalInv
  <2>2. new.log[n].epoch <= new.epoch
    BY <1>1, <1>2, <1>3, <1>5
  <2>3. \A t \in Tokens(jr) : new.log[t].epoch <= new.epoch
    BY <2>1, <1>1, <1>3 DEF PastEpochs
  <2> QED
    BY <2>2, <2>3, <1>3 DEF PastEpochs
<1>10. new.adopt = 0
  BY <1>1 DEF JournalInv
<1> QED
  BY <1>1, <1>3, <1>4, <1>5, <1>7, <1>8, <1>9, <1>10 DEF JournalInv, new

(* Extends (the log grows, nothing else of the identity moves) is transitive. *)
LEMMA ExtendsTransitive ==
    ASSUME NEW a \in JournalType, NEW b \in JournalType, NEW c \in JournalType,
           Extends(a, b), Extends(b, c)
    PROVE  Extends(a, c)
<1>1. Len(a.log) \in Nat /\ Len(b.log) \in Nat /\ Len(c.log) \in Nat
  BY DEF JournalType
<1>2. Tokens(a) \subseteq Tokens(b)
  BY <1>1 DEF Extends, Tokens
<1> QED
  BY <1>1, <1>2 DEF Extends

(* A journal that only notes a fault, or opens, keeps its records.         *)
SameRecords(jr, new) ==
    /\ new.log = jr.log /\ new.walk = jr.walk /\ new.epoch = jr.epoch
    /\ new.scope = jr.scope /\ new.adopt = jr.adopt

(* A journal with the same records and index keeps the invariant, whatever *)
(* its counters and flags.                                                 *)
LEMMA SameRecordsPreserve ==
    ASSUME NEW jr, JournalInv(jr), NEW new \in JournalType, SameRecords(jr, new)
    PROVE  JournalInv(new) /\ Extends(jr, new)
<1>1. Tokens(new) = Tokens(jr) /\ Live(new) = Live(jr) /\ Len(jr.log) \in Nat
  BY DEF SameRecords, Tokens, Live, JournalInv, JournalType
<1>2. Indexed(new)
  BY <1>1 DEF SameRecords, JournalInv, Indexed
<1>3. OncePerKey(new)
  BY <1>1 DEF SameRecords, JournalInv, OncePerKey, IsReservation
<1>4. PastEpochs(new)
  BY <1>1 DEF SameRecords, JournalInv, PastEpochs
<1>5. Extends(jr, new)
  BY <1>1 DEF SameRecords, Extends
<1> QED
  BY <1>2, <1>3, <1>4, <1>5 DEF JournalInv, SameRecords

(* Noting a fault keeps the journal invariant.                             *)
LEMMA FaultPreserves ==
    ASSUME NEW jr, JournalInv(jr), NEW after \in {jr, Faulted(jr)}
    PROVE  JournalInv(after) /\ Extends(jr, after)
<1>1. after \in JournalType
  BY DEF JournalInv, JournalType, Faulted
<1>2. SameRecords(jr, after)
  BY DEF SameRecords, Faulted, JournalInv, JournalType
<1> QED
  BY <1>1, <1>2, SameRecordsPreserve

(* Completing a reservation keeps the journal's invariant.                 *)
LEMMA CompletePreserves ==
    ASSUME NEW jr, JournalInv(jr), NEW t \in Tokens(jr), NEW answer \in Answers,
           NEW recovery \in BOOLEAN, NEW down
    PROVE  LET c == CompleteIn(jr, t, answer, recovery, down)
           IN JournalInv(c.j) /\ Extends(jr, c.j) /\ c.ok \in BOOLEAN
<1> DEFINE c == CompleteIn(jr, t, answer, recovery, down)
           q == jr.log[t]
<1>1. q \in RecordType /\ t \in Nat
  BY DEF JournalInv, JournalType, Tokens
<1>2. q.id \in Ids
  BY <1>1 DEF RecordType
<1>3. ASSUME NEW after \in {jr, Faulted(jr)}, NEW f \in Files
      PROVE  LET new == AppendRecord(after, f, q.id, answer, "complete", t)
             IN JournalInv(new) /\ Extends(jr, new)
  <2>1. JournalInv(after) /\ Extends(jr, after)
    BY FaultPreserves
  <2>2. JournalInv(AppendRecord(after, f, q.id, answer, "complete", t))
    BY <1>1, <1>2, <2>1, AppendPreserves
  <2>3. Extends(after, AppendRecord(after, f, q.id, answer, "complete", t))
    BY <1>1, <1>2, <2>1, AppendPreserves
  <2> QED
    BY <2>1, <2>2, <2>3, ExtendsTransitive DEF JournalInv
<1>4. JournalInv(Faulted(jr)) /\ Extends(jr, Faulted(jr)) /\ Extends(jr, jr)
  BY FaultPreserves
<1> QED
  BY <1>3, <1>4 DEF CompleteIn, Files
-----------------------------------------------------------------------------
(* Reservations                                                            *)

Took(jr, id, r) ==
    /\ JournalInv(r.j) /\ Extends(jr, r.j)
    /\ r.out = "ok" => Len(r.j.log) \in Tokens(r.j)

(* Counting an admitted ID keeps the journal invariant.                    *)
LEMMA CountPreserves ==
    ASSUME NEW jr, JournalInv(jr), NEW c \in [Files -> Nat]
    PROVE  LET new == [jr EXCEPT !.count = c]
           IN JournalInv(new) /\ Extends(jr, new) /\ new.log = jr.log
<1>1. [jr EXCEPT !.count = c] \in JournalType
  BY DEF JournalInv, JournalType
<1>2. SameRecords(jr, [jr EXCEPT !.count = c])
  BY DEF JournalInv, JournalType, SameRecords
<1> QED
  BY <1>1, <1>2, SameRecordsPreserve DEF SameRecords

(* Writing a reservation is a proper outcome of Reserve.                   *)
LEMMA ReservedTakes ==
    ASSUME NEW jr, JournalInv(jr), NEW f \in Files, NEW id \in Ids, NEW p \in Payloads,
           Fresh(jr, id)
    PROVE  Took(jr, id, Reserved(jr, f, id, p))
<1> DEFINE k == IF Class[p] = "close" THEN "close" ELSE "reserve"
           new == AppendRecord(jr, f, id, p, k, 0)
           c == [jr.count EXCEPT ![f] = @ + 1]
           counted == [new EXCEPT !.count = c]
<1>1. k \in {"reserve", "close", "complete"} /\ p \in Payloads \cup Answers /\ 0 \in Nat
  OBVIOUS
<1> HIDE DEF k
<1>2. JournalInv(new) /\ Extends(jr, new) /\ Len(new.log) = Len(jr.log) + 1
  BY <1>1, AppendPreserves
<1>3. c \in [Files -> Nat]
  BY DEF JournalInv, JournalType
<1>4. Reserved(jr, f, id, p) = [j |-> counted, out |-> "ok"]
  BY DEF Reserved, k
<1> HIDE DEF new, c
<1>5. JournalInv(counted) /\ Extends(new, counted) /\ counted.log = new.log
  BY <1>2, <1>3, CountPreserves
<1>6. Extends(jr, counted)
  BY <1>2, <1>5, ExtendsTransitive DEF JournalInv
<1>7. Len(counted.log) \in Tokens(counted)
  <2>1. Len(jr.log) \in Nat
    BY DEF JournalInv, JournalType
  <2> QED
    BY <2>1, <1>2, <1>5 DEF Tokens
<1> HIDE DEF counted
<1> QED
  BY <1>4, <1>5, <1>6, <1>7 DEF Took

(* So is refusing it.                                                      *)
LEMMA RefusedTakes ==
    ASSUME NEW jr, NEW new, NEW id, NEW why, why # "ok", JournalInv(new), Extends(jr, new)
    PROVE  Took(jr, id, Refused(new, why))
  BY DEF Took, Refused

(* An outcome from a journal that only gained a flag is one from the journal *)
(* itself.                                                                 *)
LEMMA TookFromExtension ==
    ASSUME NEW jr, NEW after, JournalInv(jr), JournalInv(after), Extends(jr, after),
           NEW id, NEW r, Took(after, id, r)
    PROVE  Took(jr, id, r)
<1>1. jr \in JournalType /\ after \in JournalType /\ r.j \in JournalType
  BY DEF Took, JournalInv
<1>2. Extends(jr, r.j)
  BY <1>1, ExtendsTransitive DEF Took
<1> QED
  BY <1>2 DEF Took

(* The reserve file serves a control properly.                             *)
LEMMA SpareTakes ==
    ASSUME NEW jr, JournalInv(jr), NEW id \in Ids, NEW p \in Payloads, NEW down,
           Fresh(jr, id)
    PROVE  Took(jr, id, ReserveSpare(jr, id, p, down))
<1>1. Took(jr, id, Refused(jr, "capacity")) /\ Took(jr, id, Refused(jr, "error"))
  BY FaultPreserves, RefusedTakes
<1>2. Took(jr, id, Reserved(jr, Spare, id, p))
  BY ReservedTakes DEF Files
<1> QED
  BY <1>1, <1>2 DEF ReserveSpare

(* An opened journal serves every request properly.                        *)
LEMMA OpenedTakes ==
    ASSUME NEW jr, JournalInv(jr), NEW id \in Ids, NEW p \in Payloads, NEW down,
           Fresh(jr, id)
    PROVE  Took(jr, id, ReserveOpened(jr, id, p, down))
<1>1. ASSUME NEW after \in {jr, Faulted(jr)}
      PROVE  /\ Took(jr, id, ReserveSpare(after, id, p, down))
             /\ \A why \in {"error", "capacity"} : Took(jr, id, Refused(after, why))
  <2>1. JournalInv(after) /\ Extends(jr, after)
    BY FaultPreserves
  <2>2. SameRecords(jr, after)
    BY DEF SameRecords, Faulted, JournalInv, JournalType
  <2>3. Fresh(after, id)
    BY <2>2 DEF SameRecords, Fresh, Matches, Walk
  <2>4. Took(after, id, ReserveSpare(after, id, p, down))
    BY <2>1, <2>3, SpareTakes
  <2>5. Took(jr, id, ReserveSpare(after, id, p, down))
    BY <2>1, <2>4, TookFromExtension
  <2> QED
    BY <2>1, <2>5, RefusedTakes
<1>2. Took(jr, id, Reserved(jr, Normal, id, p))
  BY ReservedTakes DEF Files
<1> QED
  BY <1>1, <1>2 DEF ReserveOpened

(* Reserve serves every request properly, the first one included.          *)
LEMMA ReserveTakes ==
    ASSUME NEW jr, JournalInv(jr), NEW id \in Ids, NEW p \in Payloads, NEW down,
           Fresh(jr, id)
    PROVE  Took(jr, id, Reserve(jr, id, p, down))
<1> DEFINE opened == [jr EXCEPT !.opened = TRUE]
           failed == [Faulted(jr) EXCEPT !.opened = IF jr.fault THEN FALSE ELSE Normal \notin down]
<1>1. opened \in JournalType /\ SameRecords(jr, opened)
  BY DEF SameRecords, JournalInv, JournalType
<1>2. failed \in JournalType /\ SameRecords(jr, failed)
  BY DEF SameRecords, JournalInv, JournalType, Faulted
<1>3. JournalInv(opened) /\ Extends(jr, opened) /\ JournalInv(failed) /\ Extends(jr, failed)
  BY <1>1, <1>2, SameRecordsPreserve
<1>4. Fresh(opened, id)
  BY <1>1 DEF SameRecords, Fresh, Matches, Walk
<1> HIDE DEF opened, failed
<1>5. Took(jr, id, ReserveOpened(opened, id, p, down))
  BY <1>3, <1>4, OpenedTakes, TookFromExtension
<1>6. Took(jr, id, Refused(failed, "error"))
  BY <1>3, RefusedTakes
<1>7. Took(jr, id, ReserveOpened(jr, id, p, down))
  BY OpenedTakes
<1>8. jr.adopt = 0
  BY DEF JournalInv
<1> QED
  BY <1>5, <1>6, <1>7, <1>8 DEF Reserve, opened, failed

-----------------------------------------------------------------------------
(* The controller's entries                                                *)

HotInv(jr, h) ==
    /\ h \in [Ids -> EntryType]
    /\ \A id \in Ids : h[id] # Absent => h[id].token \in Tokens(jr)

StateInv(s) == JournalInv(s.j) /\ HotInv(s.j, s.hot) /\ s.storage \in BOOLEAN

Inv ==
    /\ StateInv(State(j, hot))
    /\ recordingClosed \in BOOLEAN
    /\ pending \in Ids \cup {None} /\ closing \in Ids \cup {None}
    /\ pending # None => hot[pending] # Absent
    /\ closing # None => hot[closing] # Absent /\ hot[closing].answer = NoAnswer
    /\ closing # None => pending = None

(* Hot entries stay right when the log grows.                              *)
LEMMA HotExtends ==
    ASSUME NEW jr, NEW new, NEW h, JournalInv(jr), JournalInv(new), Extends(jr, new),
           HotInv(jr, h)
    PROVE  HotInv(new, h)
<1>1. Len(jr.log) \in Nat /\ Len(new.log) \in Nat
  BY DEF JournalInv, JournalType
<1>2. Tokens(jr) \subseteq Tokens(new)
  BY <1>1 DEF Extends, Tokens
<1> QED
  BY <1>2 DEF HotInv

(* Dropping an entry keeps the others right.                               *)
LEMMA HotAbsent ==
    ASSUME NEW jr, NEW h, HotInv(jr, h), NEW id \in Ids
    PROVE  HotInv(jr, [h EXCEPT ![id] = Absent])
  BY DEF HotInv, EntryType

(* A hot entry that is in use names its own reservation.                   *)
LEMMA HotEntry ==
    ASSUME NEW jr, NEW h, HotInv(jr, h), NEW id \in Ids,
           NEW e \in EntryType, e.token \in Tokens(jr)
    PROVE  HotInv(jr, [h EXCEPT ![id] = e])
  BY DEF HotInv

(* Answering an entry in RAM keeps it right.                               *)
LEMMA EntryAnswered ==
    ASSUME NEW e \in EntryType, e # Absent, NEW a \in Answers
    PROVE  LET n == [e EXCEPT !.answer = a]
           IN n \in EntryType /\ n # Absent /\ n.token = e.token
<1>1. e \in [payload : Payloads, answer : Answers \cup {NoAnswer}, token : Nat]
  BY DEF EntryType
<1>2. [e EXCEPT !.answer = a] \in [payload : Payloads, answer : Answers \cup {NoAnswer}, token : Nat]
  BY <1>1
<1>3. [e EXCEPT !.answer = a].payload \in Payloads /\ [e EXCEPT !.answer = a].token = e.token
  BY <1>1
<1>4. [e EXCEPT !.answer = a] # Absent
  BY <1>3, ConstantsAssumption DEF Absent
<1> QED
  BY <1>2, <1>3, <1>4 DEF EntryType

(* Settling an entry keeps the invariant and touches no other entry.       *)
LEMMA SettlePreserves ==
    ASSUME NEW s, StateInv(s), NEW id \in Ids, s.hot[id] # Absent, NEW a \in Answers, NEW down
    PROVE  LET t == Settle(s, id, a, down)
           IN StateInv(t) /\ \A o \in Ids \ {id} : t.hot[o] = s.hot[o]
<1> DEFINE c == CompleteIn(s.j, s.hot[id].token, a, FALSE, down)
           e == IF c.ok THEN Absent ELSE [s.hot[id] EXCEPT !.answer = a]
           h == [s.hot EXCEPT ![id] = e]
<1>1. s.hot[id] \in EntryType /\ s.hot[id].token \in Tokens(s.j) /\ s.hot \in [Ids -> EntryType]
  BY DEF StateInv, HotInv
<1>2. JournalInv(c.j) /\ Extends(s.j, c.j) /\ c.ok \in BOOLEAN
  BY <1>1, CompletePreserves DEF StateInv
<1> HIDE DEF c
<1>3. HotInv(c.j, s.hot)
  BY <1>2, HotExtends DEF StateInv
<1>4. HotInv(c.j, h)
  <2>1. CASE c.ok
    BY <2>1, <1>3, HotAbsent
  <2>2. CASE ~c.ok
    <3>1. e \in EntryType /\ e.token = s.hot[id].token
      BY <2>2, <1>1, EntryAnswered
    <3>2. e.token \in Tokens(c.j)
      BY <3>1, <1>3 DEF HotInv
    <3> QED
      BY <3>1, <3>2, <1>3, HotEntry
  <2> QED
    BY <2>1, <2>2
<1>5. Settle(s, id, a, down) = [j |-> c.j, hot |-> h, storage |-> s.storage \/ ~c.ok]
  BY DEF Settle, c
<1>6. \A o \in Ids \ {id} : h[o] = s.hot[o]
  BY <1>1
<1> HIDE DEF h, e
<1> QED
  BY <1>2, <1>4, <1>5, <1>6 DEF StateInv

(* Settling the pending request keeps the invariant.                       *)
LEMMA SettlePendingPreserves ==
    ASSUME NEW s, StateInv(s), pending \in Ids \cup {None},
           pending # None => s.hot[pending] # Absent, NEW a \in Answers, NEW down
    PROVE  LET t == SettlePending(s, a, down)
           IN StateInv(t) /\ \A o \in Ids \ {pending} : t.hot[o] = s.hot[o]
  BY SettlePreserves DEF SettlePending

(* A storage fault that ends the pending request keeps the invariant.      *)
LEMMA DropPendingPreserves ==
    ASSUME NEW s, StateInv(s), pending \in Ids \cup {None},
           pending # None => s.hot[pending] # Absent, NEW down
    PROVE  StateInv(DropPending(s, down))
  BY SettlePendingPreserves, ConstantsAssumption DEF DropPending

(* Admitting an unknown ID keeps the invariant: its reservation is the only *)
(* one under its key, and its hot entry names it.                          *)
LEMMA AdmissionPreserves ==
    ASSUME Inv, NEW id \in Ids, NEW p \in Payloads, hot[id] = Absent, Fresh(j, id),
           NEW s \in Admissions(id, p)
    PROVE  /\ StateInv(s) /\ s.storage = storageFault
           /\ s.hot[id] # Absent /\ s.hot[id].answer = NoAnswer
           /\ \A o \in Ids \ {id} : s.hot[o] = hot[o]
<1>1. PICK down \in Faults : LET r == Reserve(j, id, p, down)
                             IN r.out = "ok" /\ s = Admitted(r.j, id, p)
  BY DEF Admissions
<1> DEFINE r == Reserve(j, id, p, down)
           e == [payload |-> p, answer |-> NoAnswer, token |-> Len(r.j.log)]
<1>2. JournalInv(j) /\ HotInv(j, hot) /\ storageFault \in BOOLEAN
  BY DEF Inv, StateInv, State
<1>3. Took(j, id, r)
  BY <1>2, ReserveTakes
<1>4. r.out = "ok" /\ s = Admitted(r.j, id, p)
  BY <1>1
<1> HIDE DEF r
<1>5. JournalInv(r.j) /\ Len(r.j.log) \in Tokens(r.j) /\ HotInv(r.j, hot)
  BY <1>2, <1>3, <1>4, HotExtends DEF Took
<1>6. e \in EntryType /\ e # Absent
  BY <1>5, ConstantsAssumption DEF EntryType, Absent, Tokens
<1>7. s = [j |-> r.j, hot |-> [hot EXCEPT ![id] = e], storage |-> storageFault]
  BY <1>4 DEF Admitted, State
<1>8. HotInv(r.j, [hot EXCEPT ![id] = e])
  BY <1>5, <1>6, HotEntry
<1>9. hot \in [Ids -> EntryType]
  BY <1>2 DEF HotInv
<1> QED
  BY <1>2, <1>5, <1>6, <1>7, <1>8, <1>9 DEF StateInv
-----------------------------------------------------------------------------
(* The inductive invariant                                                 *)

(* A handler that installs a good state makes the next state good.         *)
LEMMA InstallPreserves ==
    ASSUME NEW s, StateInv(s), Install(s)
    PROVE  /\ StateInv(State(j, hot))' /\ hot' = s.hot
  BY DEF StateInv, Install, State

(* The empty journal satisfies the inductive invariant.                    *)
LEMMA InitInv == Init => Inv
<1> SUFFICES ASSUME Init PROVE Inv
  OBVIOUS
<1>1. j \in JournalType /\ j.adopt = 0 /\ Tokens(j) = {}
  BY ConstantsAssumption DEF Init, EmptyJournal, NoWalk, NoCount, JournalType, Tokens
<1>2. JournalInv(j)
  <2>1. Indexed(j)
    BY <1>1 DEF Indexed, Live, Init, EmptyJournal, NoWalk
  <2> QED
    BY <1>1, <2>1 DEF JournalInv, OncePerKey, PastEpochs
<1>3. HotInv(j, hot)
  BY DEF HotInv, Init, NoHot, EntryType
<1> QED
  BY <1>2, <1>3 DEF Inv, StateInv, State, Init

(* Epoch: every record falls out of reach, so the empty index is exact.    *)
LEMMA EpochPreserves ==
    ASSUME NEW jr, JournalInv(jr)
    PROVE  JournalInv(NextEpoch(jr))
<1> DEFINE new == NextEpoch(jr)
<1>1. new \in JournalType
  <2>1. NoWalk \in [Buckets -> SUBSET Nat] /\ NoCount \in [Files -> Nat]
    BY DEF NoWalk, NoCount
  <2>2. jr \in JournalType /\ jr.epoch + 1 \in Nat
    BY DEF JournalInv, JournalType
  <2> QED
    BY <2>1, <2>2 DEF NextEpoch, JournalType
<1>2. /\ new.log = jr.log /\ new.walk = NoWalk /\ new.epoch = jr.epoch + 1
      /\ new.adopt = 0 /\ jr.epoch \in Nat /\ Tokens(new) = Tokens(jr)
  BY DEF NextEpoch, JournalInv, JournalType, Tokens
<1>3. \A t \in Tokens(jr) : jr.log[t].epoch \in Nat /\ jr.log[t].epoch <= jr.epoch
  <2>1. \A t \in Tokens(jr) : jr.log[t] \in RecordType
    BY DEF JournalInv, JournalType, Tokens
  <2> QED
    BY <2>1 DEF JournalInv, PastEpochs, RecordType
<1> HIDE DEF new
<1>4. Live(new) = {} /\ PastEpochs(new)
  BY <1>2, <1>3 DEF Live, PastEpochs
<1>5. Indexed(new)
  BY <1>2, <1>4 DEF Indexed, NoWalk
<1>6. OncePerKey(new)
  BY <1>2 DEF JournalInv, OncePerKey, IsReservation
<1> QED
  BY <1>1, <1>2, <1>4, <1>5, <1>6 DEF JournalInv, new

(* Sealing keeps the journal invariant.                                    *)
LEMMA SealedPreserves ==
    ASSUME NEW jr, JournalInv(jr)
    PROVE  LET new == [jr EXCEPT !.sealed = TRUE]
           IN JournalInv(new) /\ Extends(jr, new)
<1> DEFINE new == [jr EXCEPT !.sealed = TRUE]
<1>1. new \in JournalType
  BY DEF JournalInv, JournalType
<1>2. SameRecords(jr, new)
  BY DEF SameRecords, JournalInv, JournalType
<1> QED
  BY <1>1, <1>2, SameRecordsPreserve

(* Rebind keeps the journal invariant: no record changes its scope.        *)
LEMMA RebindPreserves ==
    ASSUME NEW jr, JournalInv(jr), NEW scope \in Scopes
    PROVE  JournalInv([jr EXCEPT !.scope = scope])
<1> DEFINE new == [jr EXCEPT !.scope = scope]
<1>1. /\ new \in JournalType /\ new.log = jr.log /\ new.walk = jr.walk
      /\ new.epoch = jr.epoch /\ new.adopt = jr.adopt
  BY DEF JournalInv, JournalType
<1> HIDE DEF new
<1>2. Tokens(new) = Tokens(jr) /\ Live(new) = Live(jr)
  BY <1>1 DEF Tokens, Live
<1>3. Indexed(new) /\ OncePerKey(new) /\ PastEpochs(new)
  BY <1>1, <1>2 DEF JournalInv, Indexed, OncePerKey, PastEpochs, IsReservation
<1> QED
  BY <1>1, <1>3 DEF JournalInv, new

(* Every call into the controller preserves the inductive invariant.       *)
LEMMA NextInv == Inv /\ [Next]_vars => Inv'
<1> SUFFICES ASSUME Inv, [Next]_vars PROVE Inv'
  OBVIOUS
<1> USE ConstantsAssumption DEF Replies
<1>1. /\ StateInv(State(j, hot)) /\ JournalInv(j) /\ HotInv(j, hot) /\ storageFault \in BOOLEAN
      /\ recordingClosed \in BOOLEAN
      /\ pending \in Ids \cup {None} /\ closing \in Ids \cup {None}
      /\ pending # None => hot[pending] # Absent
      /\ closing # None => hot[closing] # Absent /\ hot[closing].answer = NoAnswer
      /\ closing # None => pending = None
  BY DEF Inv, StateInv, State
<1>2. \A id \in Ids, p \in Payloads, c \in {"mutation", "control", "close"} :
        Admissible(id, p, c) => /\ Fresh(j, id) /\ hot[id] = Absent /\ closing = None
                                /\ c = "close" => pending = None
  BY DEF Admissible, Unknown, Fresh
<1>3. ASSUME NEW id \in Ids, NEW p \in Payloads, Refuse(id, p) PROVE Inv'
  <2>1. Fresh(j, id) /\ closing = None /\ closing' = None /\ recordingClosed' = recordingClosed
    BY <1>2, <1>3 DEF Refuse
  <2>2. PICK down \in Faults :
          LET r == Reserve(j, id, p, down)
              failed == [State(r.j, hot) EXCEPT !.storage = TRUE]
          IN \/ Install(State(r.j, hot)) /\ UNCHANGED pending
             \/ /\ \E dp \in Faults : Install(DropPending(failed, dp))
                /\ pending' = None
    BY <1>3 DEF Refuse
  <2> DEFINE r == Reserve(j, id, p, down)
             failed == [State(r.j, hot) EXCEPT !.storage = TRUE]
  <2>3. Took(j, id, r)
    BY <1>1, <2>1, ReserveTakes
  <2>4. \/ Install(State(r.j, hot)) /\ UNCHANGED pending
        \/ (\E dp \in Faults : Install(DropPending(failed, dp))) /\ pending' = None
    BY <2>2
  <2> HIDE DEF r
  <2>5. JournalInv(r.j) /\ HotInv(r.j, hot)
    BY <1>1, <2>3, HotExtends DEF Took
  <2>6. StateInv(State(r.j, hot)) /\ StateInv(failed) /\ failed.hot = hot
    BY <1>1, <2>5 DEF StateInv, State
  <2> HIDE DEF failed
  <2>7. CASE Install(State(r.j, hot)) /\ UNCHANGED pending
    <3>1. StateInv(State(j, hot))' /\ hot' = hot
      BY <2>6, <2>7, InstallPreserves DEF State
    <3> QED
      BY <3>1, <2>1, <2>7, <1>1 DEF Inv
  <2>8. CASE (\E dp \in Faults : Install(DropPending(failed, dp))) /\ pending' = None
    <3>1. PICK dp \in Faults : Install(DropPending(failed, dp))
      BY <2>8
    <3>2. StateInv(DropPending(failed, dp))
      BY <1>1, <2>6, DropPendingPreserves
    <3>3. StateInv(State(j, hot))'
      BY <3>1, <3>2, InstallPreserves
    <3> QED
      BY <3>3, <2>1, <2>8, <1>1 DEF Inv
  <2> QED
    BY <2>4, <2>7, <2>8
<1>4. ASSUME NEW id \in Ids, NEW p \in Payloads, Accept(id, p) PROVE Inv'
  <2>1. PICK s \in Admissions(id, p) : Install(s)
    BY <1>4 DEF Accept
  <2>2. Fresh(j, id) /\ hot[id] = Absent
    BY <1>2, <1>4 DEF Accept
  <2>3. StateInv(s) /\ s.hot[id] # Absent
    BY <2>2, AdmissionPreserves
  <2>4. StateInv(State(j, hot))' /\ hot' = s.hot
    BY <2>1, <2>3, InstallPreserves
  <2>5. closing' = None /\ pending' = id /\ recordingClosed' = recordingClosed
    BY <1>2, <1>4 DEF Accept
  <2> QED
    BY <2>3, <2>4, <2>5, <1>1 DEF Inv
<1>5. ASSUME NEW id \in Ids, NEW p \in Payloads, NEW a \in Replies, Answer(id, p, a) PROVE Inv'
  <2>1. PICK s \in Admissions(id, p), da \in Faults :
          LET t == Settle(s, id, a, da)
          IN /\ \E dp \in Faults : Install(DropPending(t, dp))
             /\ pending' = IF t.storage \/ t.j.fault THEN None ELSE pending
    BY <1>5 DEF Answer
  <2> DEFINE t == Settle(s, id, a, da)
  <2>2. Fresh(j, id) /\ hot[id] = Absent /\ closing = None
        /\ closing' = None /\ recordingClosed' = recordingClosed
    BY <1>2, <1>5 DEF Answer
  <2>3. StateInv(s) /\ s.hot[id] # Absent /\ \A o \in Ids \ {id} : s.hot[o] = hot[o]
    BY <2>2, AdmissionPreserves
  <2>4. StateInv(t) /\ \A o \in Ids \ {id} : t.hot[o] = s.hot[o]
    BY <2>3, SettlePreserves
  <2>5. PICK dp \in Faults : Install(DropPending(t, dp))
    BY <2>1
  <2>6. pending' = IF t.storage \/ t.j.fault THEN None ELSE pending
    BY <2>1
  <2> HIDE DEF t
  <2>7. pending # None => t.hot[pending] = hot[pending] /\ hot[pending] # Absent
    BY <1>1, <2>2, <2>3, <2>4
  <2>8. StateInv(DropPending(t, dp))
    BY <1>1, <2>4, <2>7, DropPendingPreserves
  <2>9. StateInv(State(j, hot))' /\ hot' = DropPending(t, dp).hot
    BY <2>5, <2>8, InstallPreserves
  <2>10. pending' # None => hot'[pending'] # Absent
    BY <2>6, <2>7, <2>9 DEF DropPending
  <2> QED
    BY <1>1, <2>2, <2>6, <2>9, <2>10 DEF Inv
<1>6. ASSUME NEW id \in Ids, NEW p \in Payloads, NEW a \in Replies, Pause(id, p, a) PROVE Inv'
  <2>1. PICK s \in Admissions(id, p), dp \in Faults, da \in Faults :
          Install(Settle(SettlePending(s, a, dp), id, a, da))
    BY <1>6 DEF Pause
  <2>2. Fresh(j, id) /\ hot[id] = Absent
        /\ closing' = None /\ pending' = None /\ recordingClosed' = recordingClosed
    BY <1>2, <1>6 DEF Pause
  <2>3. StateInv(s) /\ s.hot[id] # Absent /\ \A o \in Ids \ {id} : s.hot[o] = hot[o]
    BY <2>2, AdmissionPreserves
  <2>4. pending # None => s.hot[pending] # Absent
    BY <1>1, <2>2, <2>3
  <2> DEFINE t == SettlePending(s, a, dp)
  <2>5. StateInv(t) /\ \A o \in Ids \ {pending} : t.hot[o] = s.hot[o]
    BY <1>1, <2>3, <2>4, SettlePendingPreserves
  <2> HIDE DEF t
  <2>6. t.hot[id] # Absent
    BY <1>1, <2>2, <2>3, <2>5
  <2>7. StateInv(Settle(t, id, a, da))
    BY <2>5, <2>6, SettlePreserves
  <2>8. StateInv(State(j, hot))'
    BY <2>1, <2>7, InstallPreserves DEF t
  <2> QED
    BY <1>1, <2>2, <2>8 DEF Inv
<1>7. ASSUME NEW a \in Replies, FinishPending(a) PROVE Inv'
  <2>1. PICK dp \in Faults : Install(SettlePending(State(j, hot), a, dp))
    BY <1>7 DEF FinishPending
  <2>2. StateInv(SettlePending(State(j, hot), a, dp))
    BY <1>1, SettlePendingPreserves DEF State
  <2>3. StateInv(State(j, hot))'
    BY <2>1, <2>2, InstallPreserves
  <2> QED
    BY <1>1, <1>7, <2>3 DEF Inv, FinishPending
<1>8. ASSUME NEW id \in Ids, NEW p \in Payloads, NEW a \in Replies, StopFails(id, p, a) PROVE Inv'
  <2>1. PICK s \in Admissions(id, p), da \in Faults : Install(Settle(s, id, a, da))
    BY <1>8 DEF StopFails
  <2>2. Fresh(j, id) /\ hot[id] = Absent /\ pending' = None /\ closing' = None
        /\ recordingClosed' = recordingClosed
    BY <1>2, <1>8 DEF StopFails
  <2>3. StateInv(s) /\ s.hot[id] # Absent
    BY <2>2, AdmissionPreserves
  <2>4. StateInv(Settle(s, id, a, da))
    BY <2>3, SettlePreserves
  <2>5. StateInv(State(j, hot))'
    BY <2>1, <2>4, InstallPreserves
  <2> QED
    BY <1>1, <2>2, <2>5 DEF Inv
<1>9. ASSUME NEW id \in Ids, NEW p \in Payloads, StopBegins(id, p) PROVE Inv'
  <2>1. PICK s \in Admissions(id, p) : Install(s)
    BY <1>9 DEF StopBegins
  <2>2. Fresh(j, id) /\ hot[id] = Absent /\ pending' = None /\ closing' = id
        /\ recordingClosed' = TRUE
    BY <1>2, <1>9 DEF StopBegins
  <2>3. StateInv(s) /\ s.hot[id] # Absent /\ s.hot[id].answer = NoAnswer
    BY <2>2, AdmissionPreserves
  <2>4. StateInv(State(j, hot))' /\ hot' = s.hot
    BY <2>1, <2>3, InstallPreserves
  <2> QED
    BY <1>1, <2>2, <2>3, <2>4 DEF Inv
<1>10. ASSUME NEW jr, JournalInv(jr), HotInv(jr, hot), CloseFails(jr), closing # None,
              UNCHANGED <<pending, recordingClosed>>
       PROVE  Inv'
  <2> DEFINE e == [hot[closing] EXCEPT !.answer = Incomplete]
             h == [hot EXCEPT ![closing] = e]
  <2>1. hot[closing] \in EntryType /\ hot[closing] # Absent /\ closing \in Ids
        /\ hot \in [Ids -> EntryType] /\ hot[closing].token \in Tokens(jr)
    BY <1>1, <1>10 DEF HotInv
  <2>2. e \in EntryType /\ e # Absent /\ e.token = hot[closing].token
    BY <2>1, EntryAnswered
  <2>3. HotInv(jr, h)
    BY <1>10, <2>1, <2>2, HotEntry
  <2>4. j' = jr /\ hot' = h /\ storageFault' = TRUE /\ closing' = None
    BY <1>10 DEF CloseFails
  <2>5. StateInv(State(j, hot))'
    BY <1>10, <2>3, <2>4 DEF StateInv, State
  <2>6. pending # None => h[pending] # Absent
    BY <1>1, <2>1, <2>2
  <2> QED
    BY <1>1, <1>10, <2>4, <2>5, <2>6 DEF Inv
<1>11. ASSUME NEW old \in Ids, SaveRamOnly(old) PROVE Inv'
  <2> DEFINE C(down) == CompleteIn(j, hot[old].token, hot[old].answer, TRUE, down)
  <2>1. hot[old].answer \in Answers /\ hot[old] # Absent /\ closing # None /\ old # closing
        /\ hot[old].token \in Tokens(j)
    BY <1>1, <1>11 DEF SaveRamOnly, RamOnly, HotInv, EntryType, Absent
  <2>2. \A down : JournalInv(C(down).j) /\ Extends(j, C(down).j)
    BY <1>1, <2>1, CompletePreserves
  <2>3. \A down : HotInv(C(down).j, hot)
    BY <1>1, <2>2, HotExtends
  <2>4. PICK down \in Faults :
          \/ /\ j' = C(down).j /\ hot' = [hot EXCEPT ![old] = Absent]
             /\ UNCHANGED <<storageFault, closing>>
          \/ CloseFails(C(down).j)
    BY <1>11 DEF SaveRamOnly
  <2> DEFINE c == C(down)
  <2>5. JournalInv(c.j) /\ HotInv(c.j, hot)
    BY <2>2, <2>3
  <2>6. \/ /\ j' = c.j /\ hot' = [hot EXCEPT ![old] = Absent]
           /\ UNCHANGED <<storageFault, closing>>
        \/ CloseFails(c.j)
    BY <2>4
  <2> HIDE DEF c, C
  <2>7. UNCHANGED <<pending, recordingClosed>>
    BY <1>11 DEF SaveRamOnly
  <2>8. CASE j' = c.j /\ hot' = [hot EXCEPT ![old] = Absent] /\ UNCHANGED <<storageFault, closing>>
    <3>1. HotInv(c.j, [hot EXCEPT ![old] = Absent])
      BY <2>5, HotAbsent
    <3>2. StateInv(State(j, hot))'
      BY <1>1, <2>5, <2>8, <3>1 DEF StateInv, State
    <3>3. hot'[closing] = hot[closing]
      BY <1>1, <2>1, <2>8 DEF HotInv
    <3> QED
      BY <1>1, <1>11, <2>1, <2>7, <2>8, <3>2, <3>3 DEF Inv
  <2>9. CASE CloseFails(c.j)
    BY <1>10, <2>1, <2>5, <2>7, <2>9
  <2> QED
    BY <2>6, <2>8, <2>9
<1>12. ASSUME Seal PROVE Inv'
  <2> DEFINE C(down) == CompleteIn(j, hot[closing].token, Closed, FALSE, down)
  <2>1. closing \in Ids /\ hot[closing] # Absent /\ hot[closing].token \in Tokens(j)
        /\ closing # None /\ pending = None
    BY <1>1, <1>12 DEF Seal, HotInv
  <2>2. \A down : JournalInv(C(down).j) /\ Extends(j, C(down).j)
    BY <2>1, <1>1, CompletePreserves
  <2>3. \A down : HotInv(C(down).j, hot)
    BY <1>1, <2>2, HotExtends
  <2>4. PICK down \in Faults :
          \/ /\ j' = [C(down).j EXCEPT !.sealed = TRUE]
             /\ hot' = [hot EXCEPT ![closing] = Absent]
             /\ closing' = None /\ UNCHANGED storageFault
          \/ CloseFails(C(down).j)
    BY <1>12 DEF Seal
  <2> DEFINE c == C(down)
  <2>5. JournalInv(c.j) /\ HotInv(c.j, hot)
    BY <2>2, <2>3
  <2>6. \/ /\ j' = [c.j EXCEPT !.sealed = TRUE] /\ hot' = [hot EXCEPT ![closing] = Absent]
           /\ closing' = None /\ UNCHANGED storageFault
        \/ CloseFails(c.j)
    BY <2>4
  <2> HIDE DEF c, C
  <2>7. UNCHANGED <<pending, recordingClosed>>
    BY <1>12 DEF Seal
  <2>8. CASE /\ j' = [c.j EXCEPT !.sealed = TRUE] /\ hot' = [hot EXCEPT ![closing] = Absent]
             /\ closing' = None /\ UNCHANGED storageFault
    <3>1. JournalInv(j') /\ Extends(c.j, j')
      BY <2>5, <2>8, SealedPreserves
    <3>2. HotInv(c.j, hot')
      BY <2>1, <2>5, <2>8, HotAbsent
    <3>3. HotInv(j', hot')
      BY <2>5, <3>1, <3>2, HotExtends
    <3> QED
      BY <1>1, <2>1, <2>7, <2>8, <3>1, <3>3 DEF Inv, StateInv, State
  <2>9. CASE CloseFails(c.j)
    BY <1>10, <2>1, <2>5, <2>7, <2>9
  <2> QED
    BY <2>6, <2>8, <2>9
<1>13. ASSUME NEW a \in Replies, Boundary(a) PROVE Inv'
  <2>1. PICK dp \in Faults :
          LET s == SettlePending(State(j, hot), a, dp)
          IN Install(IF s.storage \/ s.j.fault THEN s
                     ELSE [s EXCEPT !.j = NextEpoch(@), !.hot = NoHot])
    BY <1>13 DEF Boundary
  <2> DEFINE s == SettlePending(State(j, hot), a, dp)
             n == [s EXCEPT !.j = NextEpoch(@), !.hot = NoHot]
  <2>2. StateInv(s)
    BY <1>1, SettlePendingPreserves DEF State
  <2>3. Install(s) \/ Install(n)
    BY <2>1
  <2>4. n.j = NextEpoch(s.j) /\ n.hot = NoHot /\ n.storage = s.storage
    BY DEF SettlePending, Settle, State
  <2> HIDE DEF s, n
  <2>5. JournalInv(NextEpoch(s.j)) /\ HotInv(NextEpoch(s.j), NoHot)
    BY <2>2, EpochPreserves DEF StateInv, HotInv, NoHot, EntryType
  <2>6. StateInv(n)
    BY <2>2, <2>4, <2>5 DEF StateInv
  <2>7. StateInv(State(j, hot))'
    BY <2>2, <2>3, <2>6, InstallPreserves
  <2> QED
    BY <1>1, <1>13, <2>7 DEF Inv, Boundary
<1>14. ASSUME NEW scope \in Scopes, Rebind(scope) PROVE Inv'
  <2>1. JournalInv(j')
    BY <1>1, <1>14, RebindPreserves DEF Rebind
  <2>2. HotInv(j', NoHot)
    BY DEF HotInv, NoHot, EntryType
  <2> QED
    BY <1>1, <1>14, <2>1, <2>2 DEF Inv, StateInv, State, Rebind
<1>15. ASSUME NEW id \in Ids, LookupFails(id) PROVE Inv'
  <2> DEFINE failed == [State(Faulted(j), hot) EXCEPT !.storage = TRUE]
  <2>1. PICK dp \in Faults : Install(DropPending(failed, dp))
    BY <1>15 DEF LookupFails
  <2>2. failed.j = Faulted(j) /\ failed.hot = hot /\ failed.storage = TRUE
    BY DEF State
  <2>3. JournalInv(Faulted(j)) /\ HotInv(Faulted(j), hot)
    BY <1>1, FaultPreserves, HotExtends
  <2> HIDE DEF failed
  <2>4. StateInv(failed)
    BY <2>2, <2>3 DEF StateInv
  <2>5. StateInv(DropPending(failed, dp))
    BY <1>1, <2>2, <2>4, DropPendingPreserves
  <2>6. StateInv(State(j, hot))'
    BY <2>1, <2>5, InstallPreserves
  <2> QED
    BY <1>1, <1>15, <2>6 DEF Inv, LookupFails
<1>16. CASE UNCHANGED vars
  BY <1>16 DEF vars, Inv, State
<1> QED
  BY <1>3, <1>4, <1>5, <1>6, <1>7, <1>8, <1>9, <1>11, <1>12, <1>13, <1>14, <1>15, <1>16 DEF Next

(* The inductive invariant holds in every reachable state.                 *)
LEMMA InvHolds == Spec => []Inv
  BY InitInv, NextInv, PTL DEF Spec

-----------------------------------------------------------------------------
(* Theorems                                                                *)

(* The runtime's dedup state keeps its types.                              *)
THEOREM TypeCorrect == Spec => []TypeOK
<1>1. Inv => TypeOK
  BY DEF Inv, StateInv, State, JournalInv, HotInv, TypeOK
<1> QED
  BY <1>1, InvHolds, PTL

(* However calls, faults, epochs and branch switches interleave, Request   *)
(* admits an ID at most once in a branch and epoch.                        *)
THEOREM AdmittedOnce == Spec => []AtMostOnce
<1>1. Inv => AtMostOnce
  BY DEF Inv, StateInv, State, JournalInv, OncePerKey, AtMostOnce
<1> QED
  BY <1>1, InvHolds, PTL

(* The RAM index always reaches exactly the live records of each bucket.   *)
THEOREM IndexReachesAll == Spec => []IndexExact
<1>1. Inv => IndexExact
  BY DEF Inv, StateInv, State, JournalInv, Indexed, IndexExact
<1> QED
  BY <1>1, InvHolds, PTL

-----------------------------------------------------------------------------
(* The promises.  The handlers work on a journal, its hot entries and the  *)
(* storage fault, a state s; every call writes at most one record at a     *)
(* time, so each is seen as a few updates of what retries are told,        *)
(* ToldBy(s, k) of each key k.                                             *)

(* What is told of the request with key k by a state s.                    *)
ToldBy(s, k) ==
    IF k[1] = s.j.scope /\ s.hot[k[2]] # Absent
    THEN [payload |-> s.hot[k[2]].payload, answer |-> s.hot[k[2]].answer]
    ELSE Found(s.j, k[2], {k[1]})
Keys == Scopes \X Ids
Key(s, id, k) == k[1] = s.j.scope /\ k[2] = id

(* A completion names an earlier reservation under the same key.           *)
Ledger(jr) ==
    /\ \A t \in Tokens(jr) : IsReservation(jr, t) => jr.log[t].body \in Payloads
    /\ \A c \in Tokens(jr) : ~IsReservation(jr, c) =>
          LET t == jr.log[c].request
          IN /\ jr.log[c].body \in Answers
             /\ t \in Tokens(jr) /\ t < c /\ IsReservation(jr, t)
             /\ jr.log[t].id = jr.log[c].id /\ jr.log[t].scope = jr.log[c].scope
             /\ jr.log[t].epoch = jr.log[c].epoch

(* A hot entry stands for a reservation of this branch and epoch, and an   *)
(* answered one for an answer that could not be saved.                     *)
Stands(s, id) ==
    LET t == s.hot[id].token
    IN /\ t \in Tokens(s.j) /\ IsReservation(s.j, t)
       /\ s.j.log[t].id = id /\ s.j.log[t].scope = s.j.scope /\ s.j.log[t].epoch = s.j.epoch
       /\ s.j.log[t].body = s.hot[id].payload
       /\ s.hot[id].answer # NoAnswer => s.storage
Entries(s) == \A id \in Ids : s.hot[id] # Absent => Stands(s, id)

(* The open entries are those of the requests in O, and every reservation  *)
(* without a completion has its entry.                                     *)
OpenOnly(s, O) == \A id \in Ids : s.hot[id] # Absent /\ s.hot[id].answer = NoAnswer => id \in O
Held(s) ==
    \A t \in Tokens(s.j) : IsReservation(s.j, t) =>
        Completed(s.j, t) \/ \E id \in Ids : s.hot[id] # Absent /\ s.hot[id].token = t

(* The reserve file keeps its last slot and its last bytes for a close.    *)
Room(jr) ==
    /\ jr.count[Spare] <= Slots[Spare]
    /\ jr.count[Spare] = Slots[Spare]
          => \E t \in Live(jr) : jr.log[t].kind = "close" /\ jr.log[t].file = Spare
    /\ jr.used[Spare] > Bytes[Spare] - CloseBytes
          => \E t \in Tokens(jr) : jr.log[t].kind = "close"

OneMeaningIn(s) ==
    \A k, l \in Keys :
        k[2] = l[2] /\ ToldBy(s, k) # NotFound /\ ToldBy(s, l) # NotFound
        => ToldBy(s, k).payload = ToldBy(s, l).payload

IsState(s) == s = [j |-> s.j, hot |-> s.hot, storage |-> s.storage]
Good(s, O) ==
    /\ IsState(s) /\ StateInv(s) /\ Ledger(s.j) /\ Entries(s) /\ Held(s) /\ OpenOnly(s, O) /\ Room(s.j)
    /\ OneMeaningIn(s)

Now == State(j, hot)
OpenIds == {pending, closing}

StoreInv ==
    /\ Inv /\ Good(Now, OpenIds)
    /\ pending # None => hot[pending].answer = NoAnswer
    /\ closing # None => recordingClosed /\ j.log[hot[closing].token].kind = "close"
    /\ j.sealed => recordingClosed /\ closing = None /\ \A id \in Ids : hot[id] = Absent

-----------------------------------------------------------------------------
(* What one call writes.                                                   *)

(* From jr to new one record was written, or none.                         *)
Wrote(jr, new, f, id, body, kind, request) ==
    /\ new \in JournalType
    /\ new.log = Append(jr.log, NewRecord(jr, f, id, body, kind, request))
    /\ new.walk = [jr.walk EXCEPT ![BucketOf[id]] = @ \cup {Len(jr.log) + 1}]
    /\ new.used = [jr.used EXCEPT ![f] = @ + Weight[body]]
    /\ new.epoch = jr.epoch /\ new.scope = jr.scope /\ new.sealed = jr.sealed /\ new.adopt = jr.adopt
Kept(jr, new) ==
    /\ new \in JournalType
    /\ new.log = jr.log /\ new.walk = jr.walk /\ new.used = jr.used /\ new.count = jr.count
    /\ new.epoch = jr.epoch /\ new.scope = jr.scope /\ new.sealed = jr.sealed /\ new.adopt = jr.adopt

(* An admitted ID is counted; the reserve keeps its last one for a close. *)
Counts(jr, new, f, p) ==
    /\ new.count = [jr.count EXCEPT ![f] = @ + 1]
    /\ f = Spare => jr.count[Spare] < Slots[Spare]
    /\ f = Spare /\ Class[p] # "close" => jr.count[Spare] < Slots[Spare] - 1

Kind(p) == IF Class[p] = "close" THEN "close" ELSE "reserve"
ReservedIn(jr, new, f, id, p) ==
    /\ Wrote(jr, new, f, id, p, Kind(p), 0) /\ Counts(jr, new, f, p)
    /\ f = Spare /\ Class[p] # "close" => jr.used[Spare] + Weight[p] <= Bytes[Spare] - CloseBytes
TookOne(jr, id, p, r) ==
    \/ r.out # "ok" /\ Kept(jr, r.j)
    \/ r.out = "ok" /\ \E f \in Files : ReservedIn(jr, r.j, f, id, p)

(* The closing of t, or a recovery, may use the last bytes.                *)
CompletedIn(jr, new, f, t, answer, recovery) ==
    /\ Wrote(jr, new, f, jr.log[t].id, answer, "complete", t) /\ new.count = jr.count
    /\ f = Spare /\ jr.log[t].kind # "close" /\ ~recovery
          => jr.used[Spare] + Weight[answer] <= Bytes[Spare] - CloseBytes
CompletedOne(jr, t, answer, recovery, c) ==
    \/ c.ok = FALSE /\ Kept(jr, c.j)
    \/ c.ok = TRUE /\ \E f \in Files : CompletedIn(jr, c.j, f, t, answer, recovery)

(* A successful Append writes its one record.                              *)
LEMMA AppendWrites ==
    ASSUME NEW jr \in JournalType, NEW f \in Files, NEW id \in Ids, NEW body \in Payloads \cup Answers,
           NEW kind \in {"reserve", "close", "complete"}, NEW request \in Nat
    PROVE  LET new == AppendRecord(jr, f, id, body, kind, request)
           IN Wrote(jr, new, f, id, body, kind, request) /\ new.count = jr.count
<1> DEFINE new == AppendRecord(jr, f, id, body, kind, request)
<1>1. /\ new \in JournalType /\ new.log = Append(jr.log, NewRecord(jr, f, id, body, kind, request))
      /\ new.walk = [jr.walk EXCEPT ![BucketOf[id]] = @ \cup {Len(jr.log) + 1}]
      /\ new.epoch = jr.epoch /\ new.scope = jr.scope /\ new.adopt = jr.adopt /\ new.count = jr.count
  BY AppendFields, SMTT(30)
<1>2. new.used = [jr.used EXCEPT ![f] = @ + Weight[body]] /\ new.sealed = jr.sealed
  BY DEF AppendRecord, JournalType
<1> QED
  BY <1>1, <1>2 DEF Wrote

(* Noting a fault or opening the files writes no record.                   *)
LEMMA FlagsKept ==
    ASSUME NEW jr \in JournalType
    PROVE  /\ Kept(jr, jr) /\ Kept(jr, Faulted(jr)) /\ Kept(jr, [jr EXCEPT !.opened = TRUE])
           /\ \A b \in BOOLEAN : Kept(jr, [Faulted(jr) EXCEPT !.opened = b])
<1>1. Kept(jr, jr)
  BY DEF Kept
<1>2. Kept(jr, Faulted(jr))
  BY DEF Kept, Faulted, JournalType
<1>3. Kept(jr, [jr EXCEPT !.opened = TRUE])
  BY DEF Kept, JournalType
<1>4. ASSUME NEW b \in BOOLEAN PROVE Kept(jr, [Faulted(jr) EXCEPT !.opened = b])
  BY DEF Kept, Faulted, JournalType
<1> QED
  BY <1>1, <1>2, <1>3, <1>4

(* A record written after a flag was set is written to the same journal.   *)
LEMMA WroteSame ==
    ASSUME NEW jr, NEW after, Kept(jr, after), NEW f, NEW id, NEW p, NEW new
    PROVE  ReservedIn(after, new, f, id, p) => ReservedIn(jr, new, f, id, p)
<1>1. NewRecord(after, f, id, p, Kind(p), 0) = NewRecord(jr, f, id, p, Kind(p), 0)
  BY DEF Kept, NewRecord
<1> QED
  BY <1>1 DEF Kept, ReservedIn, Wrote, Counts

(* The reserve keeps its last ID and its last bytes for a close.           *)
LEMMA ReservedWrites ==
    ASSUME NEW jr \in JournalType, NEW f \in Files, NEW id \in Ids, NEW p \in Payloads,
           f = Spare => jr.count[Spare] < Slots[Spare],
           f = Spare /\ Class[p] # "close" =>
              /\ jr.count[Spare] < Slots[Spare] - 1
              /\ jr.used[Spare] + Weight[p] <= Bytes[Spare] - CloseBytes
    PROVE  TookOne(jr, id, p, Reserved(jr, f, id, p))
<1> DEFINE k == Kind(p)
           new == AppendRecord(jr, f, id, p, k, 0)
           c == [jr.count EXCEPT ![f] = @ + 1]
           counted == [new EXCEPT !.count = c]
<1>1. Wrote(jr, new, f, id, p, k, 0)
  BY AppendWrites DEF Kind
<1>2. c \in [Files -> Nat]
  BY DEF JournalType
<1>3. Reserved(jr, f, id, p) = [j |-> counted, out |-> "ok"]
  BY DEF Reserved, Kind
<1> HIDE DEF new, k, c
<1>4. Wrote(jr, counted, f, id, p, k, 0) /\ counted.count = c
  BY <1>1, <1>2 DEF Wrote, JournalType
<1> HIDE DEF counted
<1>5. ReservedIn(jr, counted, f, id, p)
  BY <1>4 DEF ReservedIn, Counts, k, c
<1> QED
  BY <1>3, <1>5 DEF TookOne

(* Reserve writes one reservation or none.                                 *)
LEMMA ReserveWrites ==
    ASSUME NEW jr \in JournalType, jr.adopt = 0, NEW id \in Ids, NEW p \in Payloads, NEW down
    PROVE  TookOne(jr, id, p, Reserve(jr, id, p, down))
<1>1. ASSUME NEW after, Kept(jr, after), NEW why, why # "ok"
      PROVE  TookOne(jr, id, p, Refused(after, why))
  BY <1>1 DEF TookOne, Refused
<1>2. ASSUME NEW after, Kept(jr, after), NEW r, TookOne(after, id, p, r)
      PROVE  TookOne(jr, id, p, r)
  <2>1. CASE r.out # "ok" /\ Kept(after, r.j)
    BY <1>2, <2>1 DEF TookOne, Kept
  <2>2. CASE r.out = "ok" /\ \E f \in Files : ReservedIn(after, r.j, f, id, p)
    BY <1>2, <2>2, WroteSame DEF TookOne
  <2> QED
    BY <1>2, <2>1, <2>2 DEF TookOne
<1>3. ASSUME NEW after, Kept(jr, after) PROVE TookOne(jr, id, p, ReserveSpare(after, id, p, down))
  <2>1. after \in JournalType /\ Spare \in Files
    BY <1>3 DEF Kept, Files
  <2>2. CASE Class[p] = "close"
    <3>1. ASSUME after.count[Spare] < Slots[Spare]
          PROVE  TookOne(after, id, p, Reserved(after, Spare, id, p))
      BY <2>1, <2>2, <3>1, ReservedWrites
    <3>2. after.count[Spare] \in Nat /\ Slots[Spare] \in Nat
      BY <2>1, ConstantsAssumption DEF JournalType
    <3> QED
      BY <1>1, <1>2, <1>3, <2>2, <3>1, <3>2 DEF ReserveSpare
  <2>3. CASE Class[p] # "close"
    <3>1. /\ after.count[Spare] \in Nat /\ after.used[Spare] \in Nat /\ Slots[Spare] \in Nat
          /\ Bytes[Spare] \in Nat /\ CloseBytes \in Nat /\ Weight[p] \in Nat
      BY <2>1, ConstantsAssumption DEF JournalType
    <3>2. ASSUME after.count[Spare] < Slots[Spare] - 1,
                 after.used[Spare] + Weight[p] <= Bytes[Spare] - CloseBytes
          PROVE  TookOne(after, id, p, Reserved(after, Spare, id, p))
      BY <2>1, <2>3, <3>1, <3>2, ReservedWrites
    <3>3. \/ ReserveSpare(after, id, p, down) \in {Refused(after, "capacity"), Refused(after, "error")}
          \/ /\ after.count[Spare] < Slots[Spare] - 1
             /\ after.used[Spare] + Weight[p] <= Bytes[Spare] - CloseBytes
             /\ ReserveSpare(after, id, p, down) = Reserved(after, Spare, id, p)
      BY <2>3, <3>1 DEF ReserveSpare, Fits
    <3> QED
      BY <1>1, <1>2, <1>3, <3>2, <3>3
  <2> QED
    BY <2>2, <2>3
<1>4. ASSUME NEW new, Kept(jr, new) PROVE TookOne(jr, id, p, ReserveOpened(new, id, p, down))
  <2>1. new \in JournalType /\ Normal \in Files /\ Normal # Spare
    BY <1>4 DEF Kept, Files, Normal, Spare
  <2>2. TookOne(new, id, p, Reserved(new, Normal, id, p))
    BY <2>1, ReservedWrites
  <2>3. Kept(new, new) /\ Kept(new, Faulted(new))
    BY <2>1, FlagsKept
  <2>4. ASSUME NEW after \in {new, Faulted(new)}
        PROVE  /\ TookOne(jr, id, p, ReserveSpare(after, id, p, down))
               /\ \A why \in {"error", "capacity"} : TookOne(jr, id, p, Refused(after, why))
    <3>1. Kept(jr, after)
      BY <1>4, <2>3 DEF Kept
    <3> QED
      BY <1>1, <1>3, <3>1
  <2> QED
    BY <1>2, <1>4, <2>2, <2>4 DEF ReserveOpened
<1>5. Kept(jr, jr) /\ Kept(jr, [jr EXCEPT !.opened = TRUE])
  BY FlagsKept
<1>6. \A b \in BOOLEAN : TookOne(jr, id, p, Refused([Faulted(jr) EXCEPT !.opened = b], "error"))
  BY <1>1, FlagsKept
<1> DEFINE opened == [jr EXCEPT !.opened = TRUE]
           b == IF jr.fault THEN FALSE ELSE Normal \notin down
           failed == [Faulted(jr) EXCEPT !.opened = b]
<1>7. TookOne(jr, id, p, ReserveOpened(jr, id, p, down)) /\ TookOne(jr, id, p, ReserveOpened(opened, id, p, down))
  BY <1>4, <1>5
<1>8. TookOne(jr, id, p, Refused(failed, "error"))
  <2>1. PICK e \in BOOLEAN : failed = [Faulted(jr) EXCEPT !.opened = e]
    OBVIOUS
  <2> QED
    BY <1>6, <2>1
<1>9. Reserve(jr, id, p, down) \in {ReserveOpened(jr, id, p, down), ReserveOpened(opened, id, p, down),
                                    Refused(failed, "error")}
  BY DEF Reserve
<1> QED
  BY <1>7, <1>8, <1>9

(* Complete writes one completion or none.                                 *)
LEMMA CompleteWrites ==
    ASSUME NEW jr \in JournalType, NEW t \in Tokens(jr), NEW answer \in Answers, NEW recovery \in BOOLEAN, NEW down
    PROVE  CompletedOne(jr, t, answer, recovery, CompleteIn(jr, t, answer, recovery, down))
<1> DEFINE q == jr.log[t]
           c == CompleteIn(jr, t, answer, recovery, down)
<1>0. q \in RecordType /\ t \in Nat
  BY DEF JournalType, Tokens
<1>1. t \in Nat /\ q.id \in Ids
  BY <1>0 DEF RecordType
<1>2. Normal \in Files /\ Spare \in Files /\ Normal # Spare
  BY DEF Files, Normal, Spare
<1>3. Kept(jr, jr) /\ Kept(jr, Faulted(jr))
  BY FlagsKept
<1>4. ASSUME NEW after, Kept(jr, after), NEW f \in Files,
             f = Spare /\ q.kind # "close" /\ ~recovery => jr.used[Spare] + Weight[answer] <= Bytes[Spare] - CloseBytes
      PROVE  CompletedOne(jr, t, answer, recovery,
                          [j |-> AppendRecord(after, f, q.id, answer, "complete", t), ok |-> TRUE])
  <2> DEFINE new == AppendRecord(after, f, q.id, answer, "complete", t)
  <2>1. Wrote(after, new, f, q.id, answer, "complete", t) /\ new.count = after.count
    BY <1>1, <1>4, AppendWrites DEF Kept
  <2> HIDE DEF new
  <2>2. NewRecord(after, f, q.id, answer, "complete", t) = NewRecord(jr, f, q.id, answer, "complete", t)
    BY <1>4 DEF Kept, NewRecord
  <2>3. Wrote(jr, new, f, q.id, answer, "complete", t) /\ new.count = jr.count
    BY <1>4, <2>1, <2>2 DEF Kept, Wrote
  <2>4. CompletedIn(jr, new, f, t, answer, recovery)
    BY <1>4, <2>3 DEF CompletedIn
  <2> QED
    BY <2>4 DEF CompletedOne, new
<1>5. ASSUME NEW after, Kept(jr, after)
      PROVE  CompletedOne(jr, t, answer, recovery, [j |-> after, ok |-> FALSE])
  BY <1>5 DEF CompletedOne
<1>6. ASSUME NEW after \in {jr, Faulted(jr)}
      PROVE  CompletedOne(jr, t, answer, recovery,
                IF Fits(after, Spare, answer, q.kind = "close" \/ recovery) /\ Spare \notin down
                THEN [j |-> AppendRecord(after, Spare, q.id, answer, "complete", t), ok |-> TRUE]
                ELSE [j |-> after, ok |-> FALSE])
  <2>1. Kept(jr, after)
    BY <1>3
  <2>2. Fits(after, Spare, answer, q.kind = "close" \/ recovery) /\ q.kind # "close" /\ ~recovery
           => jr.used[Spare] + Weight[answer] <= Bytes[Spare] - CloseBytes
    BY <2>1 DEF Fits, Kept
  <2> QED
    BY <1>2, <1>4, <1>5, <2>1, <2>2
<1>7. CompletedOne(jr, t, answer, recovery, [j |-> AppendRecord(jr, Normal, q.id, answer, "complete", t), ok |-> TRUE])
  BY <1>2, <1>3, <1>4
<1> QED
  BY <1>6, <1>7 DEF CompleteIn

-----------------------------------------------------------------------------
(* What a record changes of what is found.                                 *)

(* A set of places in the log has a last one.                              *)
LEMMA LastPlace ==
    ASSUME NEW n \in Nat, NEW m, m \subseteq 1 .. n, m # {}
    PROVE  LET t == CHOOSE t \in m : \A u \in m : u <= t
           IN t \in m /\ \A u \in m : u <= t
<1> DEFINE back == {n - t : t \in m}
           R == OpToRel(<, Nat)
<1>1. back \subseteq Nat /\ back # {}
  <2>1. \A t \in m : n - t \in Nat
    OBVIOUS
  <2>2. back # {}
    OBVIOUS
  <2> QED
    BY <2>1, <2>2
<1>2. IsWellFoundedOn(R, Nat)
  BY NatLessThanWellFounded
<1>3. \A x, y \in Nat : x < y => <<x, y>> \in R
  BY DEF OpToRel
<1> HIDE DEF R, back
<1>4. PICK x \in back : \A y \in back : ~(<<y, x>> \in R)
  BY <1>1, <1>2, WFMin
<1>5. \A y \in back : x <= y
  <2> SUFFICES ASSUME NEW y \in back PROVE x <= y
    OBVIOUS
  <2>1. ~(<<y, x>> \in R) /\ x \in Nat /\ y \in Nat
    BY <1>1, <1>4
  <2>2. ~(y < x)
    BY <1>3, <2>1
  <2> QED
    BY <2>1, <2>2
<1>6. PICK t \in m : x = n - t
  BY <1>4 DEF back
<1>7. \A u \in m : u <= t
  <2> SUFFICES ASSUME NEW u \in m PROVE u <= t
    OBVIOUS
  <2>1. n - t <= n - u
    BY <1>5, <1>6 DEF back
  <2> QED
    BY <2>1
<1> QED
  BY <1>6, <1>7

(* The log grew by the record r at place n.                                *)
Grew(jr, new, n, r) ==
    /\ n = Len(jr.log) + 1 /\ n \in Nat /\ n \notin Tokens(jr) /\ Tokens(new) = Tokens(jr) \cup {n}
    /\ Tokens(jr) = 1 .. (n - 1) /\ Len(new.log) = n
    /\ new.log[n] = r /\ \A t \in Tokens(jr) : new.log[t] = jr.log[t] /\ t < n

(* Writing a record grows the log by it.                                   *)
LEMMA WroteGrows ==
    ASSUME NEW jr \in JournalType, NEW f \in Files, NEW id \in Ids, NEW body \in Payloads \cup Answers,
           NEW kind \in {"reserve", "close", "complete"}, NEW request \in Nat, NEW new,
           Wrote(jr, new, f, id, body, kind, request)
    PROVE  LET r == NewRecord(jr, f, id, body, kind, request)
           IN /\ Grew(jr, new, Len(jr.log) + 1, r)
              /\ r.id = id /\ r.body = body /\ r.kind = kind /\ r.scope = jr.scope /\ r.epoch = jr.epoch
              /\ r.file = f /\ r.request = request
<1> DEFINE r == NewRecord(jr, f, id, body, kind, request)
           n == Len(jr.log) + 1
<1>1. BucketOf[id] \in Buckets /\ jr.log \in Seq(RecordType) /\ Len(jr.log) \in Nat
  BY ConstantsAssumption DEF JournalType
<1>2. r \in RecordType
  BY <1>1 DEF NewRecord, RecordType, JournalType
<1>3. /\ r.id = id /\ r.body = body /\ r.kind = kind /\ r.scope = jr.scope /\ r.epoch = jr.epoch
      /\ r.file = f /\ r.request = request
  BY DEF NewRecord
<1>4. new.log = Append(jr.log, r)
  BY DEF Wrote
<1> HIDE DEF r
<1>5. Len(new.log) = n /\ \A t \in 1 .. n : new.log[t] = IF t = n THEN r ELSE jr.log[t]
  BY <1>1, <1>2, <1>4
<1>6. Grew(jr, new, n, r)
  BY <1>1, <1>5 DEF Grew, Tokens
<1> QED
  BY <1>3, <1>6 DEF r

(* The record is found under its key, and no other key finds it.           *)
LEMMA WroteMatches ==
    ASSUME NEW jr, JournalInv(jr), NEW f \in Files, NEW id \in Ids, NEW body \in Payloads \cup Answers,
           NEW kind \in {"reserve", "close", "complete"}, NEW request \in Nat, NEW new,
           Wrote(jr, new, f, id, body, kind, request), NEW o \in Ids, NEW S
    PROVE  /\ Matches(jr, o, S) \subseteq Tokens(jr)
           /\ o = id /\ jr.scope \in S => Matches(new, o, S) = Matches(jr, o, S) \cup {Len(jr.log) + 1}
           /\ o # id \/ jr.scope \notin S => Matches(new, o, S) = Matches(jr, o, S)
<1> DEFINE r == NewRecord(jr, f, id, body, kind, request)
           n == Len(jr.log) + 1
<1>1. jr \in JournalType /\ BucketOf \in [Ids -> Buckets] /\ jr.walk \in [Buckets -> SUBSET Nat]
  BY ConstantsAssumption DEF JournalInv, JournalType
<1>2. Grew(jr, new, n, r) /\ r.id = id /\ r.scope = jr.scope
  BY <1>1, WroteGrows
<1> HIDE DEF r
<1>3. Walk(jr, o) \subseteq Tokens(jr)
  BY <1>1 DEF JournalInv, Indexed, Live, Walk
<1>4. Walk(new, o) = Walk(jr, o) \cup (IF BucketOf[o] = BucketOf[id] THEN {n} ELSE {})
  BY <1>1 DEF Wrote, Walk
<1>5. \A t \in Walk(jr, o) : new.log[t] = jr.log[t]
  BY <1>2, <1>3 DEF Grew
<1>6. new.log[n] = r
  BY <1>2 DEF Grew
<1> HIDE DEF n
<1>7. Matches(jr, o, S) \subseteq Tokens(jr)
  BY <1>3 DEF Matches
<1>8. Matches(new, o, S) = Matches(jr, o, S)
         \cup {t \in {n} : BucketOf[o] = BucketOf[id] /\ r.id = o /\ r.scope \in S}
  BY <1>4, <1>5, <1>6 DEF Matches
<1>9. o = id /\ jr.scope \in S => Matches(new, o, S) = Matches(jr, o, S) \cup {n}
  BY <1>2, <1>8
<1>10. o # id \/ jr.scope \notin S => Matches(new, o, S) = Matches(jr, o, S)
  BY <1>2, <1>8
<1> QED
  BY <1>7, <1>9, <1>10 DEF n

(* What another key finds stays.                                           *)
LEMMA FoundOther ==
    ASSUME NEW jr, JournalInv(jr), Ledger(jr), NEW f \in Files, NEW id \in Ids,
           NEW body \in Payloads \cup Answers,
           NEW kind \in {"reserve", "close", "complete"}, NEW request \in Nat, NEW new,
           Wrote(jr, new, f, id, body, kind, request), NEW o \in Ids, NEW S, o # id \/ jr.scope \notin S
    PROVE  Found(new, o, S) = Found(jr, o, S)
<1> DEFINE m == Matches(jr, o, S)
           t == CHOOSE t \in m : \A u \in m : u <= t
<1>1. Matches(new, o, S) = m /\ m \subseteq Tokens(jr)
  BY WroteMatches
<1>2. \A u \in Tokens(jr) : new.log[u] = jr.log[u]
  <2>1. jr \in JournalType
    BY DEF JournalInv
  <2>2. Grew(jr, new, Len(jr.log) + 1, NewRecord(jr, f, id, body, kind, request))
    BY <2>1, WroteGrows
  <2> QED
    BY <2>2 DEF Grew
<1> HIDE DEF m
<1>3. CASE m = {}
  BY <1>1, <1>3 DEF Found, m
<1>4. CASE m # {}
  <2>1. Len(jr.log) \in Nat
    BY DEF JournalInv, JournalType
  <2>2. t \in m
    BY <1>1, <1>4, <2>1, LastPlace DEF Tokens
  <2>3. new.log[t] = jr.log[t] /\ t \in Tokens(jr)
    BY <1>1, <1>2, <2>2
  <2>4. jr.log[t].kind = "complete" => jr.log[t].request \in Tokens(jr)
    BY <2>3 DEF Ledger, IsReservation
  <2>5. jr.log[t].kind = "complete" => new.log[jr.log[t].request] = jr.log[jr.log[t].request]
    BY <1>2, <2>4
  <2> QED
    BY <1>1, <1>4, <2>3, <2>5 DEF Found, m
<1> QED
  BY <1>3, <1>4

(* A key finds its newest record.                                          *)
LEMMA FoundNewest ==
    ASSUME NEW jr, JournalInv(jr), NEW f \in Files, NEW id \in Ids,
           NEW answer \in Answers, NEW t \in Tokens(jr), NEW new,
           Wrote(jr, new, f, id, answer, "complete", t), NEW S, jr.scope \in S
    PROVE  Found(new, id, S) = [payload |-> jr.log[t].body, answer |-> answer]
<1> DEFINE m == Matches(new, id, S)
           n == Len(jr.log) + 1
           r == NewRecord(jr, f, id, answer, "complete", t)
<1>1. t \in Nat /\ answer \in Payloads \cup Answers /\ jr \in JournalType
  BY DEF Tokens, JournalInv, JournalType
<1>2. Grew(jr, new, n, r) /\ r.body = answer /\ r.kind = "complete" /\ r.request = t
  BY <1>1, WroteGrows
<1>3. m = Matches(jr, id, S) \cup {n} /\ Matches(jr, id, S) \subseteq Tokens(jr)
  BY <1>1, WroteMatches
<1> HIDE DEF m, n, r
<1>4. n \in m /\ \A u \in m : u <= n
  BY <1>2, <1>3 DEF Grew
<1>5. \A u \in m : (\A v \in m : v <= u) => u = n
  <2> SUFFICES ASSUME NEW u \in m, \A v \in m : v <= u PROVE u = n
    OBVIOUS
  <2>1. u <= n /\ n <= u /\ u \in Nat /\ n \in Nat
    BY <1>2, <1>3, <1>4 DEF Grew
  <2> QED
    BY <2>1
<1>6. (CHOOSE u \in m : \A v \in m : v <= u) = n
  BY <1>4, <1>5
<1>7. new.log[n] = r /\ new.log[t] = jr.log[t]
  BY <1>2 DEF Grew
<1> QED
  BY <1>2, <1>4, <1>6, <1>7 DEF Found, m

-----------------------------------------------------------------------------
(* One update at a time.                                                   *)

(* From s to t nothing, one answer or one new request can be told.         *)
Quiet(s, t) == \A k \in Keys : ToldBy(t, k) = ToldBy(s, k)
AnsweredTo(s, t, id, a) ==
    \A k \in Keys :
        /\ Key(s, id, k) => ToldBy(t, k) = [payload |-> s.hot[id].payload, answer |-> a]
        /\ ~Key(s, id, k) => ToldBy(t, k) = ToldBy(s, k)
BoundTo(s, t, id, p) ==
    \A k \in Keys :
        /\ Key(s, id, k) => ToldBy(s, k) = NotFound /\ ToldBy(t, k) = [payload |-> p, answer |-> NoAnswer]
        /\ ~Key(s, id, k) => ToldBy(t, k) = ToldBy(s, k)

(* An entry in use has a proper payload and token.                         *)
LEMMA EntryFields ==
    ASSUME NEW s, StateInv(s), NEW id \in Ids, s.hot[id] # Absent
    PROVE  s.hot[id].payload \in Payloads /\ s.hot[id].answer \in Answers \cup {NoAnswer} /\ s.hot[id].token \in Tokens(s.j)
<1>1. s.hot[id] \in EntryType
  BY DEF StateInv, HotInv
<1> QED
  BY <1>1 DEF EntryType, StateInv, HotInv

(* A call that writes no record tells nothing new.                         *)
LEMMA KeptGood ==
    ASSUME NEW s, NEW t, NEW O, Good(s, O), Kept(s.j, t.j), t.hot = s.hot, t.storage \in BOOLEAN,
           s.storage => t.storage, IsState(t)
    PROVE  Good(t, O) /\ Quiet(s, t)
<1>1. JournalInv(s.j) /\ HotInv(s.j, s.hot) /\ SameRecords(s.j, t.j) /\ t.j \in JournalType
  BY DEF Good, StateInv, Kept, SameRecords
<1>2. JournalInv(t.j) /\ Extends(s.j, t.j)
  BY <1>1, SameRecordsPreserve
<1>3. StateInv(t)
  BY <1>1, <1>2, HotExtends DEF StateInv
<1>4. /\ Tokens(t.j) = Tokens(s.j) /\ Live(t.j) = Live(s.j) /\ t.j.log = s.j.log
      /\ t.j.scope = s.j.scope /\ t.j.epoch = s.j.epoch
  BY DEF Kept, Tokens, Live
<1>5. \A id, S : Found(t.j, id, S) = Found(s.j, id, S)
  BY DEF Kept, Found, Matches, Walk
<1>6. Quiet(s, t)
  BY <1>4, <1>5 DEF Quiet, ToldBy
<1>7. Ledger(t.j) /\ Entries(t) /\ Held(t) /\ OpenOnly(t, O)
  <2>1. Ledger(t.j)
    BY <1>4 DEF Good, Ledger, IsReservation
  <2>2. Entries(t)
    BY <1>4 DEF Good, Entries, Stands, IsReservation
  <2>3. Held(t)
    BY <1>4 DEF Good, Held, IsReservation, Completed, Completes
  <2>4. OpenOnly(t, O)
    BY DEF Good, OpenOnly
  <2> QED
    BY <2>1, <2>2, <2>3, <2>4
<1>8. Room(t.j)
  BY <1>4 DEF Good, Room, Kept
<1>9. OneMeaningIn(t)
  BY <1>6 DEF Good, Quiet, OneMeaningIn
<1> QED
  BY <1>3, <1>6, <1>7, <1>8, <1>9 DEF Good

(* An answer leaves the meanings alone.                                    *)
LEMMA AnsweredMeaning ==
    ASSUME NEW s, NEW t, StateInv(s), OneMeaningIn(s), NEW id \in Ids, s.hot[id] # Absent, NEW a, AnsweredTo(s, t, id, a)
    PROVE  OneMeaningIn(t)
<1>1. s.hot[id].payload # None
  BY EntryFields, ConstantsAssumption
<1>2. \A k \in Keys : /\ ToldBy(t, k) # NotFound => ToldBy(s, k) # NotFound
                      /\ ToldBy(t, k).payload = ToldBy(s, k).payload
  <2> SUFFICES ASSUME NEW k \in Keys
               PROVE  /\ ToldBy(t, k) # NotFound => ToldBy(s, k) # NotFound
                      /\ ToldBy(t, k).payload = ToldBy(s, k).payload
    OBVIOUS
  <2>1. CASE Key(s, id, k)
    <3>1. ToldBy(s, k) = [payload |-> s.hot[id].payload, answer |-> s.hot[id].answer]
      BY <2>1 DEF ToldBy, Key
    <3>2. ToldBy(t, k) = [payload |-> s.hot[id].payload, answer |-> a]
      BY <2>1 DEF AnsweredTo
    <3>3. ToldBy(s, k) # NotFound
      BY <1>1, <3>1 DEF NotFound
    <3> QED
      BY <3>1, <3>2, <3>3
  <2>2. CASE ~Key(s, id, k)
    BY <2>2 DEF AnsweredTo
  <2> QED
    BY <2>1, <2>2
<1> QED
  BY <1>2 DEF OneMeaningIn

(* The entry id of s was answered in RAM, or its completion was written.   *)
Saved(s, t, id) == t.hot = [s.hot EXCEPT ![id] = Absent] /\ t.storage = s.storage
Lingers(s, t, id, a) == t.hot = [s.hot EXCEPT ![id] = [@ EXCEPT !.answer = a]] /\ t.storage = TRUE

(* An answer whose completion was written.                                 *)
LEMMA SavedGood ==
    ASSUME NEW s, NEW t, NEW O, Good(s, O), NEW id \in Ids, s.hot[id] # Absent, NEW a \in Answers,
           NEW recovery \in BOOLEAN, NEW f \in Files,
           CompletedIn(s.j, t.j, f, s.hot[id].token, a, recovery), StateInv(t), IsState(t),
           Saved(s, t, id), recovery => \E u \in Tokens(s.j) : s.j.log[u].kind = "close"
    PROVE  Good(t, O \ {id}) /\ AnsweredTo(s, t, id, a)
<1> DEFINE old == s.j
           new == t.j
           tok == s.hot[id].token
           n == Len(old.log) + 1
           r == NewRecord(old, f, id, a, "complete", tok)
<1>1. /\ JournalInv(old) /\ JournalInv(new) /\ old \in JournalType /\ new \in JournalType
      /\ s.hot \in [Ids -> EntryType] /\ Ledger(old) /\ Stands(s, id)
  BY DEF Good, StateInv, HotInv, JournalInv, Entries
<1>2. tok \in Tokens(old) /\ IsReservation(old, tok) /\ old.log[tok].id = id /\ old.log[tok].scope = old.scope
      /\ old.log[tok].epoch = old.epoch /\ old.log[tok].body = s.hot[id].payload
  BY <1>1 DEF Stands
<1>3. Wrote(old, new, f, id, a, "complete", tok) /\ new.count = old.count
  BY <1>2 DEF CompletedIn
<1>4. tok \in Nat /\ a \in Payloads \cup Answers
  BY <1>2 DEF Tokens
<1>5. /\ Grew(old, new, n, r) /\ r.id = id /\ r.body = a /\ r.kind = "complete" /\ r.scope = old.scope
      /\ r.epoch = old.epoch /\ r.request = tok
  BY <1>1, <1>3, <1>4, WroteGrows
<1> HIDE DEF r, n
<1>6. /\ Tokens(new) = Tokens(old) \cup {n} /\ new.log[n] = r /\ \A u \in Tokens(old) : new.log[u] = old.log[u] /\ u < n
      /\ new.scope = old.scope /\ new.epoch = old.epoch
  BY <1>3, <1>5 DEF Grew, Wrote
<1>7. /\ \A u \in Tokens(old) : IsReservation(new, u) <=> IsReservation(old, u)
      /\ ~IsReservation(new, n) /\ \A u \in Tokens(old) : Completed(old, u) => Completed(new, u)
      /\ Completed(new, tok)
  BY <1>5, <1>6 DEF IsReservation, Completed, Completes
<1>8. Ledger(new)
  <2>1. \A u \in Tokens(new) : IsReservation(new, u) => new.log[u].body \in Payloads
    BY <1>1, <1>6, <1>7 DEF Ledger
  <2>2. ASSUME NEW c \in Tokens(new), ~IsReservation(new, c)
        PROVE  LET u == new.log[c].request
               IN /\ new.log[c].body \in Answers
                  /\ u \in Tokens(new) /\ u < c /\ IsReservation(new, u)
                  /\ new.log[u].id = new.log[c].id /\ new.log[u].scope = new.log[c].scope
                  /\ new.log[u].epoch = new.log[c].epoch
    <3>1. CASE c = n
      BY <1>2, <1>5, <1>6, <1>7, <3>1
    <3>2. CASE c \in Tokens(old)
      <4> DEFINE u == old.log[c].request
      <4>1. ~IsReservation(old, c) /\ new.log[c] = old.log[c]
        BY <1>6, <1>7, <2>2, <3>2
      <4>2. /\ old.log[c].body \in Answers /\ u \in Tokens(old) /\ u < c /\ IsReservation(old, u)
            /\ old.log[u].id = old.log[c].id /\ old.log[u].scope = old.log[c].scope
            /\ old.log[u].epoch = old.log[c].epoch
        BY <1>1, <3>2, <4>1 DEF Ledger
      <4>3. u \in Tokens(new) /\ IsReservation(new, u) /\ new.log[u] = old.log[u]
        BY <1>6, <1>7, <4>2
      <4> QED
        BY <4>1, <4>2, <4>3
    <3> QED
      BY <1>6, <3>1, <3>2
  <2> QED
    BY <2>1, <2>2 DEF Ledger
<1>9. /\ t.hot[id] = Absent /\ \A o \in Ids \ {id} : t.hot[o] = s.hot[o]
      /\ t.storage = s.storage
  BY <1>1 DEF Saved
<1>10. Entries(t) /\ OpenOnly(t, O \ {id})
  <2>1. ASSUME NEW o \in Ids, t.hot[o] # Absent PROVE Stands(t, o)
    <3>1. o # id /\ t.hot[o] = s.hot[o] /\ Stands(s, o)
      BY <1>9, <2>1 DEF Good, Entries
    <3> QED
      BY <1>6, <1>7, <1>9, <3>1 DEF Stands
  <2>2. OpenOnly(t, O \ {id})
    BY <1>9 DEF Good, OpenOnly
  <2> QED
    BY <2>1, <2>2 DEF Entries
<1>11. Held(t)
  <2> SUFFICES ASSUME NEW u \in Tokens(new), IsReservation(new, u), ~Completed(new, u)
               PROVE  \E o \in Ids : t.hot[o] # Absent /\ t.hot[o].token = u
    BY DEF Held
  <2>1. u \in Tokens(old) /\ IsReservation(old, u) /\ ~Completed(old, u) /\ u # tok
    BY <1>6, <1>7
  <2>2. PICK o \in Ids : s.hot[o] # Absent /\ s.hot[o].token = u
    BY <2>1 DEF Good, Held
  <2> QED
    BY <1>9, <2>1, <2>2
<1>12. Room(new)
  <2>1. Room(old)
    BY DEF Good
  <2>2. new.used = [old.used EXCEPT ![f] = @ + Weight[a]] /\ old.used \in [Files -> Nat] /\ Weight[a] \in Nat
        /\ Spare \in Files /\ Bytes[Spare] \in Nat /\ CloseBytes \in Nat
    BY <1>1, <1>3, <1>4, ConstantsAssumption DEF Wrote, JournalType, Files
  <2>3. \A u \in Live(old) : u \in Live(new) /\ new.log[u] = old.log[u]
    BY <1>6 DEF Live
  <2>4. ASSUME new.used[Spare] > Bytes[Spare] - CloseBytes
        PROVE  \E u \in Tokens(new) : new.log[u].kind = "close"
    <3>1. CASE \E u \in Tokens(old) : old.log[u].kind = "close"
      BY <1>6, <3>1
    <3>2. CASE ~\E u \in Tokens(old) : old.log[u].kind = "close"
      <4>1. ~recovery /\ old.log[tok].kind # "close" /\ ~(old.used[Spare] > Bytes[Spare] - CloseBytes)
        BY <1>2, <2>1, <3>2 DEF Room
      <4>2. f # Spare
        BY <2>2, <2>4, <4>1 DEF CompletedIn
      <4> QED
        BY <2>2, <2>4, <4>1, <4>2
    <3> QED
      BY <3>1, <3>2
  <2> QED
    BY <1>3, <2>1, <2>3, <2>4 DEF Room
<1>13. AnsweredTo(s, t, id, a)
  <2> SUFFICES ASSUME NEW k \in Keys
               PROVE  /\ Key(s, id, k) => ToldBy(t, k) = [payload |-> s.hot[id].payload, answer |-> a]
                      /\ ~Key(s, id, k) => ToldBy(t, k) = ToldBy(s, k)
    BY DEF AnsweredTo
  <2>0. k[1] \in Scopes /\ k[2] \in Ids
    BY DEF Keys
  <2>1. CASE Key(s, id, k)
    <3>1. Found(new, id, {k[1]}) = [payload |-> old.log[tok].body, answer |-> a]
      BY <1>1, <1>2, <1>3, <2>1, FoundNewest DEF Key
    <3> QED
      BY <1>2, <1>9, <2>1, <3>1 DEF Key, ToldBy
  <2>2. CASE ~Key(s, id, k)
    <3>1. Found(new, k[2], {k[1]}) = Found(old, k[2], {k[1]})
      BY <1>1, <1>3, <1>4, <2>0, <2>2, FoundOther DEF Key
    <3> QED
      BY <1>6, <1>9, <2>0, <2>2, <3>1 DEF Key, ToldBy
  <2> QED
    BY <2>1, <2>2
<1>14. OneMeaningIn(t)
  BY <1>13, AnsweredMeaning DEF Good
<1> QED
  BY <1>8, <1>10, <1>11, <1>12, <1>13, <1>14 DEF Good

(* An answer that could not be written stays in RAM.                       *)
LEMMA LingersGood ==
    ASSUME NEW s, NEW t, NEW O, Good(s, O), NEW id \in Ids, s.hot[id] # Absent, NEW a \in Answers,
           Kept(s.j, t.j), StateInv(t), IsState(t), Lingers(s, t, id, a)
    PROVE  Good(t, O \ {id}) /\ AnsweredTo(s, t, id, a)
<1>1. s.hot \in [Ids -> EntryType] /\ a # NoAnswer
  BY ConstantsAssumption DEF Good, StateInv, HotInv
<1>2. /\ t.hot[id] # Absent /\ t.hot[id].answer = a /\ t.hot[id].payload = s.hot[id].payload
      /\ t.hot[id].token = s.hot[id].token
  <2> DEFINE e == [s.hot[id] EXCEPT !.answer = a]
  <2>1. e # Absent /\ e.token = s.hot[id].token
    BY <1>1, EntryAnswered
  <2>2. e.answer = a /\ e.payload = s.hot[id].payload
    BY <1>1 DEF EntryType, Absent
  <2>3. t.hot[id] = e
    BY <1>1 DEF Lingers
  <2> QED
    BY <2>1, <2>2, <2>3
<1>3. t.storage = TRUE /\ \A o \in Ids \ {id} : t.hot[o] = s.hot[o]
  BY <1>1 DEF Lingers
<1>4. /\ Tokens(t.j) = Tokens(s.j) /\ Live(t.j) = Live(s.j) /\ t.j.log = s.j.log
      /\ t.j.scope = s.j.scope /\ t.j.epoch = s.j.epoch
  BY DEF Kept, Tokens, Live
<1>5. \A o, S : Found(t.j, o, S) = Found(s.j, o, S)
  BY DEF Kept, Found, Matches, Walk
<1>6. Ledger(t.j) /\ Held(t)
  BY <1>2, <1>3, <1>4 DEF Good, Ledger, Held, IsReservation, Completed, Completes
<1>7. Entries(t) /\ OpenOnly(t, O \ {id})
  <2>1. ASSUME NEW o \in Ids, t.hot[o] # Absent PROVE Stands(t, o)
    <3>1. Stands(s, o) /\ t.hot[o].token = s.hot[o].token /\ t.hot[o].payload = s.hot[o].payload
      BY <1>2, <1>3, <2>1 DEF Good, Entries
    <3> QED
      BY <1>3, <1>4, <3>1 DEF Stands, IsReservation
  <2>2. OpenOnly(t, O \ {id})
    BY <1>1, <1>2, <1>3 DEF Good, OpenOnly
  <2> QED
    BY <2>1, <2>2 DEF Entries
<1>8. Room(t.j)
  BY <1>4 DEF Good, Room, Kept
<1>9. AnsweredTo(s, t, id, a)
  <2> SUFFICES ASSUME NEW k \in Keys
               PROVE  /\ Key(s, id, k) => ToldBy(t, k) = [payload |-> s.hot[id].payload, answer |-> a]
                      /\ ~Key(s, id, k) => ToldBy(t, k) = ToldBy(s, k)
    BY DEF AnsweredTo
  <2>1. k[2] \in Ids
    BY DEF Keys
  <2> QED
    BY <1>2, <1>3, <1>4, <1>5, <2>1 DEF Key, ToldBy
<1>10. OneMeaningIn(t)
  BY <1>9, AnsweredMeaning DEF Good
<1> QED
  BY <1>6, <1>7, <1>8, <1>9, <1>10 DEF Good

(* What is found in other branches is what one of them is told.            *)
LEMMA FoundForeign ==
    ASSUME NEW jr, JournalInv(jr), Ledger(jr), NEW id \in Ids, NEW S
    PROVE  \/ \A o \in S : Found(jr, id, {o}) = NotFound
           \/ \E o \in S : Found(jr, id, S) = Found(jr, id, {o}) /\ Found(jr, id, S) # NotFound
<1> DEFINE m == Matches(jr, id, S)
           t == CHOOSE t \in m : \A u \in m : u <= t
<1>1. jr \in JournalType /\ BucketOf \in [Ids -> Buckets] /\ Len(jr.log) \in Nat
  BY ConstantsAssumption DEF JournalInv, JournalType
<1>2. m \subseteq Tokens(jr)
  BY <1>1 DEF JournalInv, Indexed, Live, Matches, Walk
<1>3. CASE m = {}
  <2>1. \A o \in S : Matches(jr, id, {o}) = {}
    BY <1>3 DEF Matches
  <2> QED
    BY <2>1 DEF Found
<1>4. CASE m # {}
  <2>1. t \in m /\ \A u \in m : u <= t
    BY <1>1, <1>2, <1>4, LastPlace DEF Tokens
  <2> DEFINE o == jr.log[t].scope
             mo == Matches(jr, id, {o})
             to == CHOOSE u \in mo : \A v \in mo : v <= u
  <2>2. o \in S /\ t \in mo /\ mo \subseteq m
    BY <2>1 DEF Matches
  <2> HIDE DEF m, mo, t
  <2>3. to \in mo /\ \A v \in mo : v <= to
    <3>1. mo \subseteq 1 .. Len(jr.log) /\ mo # {}
      BY <1>2, <2>2 DEF Tokens
    <3> QED
      BY <1>1, <3>1, LastPlace
  <2> HIDE DEF to, o
  <2>4. to = t
    <3>1. t <= to /\ to <= t
      BY <2>1, <2>2, <2>3
    <3>2. t \in Nat /\ to \in Nat
      BY <1>1, <1>2, <2>1, <2>2, <2>3 DEF Tokens
    <3> QED
      BY <3>1, <3>2
  <2>5. Found(jr, id, S) = Found(jr, id, {o})
    <3>1. mo # {}
      BY <2>2
    <3> QED
      BY <1>4, <2>4, <3>1 DEF Found, m, mo, t, to
  <2>6. Found(jr, id, S).payload \in Payloads
    <3>1. t \in Tokens(jr)
      BY <1>2, <2>1
    <3>2. CASE jr.log[t].kind = "complete"
      <4>1. jr.log[jr.log[t].request].body \in Payloads
        BY <3>1, <3>2 DEF Ledger, IsReservation
      <4> QED
        BY <1>4, <3>2, <4>1 DEF Found, m, t
    <3>3. CASE jr.log[t].kind # "complete"
      <4>1. jr.log[t].body \in Payloads
        BY <3>1, <3>3 DEF Ledger, IsReservation
      <4> QED
        BY <1>4, <3>3, <4>1 DEF Found, m, t
    <3> QED
      BY <3>2, <3>3
  <2>7. Found(jr, id, S) # NotFound
    BY <2>6, ConstantsAssumption DEF NotFound
  <2> QED
    BY <2>2, <2>5, <2>7
<1> QED
  BY <1>3, <1>4

(* The request id is bound to p by its reservation.                        *)
Binds(s, t, id, p) ==
    /\ t.hot = [s.hot EXCEPT ![id] = [payload |-> p, answer |-> NoAnswer, token |-> Len(t.j.log)]]
    /\ t.storage = s.storage

(* A request that is unknown is admitted under its key alone.              *)
LEMMA AdmitGood ==
    ASSUME NEW s, NEW t, NEW O, Good(s, O), NEW id \in Ids, NEW p \in Payloads, NEW f \in Files,
           s.hot[id] = Absent, Fresh(s.j, id),
           Found(s.j, id, Scopes \ {s.j.scope}) = NotFound \/ Found(s.j, id, Scopes \ {s.j.scope}).payload = p,
           ReservedIn(s.j, t.j, f, id, p), StateInv(t), IsState(t), Binds(s, t, id, p)
    PROVE  Good(t, O \cup {id}) /\ BoundTo(s, t, id, p) /\ t.j.log[t.hot[id].token].kind = Kind(p)
<1> DEFINE old == s.j
           new == t.j
           n == Len(old.log) + 1
           r == NewRecord(old, f, id, p, Kind(p), 0)
<1>1. /\ JournalInv(old) /\ JournalInv(new) /\ old \in JournalType /\ new \in JournalType
      /\ s.hot \in [Ids -> EntryType] /\ Ledger(old) /\ old.scope \in Scopes
  BY DEF Good, StateInv, HotInv, JournalInv, JournalType
<1>2. Wrote(old, new, f, id, p, Kind(p), 0) /\ Counts(old, new, f, p)
  BY DEF ReservedIn
<1>3. p \in Payloads \cup Answers /\ Kind(p) \in {"reserve", "close", "complete"} /\ Kind(p) # "complete" /\ 0 \in Nat
  BY DEF Kind
<1>4. /\ Grew(old, new, n, r) /\ r.id = id /\ r.body = p /\ r.kind = Kind(p) /\ r.scope = old.scope
      /\ r.epoch = old.epoch /\ r.file = f
  BY <1>1, <1>2, <1>3, WroteGrows
<1> HIDE DEF r, n
<1>5. /\ Tokens(new) = Tokens(old) \cup {n} /\ new.log[n] = r /\ \A u \in Tokens(old) : new.log[u] = old.log[u]
      /\ new.scope = old.scope /\ new.epoch = old.epoch /\ Len(new.log) = n
  BY <1>2, <1>4 DEF Grew, Wrote
<1>6. /\ \A u \in Tokens(old) : IsReservation(new, u) <=> IsReservation(old, u)
      /\ IsReservation(new, n) /\ \A u \in Tokens(old) : Completed(old, u) => Completed(new, u)
  BY <1>3, <1>4, <1>5 DEF IsReservation, Completed, Completes
<1>7. Ledger(new)
  <2>1. \A u \in Tokens(new) : IsReservation(new, u) => new.log[u].body \in Payloads
    BY <1>1, <1>4, <1>5, <1>6 DEF Ledger
  <2>2. ASSUME NEW c \in Tokens(new), ~IsReservation(new, c)
        PROVE  LET u == new.log[c].request
               IN /\ new.log[c].body \in Answers
                  /\ u \in Tokens(new) /\ u < c /\ IsReservation(new, u)
                  /\ new.log[u].id = new.log[c].id /\ new.log[u].scope = new.log[c].scope
                  /\ new.log[u].epoch = new.log[c].epoch
    <3> DEFINE u == old.log[c].request
    <3>1. c \in Tokens(old) /\ ~IsReservation(old, c) /\ new.log[c] = old.log[c]
      BY <1>5, <1>6, <2>2
    <3>2. /\ old.log[c].body \in Answers /\ u \in Tokens(old) /\ u < c /\ IsReservation(old, u)
          /\ old.log[u].id = old.log[c].id /\ old.log[u].scope = old.log[c].scope
          /\ old.log[u].epoch = old.log[c].epoch
      BY <1>1, <3>1 DEF Ledger
    <3>3. u \in Tokens(new) /\ IsReservation(new, u) /\ new.log[u] = old.log[u]
      BY <1>5, <1>6, <3>2
    <3> QED
      BY <3>1, <3>2, <3>3
  <2> QED
    BY <2>1, <2>2 DEF Ledger
<1>8. /\ t.hot[id] = [payload |-> p, answer |-> NoAnswer, token |-> n]
      /\ \A o \in Ids \ {id} : t.hot[o] = s.hot[o]
      /\ t.storage = s.storage /\ t.hot[id] # Absent
  BY <1>1, <1>5, ConstantsAssumption DEF Binds, Absent
<1>9. Entries(t)
  <2>1. ASSUME NEW o \in Ids, t.hot[o] # Absent PROVE Stands(t, o)
    <3>1. CASE o = id
      BY <1>4, <1>5, <1>6, <1>8, <3>1 DEF Stands
    <3>2. CASE o # id
      <4>1. t.hot[o] = s.hot[o] /\ Stands(s, o)
        BY <1>8, <2>1, <3>2 DEF Good, Entries
      <4> QED
        BY <1>5, <1>6, <1>8, <4>1 DEF Stands
    <3> QED
      BY <3>1, <3>2
  <2> QED
    BY <2>1 DEF Entries
<1>10. OpenOnly(t, O \cup {id})
  BY <1>8 DEF Good, OpenOnly
<1>11. Held(t)
  <2> SUFFICES ASSUME NEW u \in Tokens(new), IsReservation(new, u), ~Completed(new, u)
               PROVE  \E o \in Ids : t.hot[o] # Absent /\ t.hot[o].token = u
    BY DEF Held
  <2>1. CASE u = n
    BY <1>8, <2>1
  <2>2. CASE u \in Tokens(old)
    <3>1. PICK o \in Ids : s.hot[o] # Absent /\ s.hot[o].token = u
      BY <1>6, <2>2 DEF Good, Held
    <3> QED
      BY <1>8, <3>1
  <2> QED
    BY <1>5, <2>1, <2>2
<1>12. Room(new)
  <2>1. Room(old)
    BY DEF Good
  <2>2. /\ new.used = [old.used EXCEPT ![f] = @ + Weight[p]] /\ old.used \in [Files -> Nat] /\ Weight[p] \in Nat
        /\ new.count = [old.count EXCEPT ![f] = @ + 1] /\ old.count \in [Files -> Nat]
        /\ Spare \in Files /\ Bytes[Spare] \in Nat /\ CloseBytes \in Nat /\ Slots[Spare] \in Nat
    BY <1>1, <1>2, ConstantsAssumption DEF Wrote, Counts, JournalType, Files
  <2>3. \A u \in Live(old) : u \in Live(new) /\ new.log[u] = old.log[u]
    BY <1>5 DEF Live
  <2>4. CASE f = Spare /\ Class[p] = "close"
    <3>1. n \in Live(new) /\ new.log[n].kind = "close" /\ new.log[n].file = Spare /\ n \in Tokens(new)
      BY <1>4, <1>5, <2>4 DEF Live, Kind
    <3>2. new.count[Spare] <= Slots[Spare]
      BY <1>2, <2>2, <2>4 DEF Counts
    <3> QED
      BY <3>1, <3>2 DEF Room
  <2>5. CASE f = Spare /\ Class[p] # "close"
    <3>1. new.count[Spare] < Slots[Spare]
      BY <1>2, <2>2, <2>5 DEF Counts
    <3>2. new.used[Spare] <= Bytes[Spare] - CloseBytes
      BY <2>2, <2>5 DEF ReservedIn
    <3>3. new.count[Spare] \in Nat /\ new.used[Spare] \in Nat
      BY <2>2
    <3> QED
      BY <2>2, <3>1, <3>2, <3>3 DEF Room
  <2>6. CASE f # Spare
    <3>1. new.count[Spare] = old.count[Spare] /\ new.used[Spare] = old.used[Spare]
      BY <2>2, <2>6
    <3> QED
      BY <1>5, <2>1, <2>3, <3>1 DEF Room
  <2> QED
    BY <2>4, <2>5, <2>6
<1>13. BoundTo(s, t, id, p)
  <2> SUFFICES ASSUME NEW k \in Keys
               PROVE  /\ Key(s, id, k) => /\ ToldBy(s, k) = NotFound
                                          /\ ToldBy(t, k) = [payload |-> p, answer |-> NoAnswer]
                      /\ ~Key(s, id, k) => ToldBy(t, k) = ToldBy(s, k)
    BY DEF BoundTo
  <2>0. k[1] \in Scopes /\ k[2] \in Ids
    BY DEF Keys
  <2>1. CASE Key(s, id, k)
    <3>1. Found(old, id, {k[1]}) = NotFound
      BY <2>1 DEF Fresh, Found, Key
    <3> QED
      BY <1>5, <1>8, <2>1, <3>1 DEF Key, ToldBy
  <2>2. CASE ~Key(s, id, k)
    <3>1. Found(new, k[2], {k[1]}) = Found(old, k[2], {k[1]})
      BY <1>1, <1>2, <1>3, <2>0, <2>2, FoundOther DEF Key
    <3> QED
      BY <1>5, <1>8, <2>0, <2>2, <3>1 DEF Key, ToldBy
  <2> QED
    BY <2>1, <2>2
<1>14. \A k \in Keys : k[2] = id /\ ToldBy(s, k) # NotFound => ToldBy(s, k).payload = p
  <2> SUFFICES ASSUME NEW k \in Keys, k[2] = id, ToldBy(s, k) # NotFound PROVE ToldBy(s, k).payload = p
    OBVIOUS
  <2> DEFINE S == Scopes \ {old.scope}
  <2>1. k[1] \in S /\ ToldBy(s, k) = Found(old, id, {k[1]})
    BY <1>13 DEF BoundTo, Key, Keys, ToldBy
  <2>2. PICK o \in S : Found(old, id, S) = Found(old, id, {o}) /\ Found(old, id, S) # NotFound
    BY <1>1, <2>1, FoundForeign
  <2>3. <<o, id>> \in Keys /\ ToldBy(s, <<o, id>>) = Found(old, id, {o})
    BY <2>2 DEF Keys, ToldBy
  <2>4. ToldBy(s, <<o, id>>).payload = p /\ ToldBy(s, <<o, id>>) # NotFound
    BY <2>2, <2>3
  <2> QED
    BY <2>3, <2>4 DEF Good, OneMeaningIn
<1>15. OneMeaningIn(t)
  <2> SUFFICES ASSUME NEW k \in Keys, NEW l \in Keys, k[2] = l[2], ToldBy(t, k) # NotFound, ToldBy(t, l) # NotFound
               PROVE  ToldBy(t, k).payload = ToldBy(t, l).payload
    BY DEF OneMeaningIn
  <2>1. CASE k[2] = id
    <3>1. \A m \in {k, l} : ToldBy(t, m) # NotFound => ToldBy(t, m).payload = p
      <4> SUFFICES ASSUME NEW m \in {k, l}, ToldBy(t, m) # NotFound PROVE ToldBy(t, m).payload = p
        OBVIOUS
      <4>1. m \in Keys /\ m[2] = id
        BY <2>1
      <4>2. CASE Key(s, id, m)
        <5>1. ToldBy(t, m) = [payload |-> p, answer |-> NoAnswer]
          BY <1>13, <4>1, <4>2 DEF BoundTo
        <5> QED
          BY <5>1
      <4>3. CASE ~Key(s, id, m)
        <5>1. ToldBy(t, m) = ToldBy(s, m)
          BY <1>13, <4>1, <4>3 DEF BoundTo
        <5> QED
          BY <1>14, <4>1, <5>1
      <4> QED
        BY <4>2, <4>3
    <3> QED
      BY <3>1
  <2>2. CASE k[2] # id
    BY <1>13, <2>2 DEF BoundTo, Good, OneMeaningIn, Key
  <2> QED
    BY <2>1, <2>2
<1>16. new.log[t.hot[id].token].kind = Kind(p)
  BY <1>4, <1>5, <1>8
<1> QED
  BY <1>7, <1>9, <1>10, <1>11, <1>12, <1>13, <1>15, <1>16 DEF Good

-----------------------------------------------------------------------------
(* Handlers.                                                               *)

(* What a retry is told may turn from e to f.                              *)
Onward(e, f) ==
    \/ f = e
    \/ e = NotFound /\ f.payload \in Payloads
    \/ e # NotFound /\ e.answer = NoAnswer /\ f.payload = e.payload /\ f.answer \in Answers

(* From s to t every key moves onward, and only those of I are new.        *)
Moves(s, t, I) ==
    \A k \in Keys :
        /\ Onward(ToldBy(s, k), ToldBy(t, k))
        /\ ToldBy(s, k) = NotFound /\ ToldBy(t, k) # NotFound => k[1] = s.j.scope /\ k[2] \in I
Stays(s, t) == t.j.scope = s.j.scope /\ t.j.sealed = s.j.sealed

(* Going onward twice is going onward.                                     *)
LEMMA OnwardTwice ==
    ASSUME NEW e, NEW f, NEW g, Onward(e, f), Onward(f, g)
    PROVE  Onward(e, g)
<1>1. NotFound.answer = NoAnswer /\ NotFound.payload = None
  BY DEF NotFound
<1>2. None \notin Payloads /\ NoAnswer \notin Answers
  BY ConstantsAssumption
<1> QED
  BY <1>1, <1>2 DEF Onward

(* Moves compose.                                                          *)
LEMMA MovesTwice ==
    ASSUME NEW s, NEW t, NEW u, NEW I, Moves(s, t, I), Moves(t, u, I), t.j.scope = s.j.scope
    PROVE  Moves(s, u, I)
<1> SUFFICES ASSUME NEW k \in Keys
             PROVE  /\ Onward(ToldBy(s, k), ToldBy(u, k))
                    /\ ToldBy(s, k) = NotFound /\ ToldBy(u, k) # NotFound => k[1] = s.j.scope /\ k[2] \in I
  BY DEF Moves
<1>1. Onward(ToldBy(s, k), ToldBy(t, k)) /\ Onward(ToldBy(t, k), ToldBy(u, k))
  BY DEF Moves
<1>2. Onward(ToldBy(s, k), ToldBy(u, k))
  BY <1>1, OnwardTwice
<1>3. /\ ToldBy(s, k) = NotFound /\ ToldBy(t, k) # NotFound => k[1] = s.j.scope /\ k[2] \in I
      /\ ToldBy(t, k) = NotFound /\ ToldBy(u, k) # NotFound => k[1] = s.j.scope /\ k[2] \in I
  BY DEF Moves
<1> QED
  BY <1>2, <1>3

(* Telling nothing new is a move.                                          *)
LEMMA QuietMoves ==
    ASSUME NEW s, NEW t, NEW I, Quiet(s, t)
    PROVE  Moves(s, t, I)
  BY DEF Quiet, Moves, Onward

(* Answering an open entry is a move.                                      *)
LEMMA AnsweredMoves ==
    ASSUME NEW s, NEW t, NEW I, StateInv(s), NEW id \in Ids, s.hot[id] # Absent, s.hot[id].answer = NoAnswer,
           NEW a \in Answers, AnsweredTo(s, t, id, a)
    PROVE  Moves(s, t, I)
<1>1. s.hot[id].payload # None
  BY EntryFields, ConstantsAssumption
<1> SUFFICES ASSUME NEW k \in Keys
             PROVE  /\ Onward(ToldBy(s, k), ToldBy(t, k))
                    /\ ToldBy(s, k) = NotFound /\ ToldBy(t, k) # NotFound => k[1] = s.j.scope /\ k[2] \in I
  BY DEF Moves
<1>2. CASE Key(s, id, k)
  <2>1. ToldBy(s, k) = [payload |-> s.hot[id].payload, answer |-> NoAnswer]
    BY <1>2 DEF ToldBy, Key
  <2>2. ToldBy(t, k) = [payload |-> s.hot[id].payload, answer |-> a]
    BY <1>2 DEF AnsweredTo
  <2>3. ToldBy(s, k) # NotFound
    BY <1>1, <2>1 DEF NotFound
  <2> QED
    BY <2>1, <2>2, <2>3 DEF Onward
<1>3. CASE ~Key(s, id, k)
  BY <1>3 DEF AnsweredTo, Onward
<1> QED
  BY <1>2, <1>3

(* Binding a request is a move of its key.                                 *)
LEMMA BoundMoves ==
    ASSUME NEW s, NEW t, NEW id \in Ids, NEW p \in Payloads, BoundTo(s, t, id, p)
    PROVE  Moves(s, t, {id})
  BY DEF Moves, BoundTo, Onward, Key

(* A state is good for every set that holds its open entries.              *)
LEMMA GoodWider ==
    ASSUME NEW s, NEW O, Good(s, O), NEW P, \A id \in Ids : id \in O => id \in P
    PROVE  Good(s, P)
  BY DEF Good, OpenOnly

(* The entry id of s, one of the open ones in O, was answered.             *)
Settled(s, t, O, id, I) ==
    /\ Good(t, O \ {id}) /\ Moves(s, t, I) /\ Stays(s, t)
    /\ \A o \in Ids \ {id} : t.hot[o] = s.hot[o]

(* Settling an open entry answers it, in the journal or in RAM.            *)
LEMMA SettleGood ==
    ASSUME NEW s, NEW O, Good(s, O), NEW id \in Ids, s.hot[id] # Absent, s.hot[id].answer = NoAnswer,
           NEW a \in Answers, NEW down, NEW I
    PROVE  Settled(s, Settle(s, id, a, down), O, id, I)
<1> DEFINE tok == s.hot[id].token
           c == CompleteIn(s.j, tok, a, FALSE, down)
           t == Settle(s, id, a, down)
<1>1. StateInv(s) /\ s.j \in JournalType /\ s.storage \in BOOLEAN /\ tok \in Tokens(s.j)
  BY EntryFields DEF Good, StateInv, JournalInv
<1>2. StateInv(t) /\ \A o \in Ids \ {id} : t.hot[o] = s.hot[o]
  BY <1>1, SettlePreserves
<1>3. CompletedOne(s.j, tok, a, FALSE, c)
  BY <1>1, CompleteWrites
<1> HIDE DEF c
<1>4. t = [j |-> c.j,
           hot |-> [s.hot EXCEPT ![id] = IF c.ok THEN Absent ELSE [@ EXCEPT !.answer = a]],
           storage |-> s.storage \/ ~c.ok]
  BY DEF Settle, c
<1> HIDE DEF t, tok
<1>5. IsState(t) /\ t.j = c.j
  BY <1>4 DEF IsState
<1>6. ASSUME c.ok = FALSE, Kept(s.j, c.j)
      PROVE  Good(t, O \ {id}) /\ Moves(s, t, I) /\ Stays(s, t)
  <2>1. Lingers(s, t, id, a)
    BY <1>1, <1>4, <1>6 DEF Lingers
  <2>2. Good(t, O \ {id}) /\ AnsweredTo(s, t, id, a)
    BY <1>2, <1>5, <1>6, <2>1, LingersGood
  <2>3. Stays(s, t)
    BY <1>5, <1>6 DEF Stays, Kept
  <2>4. Moves(s, t, I)
    BY <1>1, <2>2, AnsweredMoves
  <2> QED
    BY <2>2, <2>3, <2>4
<1>7. ASSUME c.ok = TRUE, \E f \in Files : CompletedIn(s.j, c.j, f, tok, a, FALSE)
      PROVE  Good(t, O \ {id}) /\ Moves(s, t, I) /\ Stays(s, t)
  <2>1. Saved(s, t, id)
    BY <1>1, <1>4, <1>7 DEF Saved
  <2>2. PICK f \in Files : CompletedIn(s.j, t.j, f, s.hot[id].token, a, FALSE)
    BY <1>5, <1>7 DEF tok
  <2>3. Good(t, O \ {id}) /\ AnsweredTo(s, t, id, a)
    BY <1>2, <1>5, <2>1, <2>2, SavedGood
  <2>4. Stays(s, t)
    BY <2>2 DEF Stays, CompletedIn, Wrote
  <2>5. Moves(s, t, I)
    BY <1>1, <2>3, AnsweredMoves
  <2> QED
    BY <2>3, <2>4, <2>5
<1>8. Settled(s, t, O, id, I)
  BY <1>2, <1>3, <1>6, <1>7 DEF CompletedOne, Settled
<1> QED
  BY <1>8 DEF t

(* Settling the pending request leaves no open entry for it.               *)
LEMMA SettlePendingGood ==
    ASSUME NEW s, NEW O, Good(s, O), pending \in Ids \cup {None},
           pending # None => s.hot[pending] # Absent /\ s.hot[pending].answer = NoAnswer,
           NEW a \in Answers, NEW down, NEW I
    PROVE  Settled(s, SettlePending(s, a, down), O, pending, I)
<1>1. CASE pending = None
  <2>1. SettlePending(s, a, down) = s
    BY <1>1 DEF SettlePending
  <2>2. Good(s, O \ {pending})
    BY <1>1, GoodWider, ConstantsAssumption
  <2>3. Moves(s, s, I) /\ Stays(s, s)
    BY QuietMoves DEF Quiet, Stays
  <2> QED
    BY <2>1, <2>2, <2>3 DEF Settled
<1>2. CASE pending # None
  BY <1>2, SettleGood DEF SettlePending
<1> QED
  BY <1>1, <1>2

(* From s to t a storage fault ended the pending request, if there was one. *)
Dropped(s, t, O, I) ==
    /\ Moves(s, t, I) /\ Stays(s, t)
    /\ s.storage \/ s.j.fault => Good(t, O \ {pending})
    /\ ~(s.storage \/ s.j.fault) => t = s /\ Good(t, O)

(* A storage fault answers the pending request, or it goes on.             *)
LEMMA DropPendingGood ==
    ASSUME NEW s, NEW O, Good(s, O), pending \in Ids \cup {None},
           pending # None => s.hot[pending] # Absent /\ s.hot[pending].answer = NoAnswer,
           NEW down, NEW I
    PROVE  Dropped(s, DropPending(s, down), O, I)
<1>1. CASE s.storage \/ s.j.fault
  <2>1. DropPending(s, down) = SettlePending(s, Lost, down) /\ Lost \in Answers
    BY <1>1, ConstantsAssumption DEF DropPending
  <2>2. Settled(s, DropPending(s, down), O, pending, I)
    BY <2>1, SettlePendingGood
  <2> QED
    BY <1>1, <2>2 DEF Settled, Dropped
<1>2. CASE ~(s.storage \/ s.j.fault)
  <2>1. DropPending(s, down) = s
    BY <1>2 DEF DropPending
  <2>2. Moves(s, s, I) /\ Stays(s, s)
    BY QuietMoves DEF Quiet, Stays
  <2> QED
    BY <1>2, <2>1, <2>2 DEF Dropped
<1> QED
  BY <1>1, <1>2

(* An open key is one of the open entries of this branch.                  *)
LEMMA OpenKeys ==
    ASSUME NEW s, NEW O, Good(s, O), NEW k \in Keys, ToldBy(s, k) # NotFound, ToldBy(s, k).answer = NoAnswer
    PROVE  k[1] = s.j.scope /\ k[2] \in O /\ s.hot[k[2]] # Absent
<1> DEFINE jr == s.j
           m == Matches(jr, k[2], {k[1]})
           t == CHOOSE t \in m : \A u \in m : u <= t
<1>0. k[1] \in Scopes /\ k[2] \in Ids
  BY DEF Keys
<1>1. CASE k[1] = jr.scope /\ s.hot[k[2]] # Absent
  <2>1. s.hot[k[2]].answer = NoAnswer
    BY <1>1 DEF ToldBy
  <2> QED
    BY <1>0, <1>1, <2>1 DEF Good, OpenOnly
<1>2. CASE ~(k[1] = jr.scope /\ s.hot[k[2]] # Absent)
  <2>1. ToldBy(s, k) = Found(jr, k[2], {k[1]})
    BY <1>2 DEF ToldBy
  <2>2. m # {}
    BY <2>1 DEF Found
  <2>3. JournalInv(jr) /\ Ledger(jr) /\ Held(s) /\ Entries(s) /\ Len(jr.log) \in Nat
    BY DEF Good, StateInv, JournalInv, JournalType
  <2>4. Walk(jr, k[2]) = {u \in Live(jr) : BucketOf[jr.log[u].id] = BucketOf[k[2]]}
    BY <1>0, <2>3, ConstantsAssumption DEF Walk, JournalInv, Indexed
  <2>5. m = {u \in Live(jr) : jr.log[u].id = k[2] /\ jr.log[u].scope = k[1]}
    BY <2>4 DEF Matches
  <2> HIDE DEF m, t
  <2>6. m \subseteq 1 .. Len(jr.log)
    BY <2>5 DEF Live, Tokens
  <2>7. t \in m /\ \A u \in m : u <= t
    BY <2>2, <2>3, <2>6, LastPlace DEF t
  <2>8. t \in Live(jr) /\ jr.log[t].id = k[2] /\ jr.log[t].scope = k[1] /\ t \in Tokens(jr)
    BY <2>5, <2>7 DEF Live
  <2>9. IsReservation(jr, t)
    <3> SUFFICES ASSUME jr.log[t].kind = "complete" PROVE FALSE
      BY DEF IsReservation
    <3>1. jr.log[t].body \in Answers
      BY <2>3, <2>8 DEF Ledger, IsReservation
    <3>2. Found(jr, k[2], {k[1]}).answer = jr.log[t].body
      BY <2>2 DEF Found, m, t
    <3> QED
      BY <2>1, <3>1, <3>2, ConstantsAssumption
  <2>10. ~Completed(jr, t)
    <3> SUFFICES ASSUME NEW c \in Tokens(jr), jr.log[c].kind = "complete", jr.log[c].request = t PROVE FALSE
      BY DEF Completed, Completes
    <3>1. t < c /\ jr.log[c].id = jr.log[t].id /\ jr.log[c].scope = jr.log[t].scope
          /\ jr.log[c].epoch = jr.log[t].epoch
      BY <2>3 DEF Ledger, IsReservation
    <3>2. c \in m
      BY <2>5, <2>8, <3>1 DEF Live
    <3>3. c <= t /\ c \in Nat /\ t \in Nat
      BY <2>6, <2>7, <3>2
    <3> QED
      BY <3>1, <3>3
  <2>11. PICK o \in Ids : s.hot[o] # Absent /\ s.hot[o].token = t
    BY <2>3, <2>8, <2>9, <2>10 DEF Held
  <2>12. Stands(s, o)
    BY <2>3, <2>11 DEF Entries
  <2>13. jr.log[t].id = o /\ jr.log[t].scope = jr.scope
    BY <2>11, <2>12 DEF Stands
  <2> QED
    BY <1>2, <2>8, <2>11, <2>13
<1> QED
  BY <1>1, <1>2

(* Without a storage fault every entry is an open one.                     *)
LEMMA HealthyOpen ==
    ASSUME NEW s, NEW O, Good(s, O), s.storage = FALSE, NEW id \in Ids, id \notin O
    PROVE  s.hot[id] = Absent
  BY DEF Good, Entries, Stands, OpenOnly

FindsSame(jr, new) == \A id, S : Found(new, id, S) = Found(jr, id, S)

(* The same log holds the same ledger, and the same index finds the same.  *)
LEMMA LogSame ==
    ASSUME NEW jr, NEW new, new.log = jr.log
    PROVE  /\ Tokens(new) = Tokens(jr) /\ (Ledger(jr) => Ledger(new))
           /\ \A t : (IsReservation(new, t) <=> IsReservation(jr, t)) /\ (Completed(new, t) <=> Completed(jr, t))
           /\ new.walk = jr.walk => FindsSame(jr, new)
<1>1. Tokens(new) = Tokens(jr)
  BY DEF Tokens
<1>2. Ledger(jr) => Ledger(new)
  BY <1>1 DEF Ledger, IsReservation
<1>3. \A t : (IsReservation(new, t) <=> IsReservation(jr, t)) /\ (Completed(new, t) <=> Completed(jr, t))
  BY <1>1 DEF IsReservation, Completed, Completes
<1>4. new.walk = jr.walk => FindsSame(jr, new)
  BY DEF FindsSame, Found, Matches, Walk
<1> QED
  BY <1>1, <1>2, <1>3, <1>4

(* A new epoch begins with no entry and tells nothing.                     *)
LEMMA EpochGood ==
    ASSUME NEW s, NEW O, Good(s, O), \A id \in Ids : s.hot[id] = Absent, NEW P, NEW t, StateInv(t), IsState(t),
           t.j = NextEpoch(s.j), t.hot = NoHot, t.storage = s.storage
    PROVE  Good(t, P) /\ (\A k \in Keys : ToldBy(t, k) = NotFound) /\ Stays(s, t)
<1>1. s.j \in JournalType /\ s.hot \in [Ids -> EntryType] /\ Ledger(s.j) /\ Held(s) /\ Room(s.j)
  BY DEF Good, StateInv, JournalInv, HotInv
<1>2. /\ t.j.log = s.j.log /\ t.j.walk = NoWalk /\ t.j.count = NoCount /\ t.j.used = s.j.used
      /\ t.j.scope = s.j.scope /\ t.j.sealed = s.j.sealed /\ Tokens(t.j) = Tokens(s.j)
  BY <1>1 DEF NextEpoch, JournalType, Tokens
<1>3. \A id \in Ids : t.hot[id] = Absent
  BY DEF NoHot
<1>4. \A k \in Keys : ToldBy(t, k) = NotFound
  <2> SUFFICES ASSUME NEW k \in Keys PROVE ToldBy(t, k) = NotFound
    OBVIOUS
  <2>1. k[2] \in Ids /\ BucketOf[k[2]] \in Buckets
    BY ConstantsAssumption DEF Keys
  <2>2. Matches(t.j, k[2], {k[1]}) = {}
    BY <1>2, <2>1 DEF Matches, Walk, NoWalk
  <2> QED
    BY <1>3, <2>1, <2>2 DEF ToldBy, Found
<1>5. Ledger(t.j) /\ Held(t)
  BY <1>1, <1>2 DEF Ledger, Held, IsReservation, Completed, Completes
<1>6. Entries(t) /\ OpenOnly(t, P) /\ OneMeaningIn(t)
  BY <1>3, <1>4 DEF Entries, OpenOnly, OneMeaningIn
<1>7. Room(t.j)
  <2>1. t.j.count[Spare] = 0 /\ Slots[Spare] \in Nat /\ Slots[Spare] > 0
    BY <1>2, ConstantsAssumption DEF NoCount, Files
  <2>2. t.j.used[Spare] > Bytes[Spare] - CloseBytes => \E u \in Tokens(t.j) : t.j.log[u].kind = "close"
    BY <1>1, <1>2 DEF Room
  <2> QED
    BY <2>1, <2>2 DEF Room
<1> QED
  BY <1>2, <1>4, <1>5, <1>6, <1>7 DEF Good, Stays

(* Another branch is told the same: no entry belongs to this one.          *)
LEMMA RebindGood ==
    ASSUME NEW s, NEW O, Good(s, O), \A id \in Ids : s.hot[id] = Absent, NEW P, NEW t, StateInv(t), IsState(t),
           NEW scope \in Scopes, t.j = [s.j EXCEPT !.scope = scope], t.hot = NoHot, t.storage = s.storage
    PROVE  Good(t, P) /\ Quiet(s, t) /\ t.j.sealed = s.j.sealed
<1>1. s.j \in JournalType /\ Ledger(s.j) /\ Held(s) /\ Room(s.j) /\ OneMeaningIn(s)
  BY DEF Good, StateInv, JournalInv
<1>2. /\ t.j.log = s.j.log /\ t.j.walk = s.j.walk /\ t.j.count = s.j.count /\ t.j.used = s.j.used
      /\ t.j.epoch = s.j.epoch /\ t.j.sealed = s.j.sealed
  BY <1>1 DEF JournalType
<1>3. Tokens(t.j) = Tokens(s.j) /\ Live(t.j) = Live(s.j)
  BY <1>2 DEF Tokens, Live
<1>4. \A id \in Ids : t.hot[id] = Absent
  BY DEF NoHot
<1>5. Quiet(s, t)
  <2> SUFFICES ASSUME NEW k \in Keys PROVE ToldBy(t, k) = ToldBy(s, k)
    BY DEF Quiet
  <2>1. k[2] \in Ids
    BY DEF Keys
  <2>2. Found(t.j, k[2], {k[1]}) = Found(s.j, k[2], {k[1]})
    <3>1. FindsSame(s.j, t.j)
      BY <1>2, LogSame
    <3> QED
      BY <3>1 DEF FindsSame
  <2> QED
    BY <1>4, <2>1, <2>2 DEF ToldBy
<1>6. Ledger(t.j) /\ Held(t)
  <2>1. Ledger(t.j)
    BY <1>1, <1>2, LogSame
  <2>2. \A u : (IsReservation(t.j, u) <=> IsReservation(s.j, u)) /\ (Completed(t.j, u) <=> Completed(s.j, u))
    BY <1>2, LogSame
  <2> QED
    BY <1>1, <1>3, <2>1, <2>2 DEF Held
<1>7. Entries(t) /\ OpenOnly(t, P)
  BY <1>4 DEF Entries, OpenOnly
<1>8. OneMeaningIn(t)
  BY <1>1, <1>5 DEF OneMeaningIn, Quiet
<1>9. Room(t.j)
  BY <1>1, <1>2, <1>3 DEF Room
<1> QED
  BY <1>2, <1>5, <1>6, <1>7, <1>8, <1>9 DEF Good

(* Sealing tells nothing new.                                              *)
LEMMA SealGood ==
    ASSUME NEW s, NEW O, Good(s, O), NEW t, StateInv(t), IsState(t),
           t.j = [s.j EXCEPT !.sealed = TRUE], t.hot = s.hot, t.storage = s.storage
    PROVE  Good(t, O) /\ Quiet(s, t)
<1>1. /\ s.j \in JournalType /\ Ledger(s.j) /\ Held(s) /\ Room(s.j) /\ OneMeaningIn(s)
      /\ Entries(s) /\ OpenOnly(s, O)
  BY DEF Good, StateInv, JournalInv
<1>2. /\ t.j.log = s.j.log /\ t.j.walk = s.j.walk /\ t.j.count = s.j.count /\ t.j.used = s.j.used
      /\ t.j.epoch = s.j.epoch /\ t.j.scope = s.j.scope
  BY <1>1 DEF JournalType
<1>3. Tokens(t.j) = Tokens(s.j) /\ Live(t.j) = Live(s.j)
  BY <1>2 DEF Tokens, Live
<1>4. Quiet(s, t)
  <2>1. FindsSame(s.j, t.j)
    BY <1>2, LogSame
  <2> QED
    BY <1>2, <2>1 DEF Quiet, ToldBy, FindsSame
<1>5. Ledger(t.j) /\ Held(t)
  <2>1. Ledger(t.j)
    BY <1>1, <1>2, LogSame
  <2>2. \A u : (IsReservation(t.j, u) <=> IsReservation(s.j, u)) /\ (Completed(t.j, u) <=> Completed(s.j, u))
    BY <1>2, LogSame
  <2> QED
    BY <1>1, <1>3, <2>1, <2>2 DEF Held
<1>6. Entries(t) /\ OpenOnly(t, O)
  <2>1. OpenOnly(t, O)
    BY <1>1 DEF OpenOnly
  <2>2. ASSUME NEW id \in Ids, t.hot[id] # Absent PROVE Stands(t, id)
    <3>1. Stands(s, id)
      BY <1>1, <2>2 DEF Entries
    <3>2. \A u : IsReservation(t.j, u) <=> IsReservation(s.j, u)
      BY <1>2, LogSame
    <3> QED
      BY <1>2, <1>3, <3>1, <3>2 DEF Stands
  <2> QED
    BY <2>1, <2>2 DEF Entries
<1>7. OneMeaningIn(t)
  BY <1>1, <1>4 DEF OneMeaningIn, Quiet
<1>8. Room(t.j)
  BY <1>1, <1>2, <1>3 DEF Room
<1> QED
  BY <1>4, <1>5, <1>6, <1>7, <1>8 DEF Good

-----------------------------------------------------------------------------
(* Actions.                                                                *)

(* The admission of id, seen from the state before.                        *)
Bound(s, id, p) ==
    /\ Good(s, OpenIds \cup {id}) /\ Moves(Now, s, {id}) /\ Stays(Now, s)
    /\ s.hot[id] # Absent /\ s.hot[id].answer = NoAnswer
    /\ \A o \in Ids \ {id} : s.hot[o] = hot[o]
    /\ s.j.log[s.hot[id].token].kind = Kind(p)

(* A request that Request did not know is bound when the journal took it.  *)
LEMMA AdmissionGood ==
    ASSUME StoreInv, NEW id \in Ids, NEW p \in Payloads, Unknown(id, p), NEW s \in Admissions(id, p)
    PROVE  Bound(s, id, p)
<1>1. PICK down \in Faults : LET r == Reserve(j, id, p, down)
                             IN r.out = "ok" /\ s = Admitted(r.j, id, p)
  BY DEF Admissions
<1> DEFINE r == Reserve(j, id, p, down)
<1>2. /\ Inv /\ Good(Now, OpenIds) /\ j \in JournalType /\ j.adopt = 0 /\ Now.j = j /\ Now.hot = hot
      /\ Now.storage = storageFault
  BY DEF StoreInv, Inv, StateInv, JournalInv, Now, State
<1>3. /\ hot[id] = Absent /\ Fresh(j, id)
      /\ Found(j, id, Scopes \ {j.scope}) = NotFound \/ Found(j, id, Scopes \ {j.scope}).payload = p
  BY DEF Unknown, Fresh
<1>4. /\ StateInv(s) /\ s.hot[id] # Absent /\ s.hot[id].answer = NoAnswer
      /\ \A o \in Ids \ {id} : s.hot[o] = hot[o]
  BY <1>2, <1>3, AdmissionPreserves
<1>5. TookOne(j, id, p, r)
  BY <1>2, ReserveWrites
<1>6. r.out = "ok" /\ s = Admitted(r.j, id, p)
  BY <1>1
<1> HIDE DEF r
<1>7. s = [j |-> r.j, hot |-> [hot EXCEPT ![id] = [payload |-> p, answer |-> NoAnswer, token |-> Len(r.j.log)]],
           storage |-> storageFault]
  BY <1>6 DEF Admitted, State
<1>8. IsState(s) /\ Binds(Now, s, id, p) /\ s.j = r.j
  BY <1>2, <1>7 DEF IsState, Binds
<1>9. PICK f \in Files : ReservedIn(Now.j, s.j, f, id, p)
  BY <1>2, <1>5, <1>6, <1>8 DEF TookOne
<1>10. Good(s, OpenIds \cup {id}) /\ BoundTo(Now, s, id, p) /\ s.j.log[s.hot[id].token].kind = Kind(p)
  BY <1>2, <1>3, <1>4, <1>8, <1>9, AdmitGood
<1>11. Moves(Now, s, {id})
  BY <1>10, BoundMoves
<1>12. Stays(Now, s)
  BY <1>9 DEF Stays, ReservedIn, Wrote
<1> QED
  BY <1>4, <1>10, <1>11, <1>12 DEF Bound

(* What the abstract step needs: one key bound or none, or a new epoch.    *)
Ends ==
    /\ \A k \in Keys : ToldBy(Now', k) = NotFound
    /\ \A k \in Keys : ToldBy(Now, k) # NotFound /\ ToldBy(Now, k).answer = NoAnswer
                          => k[1] = j.scope /\ k[2] = pending
Step == Ends \/ \E id : Moves(Now, Now', {id})

(* A handler that installs a good state outside a close keeps StoreInv.    *)
LEMMA InstallGood ==
    ASSUME StoreInv, Inv', NEW s, Install(s), NEW P, Good(s, P), \A id \in Ids : id \in P => id \in OpenIds',
           NEW id, Moves(Now, s, {id}), Stays(Now, s), closing' = None, recordingClosed' = recordingClosed,
           pending' # None => s.hot[pending'].answer = NoAnswer,
           j.sealed => \A o \in Ids : s.hot[o] = Absent
    PROVE  StoreInv' /\ Step
<1>1. Now' = s
  BY DEF Now, State, Install, Good, IsState
<1>2. Good(Now', OpenIds')
  BY <1>1, GoodWider
<1>3. Step
  BY <1>1 DEF Step
<1>4. hot' = s.hot /\ j'.sealed = j.sealed
  BY DEF Install, Stays, Now, State
<1>5. j'.sealed => recordingClosed' /\ closing' = None /\ \A o \in Ids : hot'[o] = Absent
  BY <1>4 DEF StoreInv
<1>6. StoreInv'
  BY <1>2, <1>4, <1>5 DEF StoreInv
<1> QED
  BY <1>3, <1>6

(* What every action starts from.                                          *)
LEMMA StoreFacts ==
    ASSUME StoreInv
    PROVE  /\ Good(Now, OpenIds) /\ Now.j = j /\ Now.hot = hot /\ Now.storage = storageFault
           /\ j \in JournalType /\ j.adopt = 0 /\ IsState(Now)
           /\ pending \in Ids \cup {None} /\ closing \in Ids \cup {None}
           /\ pending # None => hot[pending] # Absent /\ hot[pending].answer = NoAnswer
           /\ closing # None => /\ hot[closing] # Absent /\ hot[closing].answer = NoAnswer
                                /\ pending = None /\ recordingClosed
           /\ j.sealed => recordingClosed /\ closing = None /\ \A id \in Ids : hot[id] = Absent
           /\ None \notin Ids /\ Replies \subseteq Answers
<1>1. Good(Now, OpenIds) /\ Now.j = j /\ Now.hot = hot /\ Now.storage = storageFault /\ IsState(Now)
  BY DEF StoreInv, Good, Now, State
<1>2. j \in JournalType /\ j.adopt = 0
  BY DEF StoreInv, Inv, StateInv, JournalInv, State
<1> QED
  BY <1>1, <1>2, ConstantsAssumption DEF StoreInv, Inv, Replies

(* The state in which a handler has noted a storage fault.                 *)
LEMMA FailedState ==
    ASSUME NEW jr, NEW h
    PROVE  [State(jr, h) EXCEPT !.storage = TRUE] = [j |-> jr, hot |-> h, storage |-> TRUE]
<1>1. ASSUME NEW x, NEW y
      PROVE  [[j |-> jr, hot |-> h, storage |-> x] EXCEPT !.storage = y] = [j |-> jr, hot |-> h, storage |-> y]
  OBVIOUS
<1> QED
  BY <1>1 DEF State

(* A refused request changes no record; a fault ends the pending one.      *)
LEMMA RefuseStep ==
    ASSUME StoreInv, Inv', NEW id \in Ids, NEW p \in Payloads, Refuse(id, p)
    PROVE  StoreInv' /\ Step
<1>1. closing = None /\ closing' = None /\ recordingClosed' = recordingClosed /\ ~recordingClosed
  BY DEF Refuse, Admissible
<1>2. PICK down \in Faults :
        LET r == Reserve(j, id, p, down)
            failed == [State(r.j, hot) EXCEPT !.storage = TRUE]
        IN \/ r.out = "capacity" /\ Install(State(r.j, hot)) /\ UNCHANGED pending
           \/ r.out = "error" /\ (\E dp \in Faults : Install(DropPending(failed, dp))) /\ pending' = None
  BY DEF Refuse
<1> DEFINE r == Reserve(j, id, p, down)
           kept == State(r.j, hot)
           failed == [State(r.j, hot) EXCEPT !.storage = TRUE]
<1>3. \/ r.out = "capacity" /\ Install(kept) /\ UNCHANGED pending
      \/ r.out = "error" /\ (\E dp \in Faults : Install(DropPending(failed, dp))) /\ pending' = None
  BY <1>2
<1>4. TookOne(j, id, p, r)
  BY StoreFacts, ReserveWrites
<1> HIDE DEF r
<1>5. Kept(j, r.j)
  BY <1>3, <1>4 DEF TookOne
<1>6. /\ kept.j = r.j /\ kept.hot = hot /\ kept.storage = storageFault /\ IsState(kept)
      /\ failed.j = r.j /\ failed.hot = hot /\ failed.storage = TRUE /\ IsState(failed)
  <2>1. failed = [j |-> r.j, hot |-> hot, storage |-> TRUE]
    BY FailedState
  <2> HIDE DEF failed
  <2> QED
    BY <2>1 DEF State, IsState
<1> HIDE DEF kept, failed
<1>7. /\ Good(Now, OpenIds) /\ Now.j = j /\ Now.hot = hot /\ Now.storage = storageFault
      /\ storageFault \in BOOLEAN
  BY StoreFacts DEF StoreInv, Inv, StateInv, State
<1>8. Good(kept, OpenIds) /\ Quiet(Now, kept) /\ Good(failed, OpenIds) /\ Quiet(Now, failed)
  <2>1. Good(kept, OpenIds) /\ Quiet(Now, kept)
    BY <1>5, <1>6, <1>7, KeptGood
  <2>2. Good(failed, OpenIds) /\ Quiet(Now, failed)
    BY <1>5, <1>6, <1>7, KeptGood
  <2> QED
    BY <2>1, <2>2
<1>9. Stays(Now, kept) /\ Stays(Now, failed)
  BY <1>5, <1>6, <1>7 DEF Stays, Kept
<1>10. ~j.sealed
  BY <1>1, StoreFacts
<1>11. CASE Install(kept) /\ UNCHANGED pending
  <2>1. Moves(Now, kept, {id})
    BY <1>8, QuietMoves
  <2>2. OpenIds' = OpenIds /\ (pending' # None => kept.hot[pending'].answer = NoAnswer)
    BY <1>1, <1>6, <1>11, StoreFacts DEF OpenIds
  <2> QED
    BY <1>1, <1>8, <1>9, <1>10, <1>11, <2>1, <2>2, InstallGood
<1>12. CASE (\E dp \in Faults : Install(DropPending(failed, dp))) /\ pending' = None
  <2>1. PICK dp \in Faults : Install(DropPending(failed, dp))
    BY <1>12
  <2> DEFINE t == DropPending(failed, dp)
  <2>2. /\ pending \in Ids \cup {None}
        /\ pending # None => failed.hot[pending] # Absent /\ failed.hot[pending].answer = NoAnswer
    BY <1>6, StoreFacts
  <2>3. Dropped(failed, t, OpenIds, {id})
    BY <1>8, <2>2, DropPendingGood, StoreFacts
  <2> HIDE DEF t
  <2>4. Good(t, OpenIds \ {pending}) /\ Moves(failed, t, {id}) /\ Stays(failed, t)
    BY <1>6, <2>3 DEF Dropped
  <2>5. Moves(Now, failed, {id})
    BY <1>8, QuietMoves
  <2>6. Moves(Now, t, {id}) /\ Stays(Now, t)
    BY <1>9, <2>4, <2>5, MovesTwice DEF Stays
  <2>7. \A o \in Ids : o \in OpenIds \ {pending} => o \in OpenIds'
    BY <1>1, StoreFacts DEF OpenIds
  <2>8. Install(t)
    BY <2>1 DEF t
  <2> QED
    BY <1>1, <1>10, <1>12, <2>4, <2>6, <2>7, <2>8, InstallGood
<1> QED
  BY <1>3, <1>11, <1>12

(* An accepted request becomes the one open entry.                         *)
LEMMA AcceptStep ==
    ASSUME StoreInv, Inv', NEW id \in Ids, NEW p \in Payloads, Accept(id, p)
    PROVE  StoreInv' /\ Step
<1>1. closing = None /\ closing' = None /\ recordingClosed' = recordingClosed /\ ~recordingClosed
      /\ Unknown(id, p) /\ pending = None /\ pending' = id
  BY DEF Accept, Admissible
<1>2. PICK s \in Admissions(id, p) : Install(s)
  BY DEF Accept
<1>3. Bound(s, id, p)
  BY <1>1, AdmissionGood
<1>4. \A o \in Ids : o \in OpenIds \cup {id} => o \in OpenIds'
  BY <1>1, StoreFacts DEF OpenIds
<1>5. ~j.sealed
  BY <1>1, StoreFacts
<1> QED
  BY <1>1, <1>2, <1>3, <1>4, <1>5, InstallGood DEF Bound

(* A request answered in its own call is bound and answered in one step.   *)
LEMMA AnswerStep ==
    ASSUME StoreInv, Inv', NEW id \in Ids, NEW p \in Payloads, NEW a \in Replies, Answer(id, p, a)
    PROVE  StoreInv' /\ Step
<1>1. closing = None /\ closing' = None /\ recordingClosed' = recordingClosed /\ ~recordingClosed
      /\ Unknown(id, p) /\ hot[id] = Absent
  BY DEF Answer, Admissible, Unknown
<1>2. PICK s \in Admissions(id, p), da \in Faults :
        LET t == Settle(s, id, a, da)
        IN /\ \E dp \in Faults : Install(DropPending(t, dp))
           /\ pending' = IF t.storage \/ t.j.fault THEN None ELSE pending
  BY DEF Answer
<1> DEFINE t == Settle(s, id, a, da)
<1>3. pending' = IF t.storage \/ t.j.fault THEN None ELSE pending
  BY <1>2
<1>4. PICK dp \in Faults : Install(DropPending(t, dp))
  BY <1>2
<1> DEFINE u == DropPending(t, dp)
           O == OpenIds \cup {id}
<1>5. Bound(s, id, p) /\ a \in Answers
  BY <1>1, AdmissionGood, StoreFacts
<1>6. Settled(s, t, O, id, {id})
  BY <1>5, SettleGood DEF Bound
<1> HIDE DEF t
<1>7. Good(t, O \ {id}) /\ Moves(s, t, {id}) /\ Stays(s, t) /\ \A o \in Ids \ {id} : t.hot[o] = hot[o]
  BY <1>5, <1>6 DEF Settled, Bound
<1>8. /\ pending \in Ids \cup {None}
      /\ pending # None => /\ t.hot[pending] = hot[pending]
                           /\ t.hot[pending] # Absent /\ t.hot[pending].answer = NoAnswer
  BY <1>1, <1>7, StoreFacts
<1>9. Dropped(t, u, O \ {id}, {id})
  <2>1. pending # None => t.hot[pending] # Absent /\ t.hot[pending].answer = NoAnswer
    BY <1>8
  <2>2. pending \in Ids \cup {None} /\ Good(t, O \ {id})
    BY <1>7, <1>8
  <2> HIDE DEF O
  <2> QED
    BY <2>1, <2>2, DropPendingGood
<1>10. Install(u)
  BY <1>4
<1> HIDE DEF u, O
<1>11. Moves(t, u, {id}) /\ Stays(t, u)
  BY <1>9 DEF Dropped
<1>12. Moves(Now, t, {id}) /\ Stays(Now, t)
  BY <1>5, <1>7, MovesTwice DEF Bound, Stays
<1>13. Moves(Now, u, {id}) /\ Stays(Now, u)
  BY <1>11, <1>12, MovesTwice DEF Stays
<1>14. ~j.sealed
  BY <1>1, StoreFacts
<1>15. CASE t.storage \/ t.j.fault
  <2>1. Good(u, (O \ {id}) \ {pending}) /\ pending' = None
    BY <1>3, <1>9, <1>15 DEF Dropped
  <2>2. \A o \in Ids : o \in (O \ {id}) \ {pending} => o \in OpenIds'
    BY <1>1, StoreFacts DEF OpenIds, O
  <2> QED
    BY <1>1, <1>10, <1>13, <1>14, <2>1, <2>2, InstallGood
<1>16. CASE ~(t.storage \/ t.j.fault)
  <2>1. Good(u, O \ {id}) /\ u = t /\ pending' = pending
    BY <1>3, <1>9, <1>16 DEF Dropped
  <2>2. \A o \in Ids : o \in O \ {id} => o \in OpenIds'
    BY <1>1, <2>1 DEF OpenIds, O
  <2>3. pending' # None => u.hot[pending'].answer = NoAnswer
    BY <1>8, <2>1
  <2>4. Good(u, O \ {id})
    BY <2>1
  <2> QED
    BY <1>1, <1>10, <1>13, <1>14, <2>2, <2>3, <2>4, InstallGood
<1> QED
  BY <1>15, <1>16

(* pause and cancel answer the pending request, then their own.            *)
LEMMA PauseStep ==
    ASSUME StoreInv, Inv', NEW id \in Ids, NEW p \in Payloads, NEW a \in Replies, Pause(id, p, a)
    PROVE  StoreInv' /\ Step
<1>1. closing = None /\ closing' = None /\ recordingClosed' = recordingClosed /\ ~recordingClosed
      /\ Unknown(id, p) /\ hot[id] = Absent /\ pending' = None
  BY DEF Pause, Admissible, Unknown
<1>2. PICK s \in Admissions(id, p), dp \in Faults, da \in Faults :
        Install(Settle(SettlePending(s, a, dp), id, a, da))
  BY DEF Pause
<1> DEFINE t == SettlePending(s, a, dp)
           u == Settle(t, id, a, da)
           O == OpenIds \cup {id}
<1>3. Bound(s, id, p) /\ a \in Answers
  BY <1>1, AdmissionGood, StoreFacts
<1>4. Good(s, O) /\ pending \in Ids \cup {None}
  BY <1>3, StoreFacts DEF Bound
<1>5. pending # None => s.hot[pending] # Absent /\ s.hot[pending].answer = NoAnswer
  BY <1>1, <1>3, StoreFacts DEF Bound
<1> HIDE DEF O
<1>6. Settled(s, t, O, pending, {id})
  BY <1>3, <1>4, <1>5, SettlePendingGood
<1>7. Install(u)
  BY <1>2
<1>8. Good(t, O \ {pending}) /\ Moves(s, t, {id}) /\ Stays(s, t) /\ t.hot[id] = s.hot[id]
  BY <1>1, <1>6, StoreFacts DEF Settled
<1>9. t.hot[id] # Absent /\ t.hot[id].answer = NoAnswer
  BY <1>3, <1>8 DEF Bound
<1> HIDE DEF t
<1>10. Settled(t, u, O \ {pending}, id, {id})
  BY <1>3, <1>8, <1>9, SettleGood
<1> HIDE DEF u
<1>11. Good(u, (O \ {pending}) \ {id}) /\ Moves(t, u, {id}) /\ Stays(t, u)
  BY <1>10 DEF Settled
<1>12. Moves(Now, t, {id}) /\ Stays(Now, t)
  BY <1>3, <1>8, MovesTwice DEF Bound, Stays
<1>13. Moves(Now, u, {id}) /\ Stays(Now, u)
  BY <1>11, <1>12, MovesTwice DEF Stays
<1>14. \A o \in Ids : o \in (O \ {pending}) \ {id} => o \in OpenIds'
  BY <1>1, StoreFacts DEF OpenIds, O
<1>15. ~j.sealed
  BY <1>1, StoreFacts
<1> QED
  BY <1>1, <1>7, <1>11, <1>13, <1>14, <1>15, InstallGood

(* The end of the pending request answers it and binds nothing.            *)
LEMMA FinishStep ==
    ASSUME StoreInv, Inv', NEW a \in Replies, FinishPending(a)
    PROVE  StoreInv' /\ Step
<1>1. closing = None /\ closing' = None /\ recordingClosed' = recordingClosed /\ pending # None /\ pending' = None
  BY DEF FinishPending
<1>2. PICK dp \in Faults : Install(SettlePending(State(j, hot), a, dp))
  BY DEF FinishPending
<1> DEFINE t == SettlePending(Now, a, dp)
<1>3. /\ Good(Now, OpenIds) /\ pending \in Ids \cup {None} /\ a \in Answers
      /\ pending # None => Now.hot[pending] # Absent /\ Now.hot[pending].answer = NoAnswer
  BY StoreFacts
<1>4. Install(t)
  BY <1>2 DEF Now
<1>5. Settled(Now, t, OpenIds, pending, {None})
  BY <1>3, SettlePendingGood
<1> HIDE DEF t
<1>6. Good(t, OpenIds \ {pending}) /\ Moves(Now, t, {None}) /\ Stays(Now, t)
  BY <1>5 DEF Settled
<1>7. \A o \in Ids : o \in OpenIds \ {pending} => o \in OpenIds'
  BY <1>1, StoreFacts DEF OpenIds
<1>8. ~j.sealed
  BY <1>1, StoreFacts
<1> QED
  BY <1>1, <1>4, <1>6, <1>7, <1>8, InstallGood

(* A stop that fails is bound and answered.                                *)
LEMMA StopFailsStep ==
    ASSUME StoreInv, Inv', NEW id \in Ids, NEW p \in Payloads, NEW a \in Replies, StopFails(id, p, a)
    PROVE  StoreInv' /\ Step
<1>1. closing = None /\ closing' = None /\ recordingClosed' = recordingClosed /\ ~recordingClosed
      /\ Unknown(id, p) /\ pending = None /\ pending' = None
  BY DEF StopFails, Admissible
<1>2. PICK s \in Admissions(id, p), da \in Faults : Install(Settle(s, id, a, da))
  BY DEF StopFails
<1> DEFINE t == Settle(s, id, a, da)
           O == OpenIds \cup {id}
<1>3. Bound(s, id, p) /\ a \in Answers
  BY <1>1, AdmissionGood, StoreFacts
<1>4. Settled(s, t, O, id, {id})
  BY <1>3, SettleGood DEF Bound
<1>5. Install(t)
  BY <1>2
<1> HIDE DEF t
<1>6. Good(t, O \ {id}) /\ Moves(s, t, {id}) /\ Stays(s, t)
  BY <1>4 DEF Settled
<1>7. Moves(Now, t, {id}) /\ Stays(Now, t)
  BY <1>3, <1>6, MovesTwice DEF Bound, Stays
<1>8. \A o \in Ids : o \in O \ {id} => o \in OpenIds'
  BY <1>1 DEF OpenIds
<1>9. ~j.sealed
  BY <1>1, StoreFacts
<1> HIDE DEF O
<1> QED
  BY <1>1, <1>5, <1>6, <1>7, <1>8, <1>9, InstallGood

(* A stop that begins is bound with a close reservation.                   *)
LEMMA StopBeginsStep ==
    ASSUME StoreInv, Inv', NEW id \in Ids, NEW p \in Payloads, StopBegins(id, p)
    PROVE  StoreInv' /\ Step
<1>1. /\ closing = None /\ closing' = id /\ recordingClosed' = TRUE /\ ~recordingClosed
      /\ Unknown(id, p) /\ pending = None /\ pending' = None /\ Class[p] = "close"
  BY DEF StopBegins, Admissible
<1>2. PICK s \in Admissions(id, p) : Install(s)
  BY DEF StopBegins
<1>3. Bound(s, id, p)
  BY <1>1, AdmissionGood
<1>4. /\ Good(s, OpenIds \cup {id}) /\ Moves(Now, s, {id}) /\ Stays(Now, s)
      /\ s.j.log[s.hot[id].token].kind = "close"
  BY <1>1, <1>3 DEF Bound, Kind
<1>5. Now' = s /\ j' = s.j /\ hot' = s.hot
  BY <1>2, <1>4 DEF Now, State, Install, Good, IsState
<1>6. Good(Now', OpenIds')
  <2>1. \A o \in Ids : o \in OpenIds \cup {id} => o \in OpenIds'
    BY <1>1, StoreFacts DEF OpenIds
  <2> QED
    BY <1>4, <1>5, <2>1, GoodWider
<1>7. ~j'.sealed
  BY <1>1, <1>4, <1>5, StoreFacts DEF Stays
<1>8. StoreInv'
  BY <1>1, <1>4, <1>5, <1>6, <1>7 DEF StoreInv
<1>9. Step
  BY <1>4, <1>5 DEF Step
<1> QED
  BY <1>8, <1>9

(* A failed lookup ends the pending request.                               *)
LEMMA LookupStep ==
    ASSUME StoreInv, Inv', NEW id \in Ids, LookupFails(id)
    PROVE  StoreInv' /\ Step
<1> DEFINE failed == [State(Faulted(j), hot) EXCEPT !.storage = TRUE]
<1>1. closing = None /\ closing' = None /\ recordingClosed' = recordingClosed /\ pending' = None
  BY DEF LookupFails
<1>2. PICK dp \in Faults : Install(DropPending(failed, dp))
  BY DEF LookupFails
<1>3. failed = [j |-> Faulted(j), hot |-> hot, storage |-> TRUE]
  BY FailedState
<1> DEFINE t == DropPending(failed, dp)
<1>4. Install(t)
  BY <1>2
<1> HIDE DEF failed
<1>5. failed.j = Faulted(j) /\ failed.hot = hot /\ failed.storage = TRUE /\ IsState(failed)
  BY <1>3 DEF IsState
<1>6. Kept(Now.j, failed.j) /\ failed.hot = Now.hot /\ Good(Now, OpenIds)
  BY <1>5, FlagsKept, StoreFacts
<1>7. Good(failed, OpenIds) /\ Quiet(Now, failed)
  BY <1>5, <1>6, KeptGood
<1>8. Stays(Now, failed) /\ Moves(Now, failed, {None})
  BY <1>6, <1>7, QuietMoves DEF Stays, Kept
<1>9. /\ pending \in Ids \cup {None}
      /\ pending # None => failed.hot[pending] # Absent /\ failed.hot[pending].answer = NoAnswer
  BY <1>5, StoreFacts
<1>10. Dropped(failed, t, OpenIds, {None})
  BY <1>7, <1>9, DropPendingGood
<1> HIDE DEF t
<1>11. Good(t, OpenIds \ {pending}) /\ Moves(failed, t, {None}) /\ Stays(failed, t)
  BY <1>5, <1>10 DEF Dropped
<1>12. Moves(Now, t, {None}) /\ Stays(Now, t)
  BY <1>8, <1>11, MovesTwice DEF Stays
<1>13. \A o \in Ids : o \in OpenIds \ {pending} => o \in OpenIds'
  BY <1>1, StoreFacts DEF OpenIds
<1>14. j.sealed => \A o \in Ids : t.hot[o] = Absent
  <2> SUFFICES ASSUME j.sealed PROVE \A o \in Ids : t.hot[o] = Absent
    OBVIOUS
  <2>1. pending = None /\ \A o \in Ids : hot[o] = Absent
    BY StoreFacts
  <2>2. t = failed
    BY <2>1 DEF t, DropPending, SettlePending
  <2> QED
    BY <1>5, <2>1, <2>2
<1> QED
  BY <1>1, <1>4, <1>11, <1>12, <1>13, <1>14, InstallGood

(* From m to t the entry e of id came back.                                *)
Restored(m, t, id, e) ==
    \A k \in Keys : /\ Key(m, id, k) => ToldBy(t, k) = [payload |-> e.payload, answer |-> e.answer]
                    /\ ~Key(m, id, k) => ToldBy(t, k) = ToldBy(m, k)
Recalls(m, id, e) ==
    \A k \in Keys : Key(m, id, k) => ToldBy(m, k) # NotFound /\ ToldBy(m, k).payload = e.payload

(* A close that fails after its completion was written keeps its entry.    *)
LEMMA RestoredGood ==
    ASSUME NEW m, NEW t, NEW O, Good(m, O), NEW id \in Ids, m.hot[id] = Absent, NEW e, e # Absent,
           e.answer # NoAnswer, StateInv(t), IsState(t), t.j = m.j, t.hot = [m.hot EXCEPT ![id] = e],
           t.storage = TRUE, e.token \in Tokens(m.j), IsReservation(m.j, e.token), m.j.log[e.token].id = id,
           m.j.log[e.token].scope = m.j.scope, m.j.log[e.token].epoch = m.j.epoch,
           m.j.log[e.token].body = e.payload,
           Recalls(m, id, e)
    PROVE  Good(t, O) /\ Restored(m, t, id, e)
<1>1. /\ m.hot \in [Ids -> EntryType] /\ Ledger(m.j) /\ Held(m) /\ Room(m.j) /\ OneMeaningIn(m)
      /\ Entries(m) /\ OpenOnly(m, O)
  BY DEF Good, StateInv, HotInv
<1>2. t.hot[id] = e /\ \A o \in Ids \ {id} : t.hot[o] = m.hot[o]
  BY <1>1
<1>3. Entries(t) /\ OpenOnly(t, O) /\ Held(t)
  <2>1. ASSUME NEW o \in Ids, t.hot[o] # Absent PROVE Stands(t, o)
    <3>1. CASE o = id
      BY <1>2, <3>1 DEF Stands
    <3>2. CASE o # id
      <4>1. Stands(m, o) /\ t.hot[o] = m.hot[o]
        BY <1>1, <1>2, <2>1, <3>2 DEF Entries
      <4> QED
        BY <4>1 DEF Stands
    <3> QED
      BY <3>1, <3>2
  <2>2. OpenOnly(t, O)
    BY <1>1, <1>2 DEF OpenOnly
  <2>3. Held(t)
    BY <1>1, <1>2 DEF Held
  <2> QED
    BY <2>1, <2>2, <2>3 DEF Entries
<1>4. ASSUME NEW k \in Keys
      PROVE  /\ Key(m, id, k) => ToldBy(t, k) = [payload |-> e.payload, answer |-> e.answer]
             /\ ~Key(m, id, k) => ToldBy(t, k) = ToldBy(m, k)
  <2>1. k[2] \in Ids
    BY DEF Keys
  <2> QED
    BY <1>2, <2>1 DEF Key, ToldBy
<1>5. \A k \in Keys : /\ ToldBy(t, k) # NotFound => ToldBy(m, k) # NotFound
                      /\ ToldBy(t, k).payload = ToldBy(m, k).payload
  BY <1>4 DEF Recalls
<1>6. OneMeaningIn(t)
  BY <1>1, <1>5 DEF OneMeaningIn
<1> QED
  BY <1>1, <1>3, <1>4, <1>6 DEF Good, Restored

(* A close that fails answers its request in RAM and frees the controller. *)
LEMMA CloseFailsStep ==
    ASSUME StoreInv, Inv', closing # None, NEW jr, CloseFails(jr), UNCHANGED <<pending, recordingClosed>>,
           Kept(j, jr) \/ \E f \in Files : CompletedIn(j, jr, f, hot[closing].token, Closed, FALSE)
    PROVE  StoreInv' /\ Step
<1> DEFINE e == [hot[closing] EXCEPT !.answer = Incomplete]
           p == hot[closing].payload
           tok == hot[closing].token
<1>1. /\ closing \in Ids /\ hot[closing] # Absent /\ hot[closing].answer = NoAnswer /\ pending = None
      /\ ~j.sealed /\ Incomplete \in Answers /\ Closed \in Answers /\ Good(Now, OpenIds)
      /\ Now.j = j /\ Now.hot = hot /\ Now.storage = storageFault /\ StateInv(Now)
      /\ hot \in [Ids -> EntryType] /\ JournalInv(j) /\ HotInv(j, hot) /\ Incomplete # NoAnswer
  BY StoreFacts, ConstantsAssumption DEF Good, StateInv, HotInv
<1>2. j' = jr /\ hot' = [hot EXCEPT ![closing] = e] /\ storageFault' = TRUE /\ closing' = None /\ pending' = None
  BY <1>1 DEF CloseFails
<1>3. e \in EntryType /\ e # Absent /\ e.token = tok
  BY <1>1, EntryAnswered
<1>4. e.answer = Incomplete /\ e.payload = p
  BY <1>1 DEF EntryType, Absent
<1> HIDE DEF e
<1>5. Now' = [j |-> jr, hot |-> [hot EXCEPT ![closing] = e], storage |-> TRUE]
  BY <1>2 DEF Now, State
<1>6. /\ IsState(Now') /\ Now'.j = jr /\ Now'.hot = [hot EXCEPT ![closing] = e] /\ Now'.storage = TRUE
      /\ StateInv(Now') /\ JournalInv(jr) /\ HotInv(jr, [hot EXCEPT ![closing] = e])
  <2>1. StateInv(Now')
    BY DEF Inv, Now
  <2> QED
    BY <1>5, <2>1 DEF IsState, StateInv
<1>7. tok \in Tokens(j) /\ Stands(Now, closing)
  BY <1>1, EntryFields DEF Good, Entries
<1>8. Good(Now', OpenIds \ {closing}) /\ AnsweredTo(Now, Now', closing, Incomplete) /\ ~jr.sealed
  <2>1. CASE Kept(j, jr)
    <3>1. Lingers(Now, Now', closing, Incomplete)
      BY <1>1, <1>6 DEF Lingers, e
    <3>2. Kept(Now.j, Now'.j)
      BY <1>1, <1>6, <2>1
    <3>3. Good(Now', OpenIds \ {closing}) /\ AnsweredTo(Now, Now', closing, Incomplete)
      BY <1>1, <1>6, <3>1, <3>2, LingersGood
    <3> QED
      BY <1>1, <2>1, <3>3 DEF Kept
  <2>2. ASSUME NEW f \in Files, CompletedIn(j, jr, f, tok, Closed, FALSE)
        PROVE  Good(Now', OpenIds \ {closing}) /\ AnsweredTo(Now, Now', closing, Incomplete) /\ ~jr.sealed
    <3> DEFINE m == [j |-> jr, hot |-> [hot EXCEPT ![closing] = Absent], storage |-> storageFault]
               O == OpenIds \ {closing}
    <3>1. IsState(m) /\ m.j = jr /\ m.hot = [hot EXCEPT ![closing] = Absent] /\ m.storage = storageFault
      BY DEF IsState
    <3> HIDE DEF m
    <3>2. Saved(Now, m, closing)
      BY <1>1, <3>1 DEF Saved
    <3>3. StateInv(m)
      <4>1. \A o \in Ids : m.hot[o] # Absent => m.hot[o] = [hot EXCEPT ![closing] = e][o]
        BY <1>1, <3>1
      <4>2. m.hot \in [Ids -> EntryType]
        BY <1>1, <3>1 DEF EntryType
      <4>3. HotInv(jr, m.hot)
        BY <1>6, <4>1, <4>2 DEF HotInv
      <4> QED
        BY <1>1, <1>6, <3>1, <4>3 DEF StateInv
    <3>4. CompletedIn(Now.j, m.j, f, Now.hot[closing].token, Closed, FALSE)
      BY <1>1, <2>2, <3>1
    <3>5. Good(m, O) /\ AnsweredTo(Now, m, closing, Closed)
      BY <1>1, <3>1, <3>2, <3>3, <3>4, SavedGood
    <3>6. Extends(j, jr) /\ ~jr.sealed
      <4>1. Wrote(j, jr, f, j.log[tok].id, Closed, "complete", tok)
        BY <2>2 DEF CompletedIn
      <4>2. j.log[tok].id = closing /\ tok \in Nat /\ Closed \in Payloads \cup Answers /\ j \in JournalType
        BY <1>1, <1>7 DEF Stands, JournalInv, Tokens
      <4>3. Grew(j, jr, Len(j.log) + 1, NewRecord(j, f, closing, Closed, "complete", tok))
        BY <1>1, <4>1, <4>2, WroteGrows
      <4>4. Len(j.log) \in Nat
        BY <4>2 DEF JournalType
      <4>5. /\ Len(jr.log) = Len(j.log) + 1 /\ \A u \in Tokens(j) : jr.log[u] = j.log[u]
        BY <4>3 DEF Grew
      <4>6. jr.scope = j.scope /\ jr.epoch = j.epoch /\ jr.sealed = j.sealed
        BY <4>1 DEF Wrote
      <4> QED
        BY <1>1, <4>4, <4>5, <4>6 DEF Extends
    <3>7. jr.log[tok] = j.log[tok] /\ jr.scope = j.scope /\ jr.epoch = j.epoch /\ tok \in Tokens(jr)
      <4>1. Len(j.log) \in Nat /\ Len(jr.log) \in Nat
        BY <1>1, <1>6 DEF JournalInv, JournalType
      <4> QED
        BY <1>7, <3>6, <4>1 DEF Extends, Tokens
    <3>8. /\ e.token \in Tokens(m.j) /\ IsReservation(m.j, e.token) /\ m.j.log[e.token].id = closing
          /\ m.j.log[e.token].scope = m.j.scope /\ m.j.log[e.token].epoch = m.j.epoch
          /\ m.j.log[e.token].body = e.payload
      BY <1>1, <1>3, <1>4, <1>7, <3>1, <3>7 DEF Stands, IsReservation
    <3>9. \A k \in Keys : Key(m, closing, k) <=> Key(Now, closing, k)
      BY <1>1, <3>1, <3>7 DEF Key
    <3>10. p \in Payloads
      BY <1>1, EntryFields
    <3>11. Recalls(m, closing, e)
      <4> SUFFICES ASSUME NEW k \in Keys, Key(m, closing, k)
                   PROVE  ToldBy(m, k) # NotFound /\ ToldBy(m, k).payload = e.payload
        BY DEF Recalls
      <4>1. ToldBy(m, k) = [payload |-> p, answer |-> Closed]
        BY <1>1, <3>5, <3>9 DEF AnsweredTo
      <4> QED
        BY <1>4, <3>10, <4>1, ConstantsAssumption DEF NotFound
    <3>12. m.hot[closing] = Absent /\ Now'.hot = [m.hot EXCEPT ![closing] = e] /\ Now'.j = m.j
      <4>1. [[hot EXCEPT ![closing] = Absent] EXCEPT ![closing] = e] = [hot EXCEPT ![closing] = e]
        BY <1>1
      <4> QED
        BY <1>1, <1>6, <3>1, <4>1
    <3> HIDE DEF O
    <3>13. Good(Now', O) /\ Restored(m, Now', closing, e)
      BY <1>1, <1>3, <1>4, <1>6, <3>5, <3>8, <3>11, <3>12, RestoredGood
    <3>14. AnsweredTo(Now, Now', closing, Incomplete)
      BY <1>1, <1>4, <3>5, <3>9, <3>13 DEF AnsweredTo, Restored
    <3> QED
      BY <3>6, <3>13, <3>14 DEF O
  <2> QED
    BY <2>1, <2>2
<1>9. Good(Now', OpenIds')
  <2>1. \A o \in Ids : o \in OpenIds \ {closing} => o \in OpenIds'
    BY <1>1, StoreFacts DEF OpenIds
  <2> QED
    BY <1>8, <2>1, GoodWider
<1>10. StoreInv'
  BY <1>2, <1>8, <1>9 DEF StoreInv
<1>11. Moves(Now, Now', {None})
  BY <1>1, <1>8, AnsweredMoves
<1> QED
  BY <1>10, <1>11 DEF Step

(* Saving an answer that lived in RAM tells nothing new.                   *)
LEMMA SaveStep ==
    ASSUME StoreInv, Inv', NEW old \in Ids, SaveRamOnly(old)
    PROVE  StoreInv' /\ Step
<1> DEFINE C(down) == CompleteIn(j, hot[old].token, hot[old].answer, TRUE, down)
           a == hot[old].answer
           tok == hot[closing].token
<1>1. /\ Good(Now, OpenIds) /\ Now.j = j /\ Now.hot = hot /\ Now.storage = storageFault /\ StateInv(Now)
      /\ j \in JournalType /\ JournalInv(j) /\ closing # None /\ closing \in Ids /\ hot[closing] # Absent
      /\ hot[closing].answer = NoAnswer /\ pending = None /\ ~j.sealed /\ recordingClosed
      /\ hot \in [Ids -> EntryType] /\ j.log[tok].kind = "close"
  BY StoreFacts DEF SaveRamOnly, Good, StateInv, HotInv, StoreInv
<1>2. hot[old] # Absent /\ old # closing /\ a # NoAnswer
  BY <1>1 DEF SaveRamOnly, RamOnly, Absent
<1>3. hot[old].token \in Tokens(j) /\ a \in Answers /\ tok \in Tokens(j)
  BY <1>1, <1>2, EntryFields
<1>4. PICK down \in Faults :
        \/ /\ C(down).ok
           /\ j' = C(down).j /\ hot' = [hot EXCEPT ![old] = Absent]
           /\ UNCHANGED <<storageFault, closing>>
        \/ ~C(down).ok /\ CloseFails(C(down).j)
  BY DEF SaveRamOnly
<1> DEFINE c == C(down)
<1>5. CompletedOne(j, hot[old].token, a, TRUE, c)
  BY <1>1, <1>3, CompleteWrites
<1>6. Extends(j, c.j)
  BY <1>1, <1>3, CompletePreserves
<1>7. \/ c.ok /\ j' = c.j /\ hot' = [hot EXCEPT ![old] = Absent] /\ UNCHANGED <<storageFault, closing>>
      \/ ~c.ok /\ CloseFails(c.j)
  BY <1>4
<1> HIDE DEF c, C
<1>8. UNCHANGED <<pending, recordingClosed>>
  BY DEF SaveRamOnly
<1>9. CASE c.ok /\ j' = c.j /\ hot' = [hot EXCEPT ![old] = Absent] /\ UNCHANGED <<storageFault, closing>>
  <2>1. Now' = [j |-> c.j, hot |-> [hot EXCEPT ![old] = Absent], storage |-> storageFault]
    BY <1>9 DEF Now, State
  <2>2. /\ IsState(Now') /\ Now'.j = c.j /\ Now'.hot = [hot EXCEPT ![old] = Absent]
        /\ Now'.storage = storageFault
    BY <2>1 DEF IsState
  <2>3. StateInv(Now')
    BY DEF Inv, Now
  <2>4. Saved(Now, Now', old)
    BY <1>1, <2>2 DEF Saved
  <2>5. PICK f \in Files : CompletedIn(j, c.j, f, hot[old].token, a, TRUE)
    BY <1>5, <1>9 DEF CompletedOne
  <2>6. CompletedIn(Now.j, Now'.j, f, Now.hot[old].token, a, TRUE)
    BY <1>1, <2>2, <2>5
  <2>7. \E u \in Tokens(Now.j) : Now.j.log[u].kind = "close"
    BY <1>1, <1>3
  <2>8. Good(Now', OpenIds \ {old}) /\ AnsweredTo(Now, Now', old, a)
    BY <1>1, <1>2, <1>3, <2>2, <2>3, <2>4, <2>6, <2>7, SavedGood
  <2>9. Good(Now', OpenIds')
    <3>1. \A o \in Ids : o \in OpenIds \ {old} => o \in OpenIds'
      BY <1>8, <1>9 DEF OpenIds
    <3> QED
      BY <2>8, <3>1, GoodWider
  <2>10. Quiet(Now, Now')
    <3> SUFFICES ASSUME NEW k \in Keys PROVE ToldBy(Now', k) = ToldBy(Now, k)
      BY DEF Quiet
    <3>1. CASE Key(Now, old, k)
      <4>1. ToldBy(Now', k) = [payload |-> hot[old].payload, answer |-> a]
        BY <1>1, <2>8, <3>1 DEF AnsweredTo
      <4>2. ToldBy(Now, k) = [payload |-> hot[old].payload, answer |-> a]
        BY <1>1, <1>2, <3>1 DEF Key, ToldBy
      <4> QED
        BY <4>1, <4>2
    <3>2. CASE ~Key(Now, old, k)
      BY <2>8, <3>2 DEF AnsweredTo
    <3> QED
      BY <3>1, <3>2
  <2>11. Step
    BY <2>10, QuietMoves DEF Step
  <2>12. hot'[closing] = hot[closing] /\ closing' = closing
    BY <1>1, <1>2, <1>9
  <2>13. j'.log[tok] = j.log[tok] /\ ~j'.sealed
    <3>1. Wrote(j, c.j, f, j.log[hot[old].token].id, a, "complete", hot[old].token)
      BY <2>5 DEF CompletedIn
    <3> QED
      BY <1>1, <1>3, <1>6, <1>9, <3>1 DEF Extends, Wrote
  <2>14. StoreInv'
    BY <1>1, <1>8, <2>9, <2>12, <2>13 DEF StoreInv
  <2> QED
    BY <2>11, <2>14
<1>10. CASE ~c.ok /\ CloseFails(c.j)
  <2>1. Kept(j, c.j)
    BY <1>5, <1>10 DEF CompletedOne
  <2> QED
    BY <1>1, <1>8, <1>10, <2>1, CloseFailsStep
<1> QED
  BY <1>7, <1>9, <1>10

(* Sealing answers the close; nothing is left in RAM.                      *)
LEMMA SealStep ==
    ASSUME StoreInv, Inv', Seal
    PROVE  StoreInv' /\ Step
<1> DEFINE C(down) == CompleteIn(j, hot[closing].token, Closed, FALSE, down)
           tok == hot[closing].token
<1>1. /\ Good(Now, OpenIds) /\ Now.j = j /\ Now.hot = hot /\ Now.storage = storageFault /\ StateInv(Now)
      /\ j \in JournalType /\ JournalInv(j) /\ closing # None /\ closing \in Ids /\ hot[closing] # Absent
      /\ hot[closing].answer = NoAnswer /\ pending = None /\ ~j.sealed /\ recordingClosed
      /\ hot \in [Ids -> EntryType] /\ Closed \in Answers /\ storageFault \in BOOLEAN
  BY StoreFacts, ConstantsAssumption DEF Seal, Good, StateInv, HotInv, StoreInv
<1>2. tok \in Tokens(j)
  BY <1>1, EntryFields
<1>3. PICK down \in Faults, sealOk \in BOOLEAN :
        \/ /\ C(down).ok /\ sealOk
           /\ j' = [C(down).j EXCEPT !.sealed = TRUE] /\ hot' = [hot EXCEPT ![closing] = Absent]
           /\ closing' = None /\ UNCHANGED storageFault
        \/ ~(C(down).ok /\ sealOk) /\ CloseFails(C(down).j)
  BY DEF Seal
<1> DEFINE c == C(down)
           m == Settle(Now, closing, Closed, down)
<1>4. CompletedOne(j, tok, Closed, FALSE, c)
  BY <1>1, <1>2, CompleteWrites
<1>5. m = [j |-> c.j,
           hot |-> [hot EXCEPT ![closing] = IF c.ok THEN Absent ELSE [@ EXCEPT !.answer = Closed]],
           storage |-> storageFault \/ ~c.ok]
  BY <1>1 DEF Settle
<1>6. \/ /\ c.ok
         /\ j' = [c.j EXCEPT !.sealed = TRUE] /\ hot' = [hot EXCEPT ![closing] = Absent]
         /\ closing' = None /\ UNCHANGED storageFault
      \/ CloseFails(c.j)
  BY <1>3
<1>7. Settled(Now, m, OpenIds, closing, {None})
  BY <1>1, SettleGood
<1> HIDE DEF c, C, m
<1>8. UNCHANGED <<pending, recordingClosed>>
  BY DEF Seal
<1>9. CASE /\ c.ok
           /\ j' = [c.j EXCEPT !.sealed = TRUE] /\ hot' = [hot EXCEPT ![closing] = Absent]
           /\ closing' = None /\ UNCHANGED storageFault
  <2>1. m.j = c.j /\ m.hot = [hot EXCEPT ![closing] = Absent] /\ m.storage = storageFault
    BY <1>1, <1>5, <1>9
  <2>2. Now' = [j |-> j', hot |-> hot', storage |-> storageFault']
    BY DEF Now, State
  <2>3. IsState(Now') /\ Now'.hot = m.hot /\ Now'.storage = m.storage /\ Now'.j = j'
    BY <1>9, <2>1, <2>2 DEF IsState
  <2>4. StateInv(Now')
    BY DEF Inv, Now
  <2>5. Good(m, OpenIds \ {closing}) /\ Moves(Now, m, {None})
    BY <1>7 DEF Settled
  <2>6. Now'.j = [m.j EXCEPT !.sealed = TRUE]
    BY <1>9, <2>1, <2>3
  <2>7. Good(Now', OpenIds \ {closing}) /\ Quiet(m, Now')
    BY <2>3, <2>4, <2>5, <2>6, SealGood
  <2>8. Moves(Now, Now', {None})
    BY <2>5, <2>7 DEF Moves, Quiet
  <2>9. Good(Now', OpenIds')
    <3>1. \A o \in Ids : o \in OpenIds \ {closing} => o \in OpenIds'
      BY <1>1, StoreFacts DEF OpenIds
    <3> QED
      BY <2>7, <3>1, GoodWider
  <2>10. \A o \in Ids : hot'[o] = Absent
    <3> SUFFICES ASSUME NEW o \in Ids, o # closing PROVE hot[o] = Absent
      BY <1>1, <1>9
    <3>1. hot[o].answer = NoAnswer
      BY DEF Seal, RamOnly
    <3>2. o \notin OpenIds
      BY <1>1, StoreFacts DEF OpenIds
    <3> QED
      BY <1>1, <3>1, <3>2 DEF Good, OpenOnly
  <2>11. StoreInv'
    BY <1>1, <1>8, <1>9, <2>9, <2>10 DEF StoreInv
  <2> QED
    BY <2>8, <2>11 DEF Step
<1>10. CASE CloseFails(c.j)
  <2>1. Kept(j, c.j) \/ \E f \in Files : CompletedIn(j, c.j, f, hot[closing].token, Closed, FALSE)
    BY <1>4 DEF CompletedOne
  <2> QED
    BY <1>1, <1>8, <1>10, <2>1, CloseFailsStep
<1> QED
  BY <1>6, <1>9, <1>10

(* The state in which a new epoch begins.                                  *)
LEMMA EpochState ==
    ASSUME NEW s, IsState(s)
    PROVE  [s EXCEPT !.j = NextEpoch(@), !.hot = NoHot] = [j |-> NextEpoch(s.j), hot |-> NoHot, storage |-> s.storage]
<1>1. s = [j |-> s.j, hot |-> s.hot, storage |-> s.storage]
  BY DEF IsState
<1>2. [s EXCEPT !.j = NextEpoch(@), !.hot = NoHot]
        = [[j |-> s.j, hot |-> s.hot, storage |-> s.storage] EXCEPT !.j = NextEpoch(s.j), !.hot = NoHot]
  BY <1>1
<1> DEFINE x == s.j
           y == s.hot
           z == s.storage
           e == NextEpoch(s.j)
           h == NoHot
           q == [[j |-> x, hot |-> y, storage |-> z] EXCEPT !.j = e]
<1> HIDE DEF x, y, z, e, h
<1>3. q = [j |-> e, hot |-> y, storage |-> z]
  OBVIOUS
<1>4. [[j |-> e, hot |-> y, storage |-> z] EXCEPT !.hot = h] = [j |-> e, hot |-> h, storage |-> z]
  OBVIOUS
<1>5. [[j |-> x, hot |-> y, storage |-> z] EXCEPT !.j = e, !.hot = h] = [q EXCEPT !.hot = h]
  OBVIOUS
<1>6. [[j |-> x, hot |-> y, storage |-> z] EXCEPT !.j = e, !.hot = h] = [j |-> e, hot |-> h, storage |-> z]
  BY <1>3, <1>4, <1>5
<1> QED
  BY <1>2, <1>6 DEF x, y, z, e, h

(* A boundary answers the pending request, or forgets everything.          *)
LEMMA BoundaryStep ==
    ASSUME StoreInv, Inv', NEW a \in Replies, Boundary(a)
    PROVE  StoreInv' /\ Step
<1>1. closing = None /\ closing' = None /\ recordingClosed' = recordingClosed /\ pending' = None
  BY DEF Boundary
<1>2. PICK dp \in Faults :
        LET s == SettlePending(State(j, hot), a, dp)
        IN Install(IF s.storage \/ s.j.fault THEN s
                   ELSE [s EXCEPT !.j = NextEpoch(@), !.hot = NoHot])
  BY DEF Boundary
<1> DEFINE s == SettlePending(Now, a, dp)
           n == [s EXCEPT !.j = NextEpoch(@), !.hot = NoHot]
<1>3. /\ Good(Now, OpenIds) /\ pending \in Ids \cup {None} /\ a \in Answers
      /\ pending # None => Now.hot[pending] # Absent /\ Now.hot[pending].answer = NoAnswer
  BY StoreFacts
<1>4. \/ (s.storage \/ s.j.fault) /\ Install(s)
      \/ ~(s.storage \/ s.j.fault) /\ Install(n)
  BY <1>2 DEF Now
<1>5. Settled(Now, s, OpenIds, pending, {None})
  BY <1>3, SettlePendingGood
<1>6. j.sealed => pending = None /\ \A o \in Ids : s.hot[o] = Absent
  BY StoreFacts DEF SettlePending
<1> HIDE DEF s
<1>7. Good(s, OpenIds \ {pending}) /\ Moves(Now, s, {None}) /\ Stays(Now, s)
  BY <1>5 DEF Settled
<1>8. \A o \in Ids : o \notin OpenIds \ {pending}
  BY <1>1, StoreFacts DEF OpenIds
<1>9. CASE (s.storage \/ s.j.fault) /\ Install(s)
  <2>1. \A o \in Ids : o \in OpenIds \ {pending} => o \in OpenIds'
    BY <1>8
  <2> QED
    BY <1>1, <1>6, <1>7, <1>9, <2>1, InstallGood
<1>10. CASE ~(s.storage \/ s.j.fault) /\ Install(n)
  <2>1. s.storage = FALSE /\ IsState(s)
    BY <1>7, <1>10 DEF Good, StateInv
  <2>2. n = [j |-> NextEpoch(s.j), hot |-> NoHot, storage |-> s.storage]
    BY <2>1, EpochState
  <2>3. \A o \in Ids : s.hot[o] = Absent
    BY <1>7, <1>8, <2>1, HealthyOpen
  <2> HIDE DEF n
  <2>4. Now' = [j |-> NextEpoch(s.j), hot |-> NoHot, storage |-> s.storage]
    BY <1>10, <2>2 DEF Now, State, Install
  <2>5. IsState(Now') /\ Now'.j = NextEpoch(s.j) /\ Now'.hot = NoHot /\ Now'.storage = s.storage
    BY <2>4 DEF IsState
  <2>6. StateInv(Now')
    BY DEF Inv, Now
  <2>7. Good(Now', OpenIds') /\ (\A k \in Keys : ToldBy(Now', k) = NotFound) /\ Stays(s, Now')
    BY <1>7, <2>3, <2>5, <2>6, EpochGood
  <2>8. hot' = NoHot /\ j' = Now'.j
    BY <2>4 DEF Now, State
  <2>9. j'.sealed => recordingClosed
    BY <1>7, <2>7, <2>8, StoreFacts DEF Stays
  <2>10. StoreInv'
    BY <1>1, <2>7, <2>8, <2>9 DEF StoreInv, NoHot
  <2>11. \A k \in Keys : ToldBy(Now, k) # NotFound /\ ToldBy(Now, k).answer = NoAnswer
                           => k[1] = j.scope /\ k[2] = pending
    <3> SUFFICES ASSUME NEW k \in Keys, ToldBy(Now, k) # NotFound, ToldBy(Now, k).answer = NoAnswer
                 PROVE  k[1] = j.scope /\ k[2] = pending
      OBVIOUS
    <3>1. k[1] = j.scope /\ k[2] \in OpenIds /\ k[2] \in Ids
      BY <1>3, OpenKeys, StoreFacts DEF Keys
    <3> QED
      BY <1>1, <3>1, StoreFacts DEF OpenIds
  <2> QED
    BY <2>7, <2>10, <2>11 DEF Step, Ends
<1> QED
  BY <1>4, <1>9, <1>10

(* A healthy runtime changes its branch without an entry to lose.          *)
LEMMA RebindStep ==
    ASSUME StoreInv, Inv', NEW scope \in Scopes, Rebind(scope)
    PROVE  StoreInv' /\ Step
<1>1. /\ closing = None /\ closing' = None /\ pending = None /\ pending' = None /\ ~recordingClosed
      /\ recordingClosed' = recordingClosed /\ storageFault' = storageFault /\ storageFault = FALSE
      /\ hot' = NoHot /\ j' = [j EXCEPT !.scope = scope]
  BY DEF Rebind, Healthy, StoreInv, Inv, StateInv, State
<1>2. Good(Now, OpenIds) /\ Now.j = j /\ Now.storage = FALSE
  BY <1>1, StoreFacts
<1>3. \A o \in Ids : Now.hot[o] = Absent
  <2>1. \A o \in Ids : o \notin OpenIds
    BY <1>1, StoreFacts DEF OpenIds
  <2> QED
    BY <1>2, <2>1, HealthyOpen
<1>4. Now' = [j |-> j', hot |-> NoHot, storage |-> FALSE]
  BY <1>1 DEF Now, State
<1>5. IsState(Now') /\ Now'.j = [Now.j EXCEPT !.scope = scope] /\ Now'.hot = NoHot /\ Now'.storage = Now.storage
  <2>1. IsState(Now') /\ Now'.j = j' /\ Now'.hot = NoHot /\ Now'.storage = FALSE
    BY <1>4 DEF IsState
  <2> QED
    BY <1>1, <1>2, <2>1
<1>6. StateInv(Now')
  BY DEF Inv, Now
<1>7. Good(Now', OpenIds') /\ Quiet(Now, Now') /\ Now'.j.sealed = j.sealed
  BY <1>2, <1>3, <1>5, <1>6, RebindGood
<1>8. ~j'.sealed
  BY <1>1, <1>4, <1>7, StoreFacts
<1>9. StoreInv'
  BY <1>1, <1>7, <1>8 DEF StoreInv
<1>10. Step
  BY <1>7, QuietMoves DEF Step
<1> QED
  BY <1>9, <1>10

(* The empty journal is good.                                              *)
LEMMA StoreInit == Init => StoreInv /\ \A k \in Keys : ToldBy(Now, k) = NotFound
<1> SUFFICES ASSUME Init PROVE StoreInv /\ \A k \in Keys : ToldBy(Now, k) = NotFound
  OBVIOUS
<1>1. Inv
  BY InitInv
<1>2. Now = [j |-> j, hot |-> hot, storage |-> storageFault]
  BY DEF Now, State
<1>3. IsState(Now) /\ Now.j = j /\ Now.hot = hot /\ Now.storage = storageFault /\ StateInv(Now)
  BY <1>1, <1>2 DEF IsState, Inv, Now
<1>4. /\ j.log = <<>> /\ j.walk = NoWalk /\ j.count = NoCount /\ j.used = NoCount /\ j.sealed = FALSE
      /\ hot = NoHot /\ pending = None /\ closing = None
  BY DEF Init, EmptyJournal
<1>5. Tokens(j) = {} /\ \A id \in Ids : hot[id] = Absent
  BY <1>4 DEF Tokens, NoHot
<1>6. Ledger(j) /\ Entries(Now) /\ Held(Now) /\ OpenOnly(Now, OpenIds)
  BY <1>3, <1>5 DEF Ledger, Entries, Held, OpenOnly
<1>7. Room(j)
  <2>1. j.count[Spare] = 0 /\ j.used[Spare] = 0 /\ Slots[Spare] \in Nat /\ Slots[Spare] > 0
        /\ Bytes[Spare] \in Nat /\ CloseBytes \in 0 .. Bytes[Spare]
    BY <1>4, ConstantsAssumption DEF NoCount, Files
  <2> QED
    BY <2>1 DEF Room
<1>8. \A k \in Keys : ToldBy(Now, k) = NotFound
  <2> SUFFICES ASSUME NEW k \in Keys PROVE ToldBy(Now, k) = NotFound
    OBVIOUS
  <2>1. k[2] \in Ids /\ BucketOf[k[2]] \in Buckets
    BY ConstantsAssumption DEF Keys
  <2>2. Matches(j, k[2], {k[1]}) = {}
    BY <1>4, <2>1 DEF Matches, Walk, NoWalk
  <2> QED
    BY <1>3, <1>5, <2>1, <2>2 DEF ToldBy, Found
<1>9. OneMeaningIn(Now)
  BY <1>8 DEF OneMeaningIn
<1>10. Good(Now, OpenIds)
  BY <1>3, <1>6, <1>7, <1>9 DEF Good
<1> QED
  BY <1>1, <1>4, <1>8, <1>10 DEF StoreInv

(* Every call keeps StoreInv and is a step of what retries are told.       *)
LEMMA StoreNext == StoreInv /\ [Next]_vars => StoreInv' /\ Step
<1> SUFFICES ASSUME StoreInv, [Next]_vars PROVE StoreInv' /\ Step
  OBVIOUS
<1>1. Inv'
  BY NextInv DEF StoreInv
<1>2. ASSUME NEW id \in Ids, NEW p \in Payloads,
             \/ Refuse(id, p)
             \/ Accept(id, p)
             \/ StopBegins(id, p)
             \/ \E a \in Replies : Answer(id, p, a) \/ Pause(id, p, a) \/ StopFails(id, p, a)
      PROVE  StoreInv' /\ Step
  BY <1>1, <1>2, RefuseStep, AcceptStep, StopBeginsStep, AnswerStep, PauseStep, StopFailsStep
<1>3. ASSUME NEW a \in Replies, FinishPending(a) \/ Boundary(a) PROVE StoreInv' /\ Step
  BY <1>1, <1>3, FinishStep, BoundaryStep
<1>4. ASSUME NEW id \in Ids, SaveRamOnly(id) \/ LookupFails(id) PROVE StoreInv' /\ Step
  BY <1>1, <1>4, SaveStep, LookupStep
<1>5. ASSUME Seal PROVE StoreInv' /\ Step
  BY <1>1, <1>5, SealStep
<1>6. ASSUME NEW scope \in Scopes, Rebind(scope) PROVE StoreInv' /\ Step
  BY <1>1, <1>6, RebindStep
<1>7. ASSUME UNCHANGED vars PROVE StoreInv' /\ Step
  <2>1. Now' = Now /\ OpenIds' = OpenIds
    BY <1>7 DEF vars, Now, State, OpenIds
  <2>2. Moves(Now, Now', {None})
    BY <2>1, QuietMoves DEF Quiet
  <2>3. Good(Now', OpenIds')
    BY <2>1 DEF StoreInv
  <2>4. StoreInv'
    BY <1>1, <1>7, <2>3 DEF StoreInv, vars
  <2> QED
    BY <2>2, <2>4 DEF Step
<1> QED
  BY <1>2, <1>3, <1>4, <1>5, <1>6, <1>7 DEF Next

(* StoreInv holds in every reachable state.                                *)
LEMMA StoreHolds == Spec => []StoreInv
<1>1. Init => StoreInv
  BY StoreInit
<1>2. StoreInv /\ [Next]_vars => StoreInv'
  BY StoreNext
<1> QED
  BY <1>1, <1>2, PTL DEF Spec

-----------------------------------------------------------------------------
(* Theorems                                                                *)

(* Once the archive is sealed, every reservation in it has its completion, *)
(* whatever faults came before: stop_recording saves what lived in RAM.    *)
THEOREM ArchiveComplete == Spec => []SealedComplete
<1>1. StoreInv => SealedComplete
  BY StoreFacts DEF SealedComplete, Good, Held
<1> QED
  BY <1>1, StoreHolds, PTL

(* No other traffic takes the reserve's last ID or its last CloseBytes, so *)
(* a stop_recording always finds room.                                     *)
THEOREM CloseFindsRoom == Spec => []CloseRoom
<1>1. StoreInv => CloseRoom
  BY StoreFacts DEF CloseRoom, Good, Room
<1> QED
  BY <1>1, StoreHolds, PTL

(* The empty table of promises.                                            *)
LEMMA TableInit == Init => Store!Init
<1> SUFFICES ASSUME Init PROVE Store!Init
  OBVIOUS
<1>1. \A k \in Scopes \X Ids : Told(k[1], k[2]) = NotFound
  BY StoreInit DEF ToldBy, Now, State, Told, Keys
<1> QED
  BY <1>1 DEF Store!Init, Store!EmptyTable, Store!Free, Store!Keys, NotFound

(* The table counts as FiniteSets does.                                    *)
LEMMA TableCounts == \A S : Store!Cardinality(S) = Cardinality(S)
  BY DEF Store!Cardinality, Cardinality

(* Every call is a step of the table: it serves, or begins an epoch.       *)
LEMMA TableNext == StoreInv /\ StoreInv' /\ Step => Store!Next
<1> SUFFICES ASSUME StoreInv, StoreInv', Step PROVE Store!Next
  OBVIOUS
<1> DEFINE T == [k \in Scopes \X Ids |-> Told(k[1], k[2])]
<1>1. \A k \in Keys : T[k] = ToldBy(Now, k) /\ T'[k] = ToldBy(Now', k)
  BY DEF Keys, ToldBy, Now, State, Told
<1>2. Store!Free = NotFound /\ Store!Keys = Keys
  BY DEF Store!Free, NotFound, Store!Keys, Keys
<1>3. ASSUME NEW id, Moves(Now, Now', {id}) PROVE Store!Serve
  <2>1. \A k \in Keys : Store!Forward(T[k], T'[k])
    <3> SUFFICES ASSUME NEW k \in Keys PROVE Store!Forward(ToldBy(Now, k), ToldBy(Now', k))
      BY <1>1
    <3>1. Onward(ToldBy(Now, k), ToldBy(Now', k))
      BY <1>3 DEF Moves
    <3> QED
      BY <1>2, <3>1 DEF Onward, Store!Forward, Store!Open
  <2>2. Cardinality({k \in Keys : T[k] = NotFound /\ T'[k] # NotFound}) <= 1
    <3> DEFINE N == {k \in Keys : T[k] = NotFound /\ T'[k] # NotFound}
               one == {<<j.scope, id>>}
    <3>1. ASSUME NEW k \in N PROVE k \in one
      <4>1. k \in Keys /\ ToldBy(Now, k) = NotFound /\ ToldBy(Now', k) # NotFound
        BY <1>1
      <4>2. k[1] = Now.j.scope /\ k[2] = id
        BY <1>3, <4>1 DEF Moves
      <4> QED
        BY <4>1, <4>2, StoreFacts DEF Keys
    <3>2. IsFiniteSet(one) /\ Cardinality(one) = 1
      BY FS_Singleton
    <3> HIDE DEF N, one
    <3>3. N \subseteq one
      BY <3>1
    <3>4. Cardinality(N) <= Cardinality(one)
      BY <3>2, <3>3, FS_Subset
    <3> QED
      BY <3>2, <3>4 DEF N
  <2>3. Store!OneMeaning(T')
    <3>1. OneMeaningIn(Now')
      BY DEF StoreInv, Good
    <3> SUFFICES ASSUME NEW s1 \in Scopes, NEW s2 \in Scopes, NEW i \in Ids,
                        T'[s1, i] # NotFound, T'[s2, i] # NotFound
                 PROVE  T'[s1, i].payload = T'[s2, i].payload
      BY <1>2 DEF Store!OneMeaning
    <3>2. <<s1, i>> \in Keys /\ <<s2, i>> \in Keys
      BY DEF Keys
    <3> QED
      BY <1>1, <3>1, <3>2 DEF OneMeaningIn
  <2>4. {k \in Keys : T[k] = NotFound /\ T'[k] # NotFound}
           = {k \in Store!Keys : T[k] = Store!Free /\ T'[k] # Store!Free}
    BY <1>2
  <2>5. Store!Cardinality({k \in Store!Keys : T[k] = Store!Free /\ T'[k] # Store!Free}) <= 1
    BY <2>2, <2>4, TableCounts
  <2> QED
    BY <1>2, <2>1, <2>3, <2>5 DEF Store!Serve
<1>4. ASSUME Ends PROVE Store!NewEpoch
  <2>1. T' = Store!EmptyTable
    BY <1>1, <1>2, <1>4 DEF Ends, Store!EmptyTable, Keys
  <2>2. Cardinality({k \in Keys : T[k] # NotFound /\ T[k].answer = NoAnswer}) <= 1
    <3> DEFINE N == {k \in Keys : T[k] # NotFound /\ T[k].answer = NoAnswer}
               one == {<<j.scope, pending>>}
    <3>1. ASSUME NEW k \in N PROVE k \in one
      <4>1. k \in Keys /\ ToldBy(Now, k) # NotFound /\ ToldBy(Now, k).answer = NoAnswer
        BY <1>1
      <4>2. k[1] = j.scope /\ k[2] = pending
        BY <1>4, <4>1 DEF Ends
      <4> QED
        BY <4>1, <4>2 DEF Keys
    <3>2. IsFiniteSet(one) /\ Cardinality(one) = 1
      BY FS_Singleton
    <3> HIDE DEF N, one
    <3>3. N \subseteq one
      BY <3>1
    <3>4. Cardinality(N) <= Cardinality(one)
      BY <3>2, <3>3, FS_Subset
    <3> QED
      BY <3>2, <3>4 DEF N
  <2>3. {k \in Keys : T[k] # NotFound /\ T[k].answer = NoAnswer} = {k \in Store!Keys : Store!Open(T[k])}
    BY <1>2 DEF Store!Open
  <2>4. Store!Cardinality({k \in Store!Keys : Store!Open(T[k])}) <= 1
    BY <2>2, <2>3, TableCounts
  <2> QED
    BY <2>1, <2>4 DEF Store!NewEpoch
<1> QED
  BY <1>3, <1>4 DEF Step, Store!Next

(* The runtime implements DedupStore: what a retry is told of an ID never  *)
(* changes within an epoch, an ID never means two things, and an epoch     *)
(* ends at most the one unanswered advancement.                            *)
THEOREM KeepsPromises == Spec => ImplementsStore
<1>1. StoreInv /\ [Next]_vars => Store!Next
  BY StoreNext, TableNext
<1> QED
  BY <1>1, TableInit, StoreHolds, PTL DEF Spec, ImplementsStore, Store!Spec

=============================================================================
