------------------------ MODULE EvaluationSuiteProofs ------------------------
(***************************************************************************)
(* The theorems about a whole suite (EvaluationSuite with its              *)
(* ColdWorkers), for any number of seeds, replays and faults: every replay *)
(* is accounted for once, one that passed was really made, and a suite     *)
(* that is reported ready is ready; and about the window observer that may *)
(* watch it.                                                               *)
(***************************************************************************)
EXTENDS EvaluationSuite, WindowObserver, FiniteSetTheorems, WellFoundedInduction, TLAPS

----------------------------------------------------------------------------
(* sequences without repetitions *)

Elements(s) == {s[i] : i \in DOMAIN s}
Distinct(s) == \A i, j \in DOMAIN s : s[i] = s[j] => i = j

(* The first of a queue leaves it for good.                                *)
LEMMA TailElements ==
    ASSUME NEW T, NEW s \in Seq(T), s # <<>>
    PROVE  /\ Head(s) \in T /\ Tail(s) \in Seq(T) /\ Len(Tail(s)) = Len(s) - 1
           /\ Head(s) \in Elements(s)
           /\ Elements(Tail(s)) \subseteq Elements(s)
           /\ Distinct(s) => Distinct(Tail(s)) /\ Elements(Tail(s)) = Elements(s) \ {Head(s)}
<1> DEFINE t == Tail(s)
<1>1. t \in Seq(T) /\ Len(t) = Len(s) - 1 /\ Len(s) \in Nat \ {0} /\ Head(s) = s[1]
  OBVIOUS
<1>2. \A i \in 1..Len(t) : t[i] = s[i + 1] /\ i + 1 \in 1..Len(s)
  BY <1>1
<1>3. DOMAIN t = 1..Len(t) /\ DOMAIN s = 1..Len(s) /\ 1 \in 1..Len(s)
  BY <1>1
<1>4. s[1] \in T /\ s[1] \in Elements(s)
  BY <1>3 DEF Elements
<1> HIDE DEF t
<1>5. Elements(t) \subseteq Elements(s)
  BY <1>2, <1>3 DEF Elements
<1>6. ASSUME Distinct(s) PROVE Distinct(t)
  BY <1>1, <1>2, <1>3, <1>6, SMT DEF Distinct
<1>7. ASSUME Distinct(s) PROVE Elements(t) = Elements(s) \ {s[1]}
  <2>1. ASSUME NEW x \in Elements(t) PROVE x # s[1]
    <3>1. PICK i \in 1..Len(t) : x = t[i]
      BY <1>3 DEF Elements
    <3> QED BY <3>1, <1>1, <1>2, <1>3, <1>7, SMT DEF Distinct
  <2>2. ASSUME NEW x \in Elements(s), x # s[1] PROVE x \in Elements(t)
    <3>1. PICK i \in 1..Len(s) : x = s[i]
      BY <1>3 DEF Elements
    <3>2. i - 1 \in 1..Len(t) /\ (i - 1) + 1 = i
      BY <3>1, <2>2, <1>1
    <3>3. t[i - 1] = x
      BY <3>1, <3>2, <1>2
    <3> QED BY <3>2, <3>3, <1>3 DEF Elements
  <2> QED BY <2>1, <2>2, <1>5
<1> QED BY <1>1, <1>4, <1>5, <1>6, <1>7 DEF t

(* A new element at the end.                                               *)
LEMMA AppendElements ==
    ASSUME NEW T, NEW s \in Seq(T), NEW x \in T
    PROVE  /\ Append(s, x) \in Seq(T) /\ Len(Append(s, x)) = Len(s) + 1
           /\ Append(s, x) # <<>>
           /\ DOMAIN Append(s, x) = (DOMAIN s) \cup {Len(s) + 1}
           /\ Append(s, x)[Len(s) + 1] = x
           /\ \A i \in DOMAIN s : Append(s, x)[i] = s[i]
           /\ Elements(Append(s, x)) = Elements(s) \cup {x}
           /\ Distinct(s) /\ x \notin Elements(s) => Distinct(Append(s, x))
<1> DEFINE t == Append(s, x)
<1>1. /\ t \in Seq(T) /\ Len(t) = Len(s) + 1 /\ Len(s) \in Nat
      /\ DOMAIN s = 1..Len(s) /\ DOMAIN t = 1..Len(t)
  OBVIOUS
<1>2. t[Len(s) + 1] = x /\ \A i \in 1..Len(s) : t[i] = s[i]
  BY <1>1
<1>3. t # <<>>
  BY <1>1
<1> HIDE DEF t
<1>4. DOMAIN t = (DOMAIN s) \cup {Len(s) + 1}
  BY <1>1
<1>5. Elements(t) = Elements(s) \cup {x}
  BY <1>1, <1>2, <1>4 DEF Elements
<1>6. ASSUME Distinct(s), x \notin Elements(s) PROVE Distinct(t)
  <2>1. ASSUME NEW i \in DOMAIN t, NEW j \in DOMAIN t, t[i] = t[j] PROVE i = j
    BY <2>1, <1>1, <1>2, <1>4, <1>6 DEF Distinct, Elements
  <2> QED BY <2>1 DEF Distinct
<1> QED BY <1>1, <1>2, <1>3, <1>4, <1>5, <1>6 DEF t

(* One of the running ones is taken out.                                   *)
LEMMA WithoutElements ==
    ASSUME NEW T, NEW s \in Seq(T), Distinct(s), NEW r \in Elements(s)
    PROVE  /\ Without(s, r) \in Seq(T) /\ Len(Without(s, r)) = Len(s) - 1
           /\ Distinct(Without(s, r)) /\ Elements(Without(s, r)) = Elements(s) \ {r}
<1> DEFINE t == Without(s, r)
<1>1. Len(s) \in Nat /\ DOMAIN s = 1..Len(s) /\ \A i \in 1..Len(s) : s[i] \in T
  OBVIOUS
<1>2. PICK k \in 1..Len(s) : s[k] = r
  BY <1>1 DEF Elements
<1>3. Len(s) - 1 \in Nat
  BY <1>1, <1>2
<1>4. ASSUME NEW i \in 1..(Len(s) - 1)
      PROVE  t[i] = IF k <= i THEN s[i + 1] ELSE s[i]
  <2>1. (\E j \in 1..i : s[j] = r) <=> k <= i
    BY <1>1, <1>2 DEF Distinct
  <2> QED BY <2>1 DEF Without
<1>5. \A i \in 1..(Len(s) - 1) : t[i] \in T
  BY <1>1, <1>2, <1>4
<1>6. t \in Seq(T) /\ Len(t) = Len(s) - 1 /\ DOMAIN t = 1..(Len(s) - 1)
  <2>1. t \in [1..(Len(s) - 1) -> T]
    BY <1>5 DEF Without
  <2> QED BY <2>1, <1>3
<1> HIDE DEF t
<1>7. Distinct(t)
  <2>1. ASSUME NEW i \in DOMAIN t, NEW j \in DOMAIN t, t[i] = t[j] PROVE i = j
    <3>1. \E m, n \in 1..Len(s) : /\ t[i] = s[m] /\ t[j] = s[n]
                                  /\ m = (IF k <= i THEN i + 1 ELSE i)
                                  /\ n = (IF k <= j THEN j + 1 ELSE j)
      BY <1>1, <1>2, <1>4, <1>6
    <3> QED BY <3>1, <2>1, <1>1, <1>2, <1>6 DEF Distinct
  <2> QED BY <2>1 DEF Distinct
<1>8. Elements(t) = Elements(s) \ {r}
  <2>1. ASSUME NEW x \in Elements(t) PROVE x \in Elements(s) /\ x # r
    <3>1. PICK i \in 1..(Len(s) - 1) : x = t[i]
      BY <1>6 DEF Elements
    <3>2. PICK m \in 1..Len(s) : x = s[m] /\ m # k
      BY <3>1, <1>1, <1>2, <1>4
    <3> QED BY <3>2, <1>1, <1>2 DEF Elements, Distinct
  <2>2. ASSUME NEW x \in Elements(s), x # r PROVE x \in Elements(t)
    <3>1. PICK m \in 1..Len(s) : x = s[m] /\ m # k
      BY <1>1, <1>2, <2>2 DEF Elements
    <3>2. CASE m < k
      <4>1. m \in 1..(Len(s) - 1) /\ t[m] = x
        BY <3>1, <3>2, <1>1, <1>2, <1>4
      <4> QED BY <4>1, <1>6 DEF Elements
    <3>3. CASE m > k
      <4>1. m - 1 \in 1..(Len(s) - 1) /\ k <= m - 1 /\ (m - 1) + 1 = m
        BY <3>1, <3>3, <1>1, <1>2
      <4>2. t[m - 1] = x
        BY <4>1, <3>1, <1>4
      <4> QED BY <4>1, <4>2, <1>6 DEF Elements
    <3> QED BY <3>1, <3>2, <3>3, <1>1, <1>2
  <2> QED BY <2>1, <2>2
<1> QED BY <1>6, <1>7, <1>8 DEF t

----------------------------------------------------------------------------
(* the workers of one case *)

Receipts == [passed : BOOLEAN, unchanged : BOOLEAN, written : BOOLEAN]
Workers == [proc : {"none", "waiting", "working", "sealing", "exiting", "exited"},
            armed : BOOLEAN, game : BOOLEAN, job : BOOLEAN, late : BOOLEAN,
            real : BOOLEAN, code : {0, 1}, receipt : Receipts]
Results == [repeat : Colds, passed : BOOLEAN]
Schedules == [phase : {"idle", "poll", "drain", "refill", "wait", "rest", "query", "done"},
              queue : Seq(Colds), running : Seq(Colds), toPoll : Seq(Colds),
              results : Seq(Results), started : SUBSET Colds,
              failed : BOOLEAN, primary : BOOLEAN]
ColdTypes ==
    /\ cold \in Schedules /\ hosts \in [Colds -> Workers]
    /\ kept \in BOOLEAN /\ faults \in 0..MaxFaults

(* A worker whose receipt claims a pass made the replay, and only an armed *)
(* one has a game; a genuine one is over, with its replay made.            *)
SoundHost(h) ==
    /\ h.receipt.passed => h.real
    /\ ~h.armed => ~h.game /\ h.proc # "working"
Genuine(h) == h.real /\ h.receipt.unchanged /\ h.code = 0 /\ ~h.game /\ h.proc = "exited"
Plays(h) == h.armed /\ (h.game \/ h.proc \in {"waiting", "working"})
Playing == {r \in Colds : Plays(hosts[r])}

ToPoll == Elements(cold.toPoll)

(* Every replay is in one place, and only the running ones are polled.     *)
Booked ==
    /\ Distinct(cold.queue) /\ Distinct(cold.running) /\ Distinct(cold.toPoll)
    /\ ToPoll \subseteq Flying
    /\ Waiting \cap Flying = {} /\ Waiting \cap Reported = {} /\ Reported \cap Flying = {}
    /\ Reported \cup Waiting \cup Flying = Colds
    /\ Len(cold.results) + Len(cold.queue) + Len(cold.running) = Repeats
    /\ Len(cold.running) <= 2

(* What the phase says of the rest, up to the verdict at the end.          *)
Phased ==
    /\ cold.phase \in {"idle", "query", "done"} => cold.running = <<>>
    /\ cold.phase \in {"wait", "rest"} => cold.running # <<>>
    /\ cold.phase \in {"drain", "rest"} => cold.failed
    /\ cold.phase = "query" => cold.failed \/ cold.queue = <<>>
    /\ cold.primary => cold.results # <<>> \/ cold.running # <<>>
    /\ cold.failed => cold.primary \/ ~AllCold
    /\ cold.phase = "done" /\ AllCold => cold.queue = <<>>

(* The workers agree with the books: the waiting have none, the ones that  *)
(* passed are genuine, and at most two play, all of them in flight until   *)
(* something fails.                                                        *)
Hosted ==
    /\ \A r \in Colds : SoundHost(hosts[r])
    /\ \A r \in Waiting : hosts[r] = NoHost
    /\ \A i \in DOMAIN cold.results : cold.results[i].passed => Genuine(hosts[cold.results[i].repeat])
    /\ ~cold.failed => Playing \subseteq Flying
    /\ Cardinality(Playing) <= 2

ColdInv == ColdTypes /\ Booked /\ Phased /\ Hosted

(* The replays are finite, and so are those whose worker plays.            *)
LEMMA ColdsFinite ==
    /\ IsFiniteSet(Colds) /\ Cardinality(Colds) = Repeats
    /\ \A S \in SUBSET Colds : IsFiniteSet(S) /\ Cardinality(S) \in Nat
<1>1. IsFiniteSet(1..Repeats) /\ Cardinality(1..Repeats) = Repeats
  BY ColdAssumption, FS_Interval
<1>2. ASSUME NEW S \in SUBSET Colds PROVE IsFiniteSet(S) /\ Cardinality(S) \in Nat
  BY <1>1, <1>2, FS_Subset, FS_CardinalityType DEF Colds
<1> QED BY <1>1, <1>2 DEF Colds

(* Fewer play, fewer games.                                                *)
LEMMA PlayingShrinks ==
    ASSUME NEW S \in SUBSET Colds, Cardinality(S) <= 2, NEW U \in SUBSET S
    PROVE  Cardinality(U) <= 2
<1>1. IsFiniteSet(S) /\ Cardinality(S) \in Nat /\ Cardinality(U) \in Nat
  BY ColdsFinite
<1>2. Cardinality(U) <= Cardinality(S)
  BY <1>1, FS_Subset
<1> QED BY <1>1, <1>2

(* What is asked of the new state of one worker that is alive: it is sound *)
(* and does not start to play.                                             *)
Proceeds(r, h) == h \in Workers /\ SoundHost(h) /\ (Plays(h) => Plays(hosts[r]))

(* Such a step of one worker keeps the agreement.                          *)
LEMMA HostMoves ==
    ASSUME ColdTypes, Hosted, NEW r \in Colds, Alive(r),
           NEW h, Proceeds(r, h), hosts' = [hosts EXCEPT ![r] = h], UNCHANGED cold
    PROVE  hosts' \in [Colds -> Workers] /\ Hosted'
<1>1. /\ hosts' \in [Colds -> Workers] /\ hosts'[r] = h
      /\ \A q \in Colds : q # r => hosts'[q] = hosts[q]
  BY DEF ColdTypes, Proceeds
<1>2. hosts[r] # NoHost /\ ~Genuine(hosts[r])
  BY DEF Alive, NoHost, Genuine
<1>3. \A q \in Colds : SoundHost(hosts'[q])
  BY <1>1 DEF Hosted, Proceeds
<1>4. Waiting \subseteq Colds
  BY DEF Waiting, ColdTypes, Schedules
<1>5. \A q \in Waiting : hosts'[q] = NoHost
  BY <1>1, <1>2, <1>4 DEF Hosted
<1>6. ASSUME NEW i \in DOMAIN cold.results, cold.results[i].passed
      PROVE  Genuine(hosts'[cold.results[i].repeat])
  <2>1. cold.results \in Seq(Results)
    BY DEF ColdTypes, Schedules
  <2>2. cold.results[i] \in Results
    BY <2>1
  <2>3. Genuine(hosts[cold.results[i].repeat])
    BY <1>6 DEF Hosted
  <2>4. cold.results[i].repeat \in Colds
    BY <2>2 DEF Results
  <2> QED BY <2>3, <2>4, <1>1, <1>2
<1> DEFINE now == {q \in Colds : Plays(hosts'[q])}
<1>7. now \subseteq Playing /\ Playing \in SUBSET Colds
  BY <1>1 DEF Playing, Proceeds
<1>8. Cardinality(now) <= 2
  <2> HIDE DEF now
  <2> QED BY <1>7, PlayingShrinks DEF Hosted
<1>9. Playing' = now
  BY DEF Playing
<1> QED BY <1>1, <1>3, <1>5, <1>6, <1>7, <1>8, <1>9 DEF Hosted, Waiting, Flying

(* The steps of the workers and of their surroundings leave the books.     *)
LEMMA OutsideKeepsInv ==
    ASSUME ColdInv, HostWorks \/ Touch \/ (\E r \in Colds : HostDies(r) \/ Expire(r))
    PROVE  ColdInv'
<1>1. UNCHANGED cold /\ kept' \in BOOLEAN /\ faults' \in 0..MaxFaults
  <2>1. UNCHANGED cold /\ (kept' = kept \/ kept' = FALSE) /\ (Well \/ Fault)
    BY DEF HostWorks, HostBegin, HostAttempt, HostSeal, HostExit, HostDies, Touch, Expire, Well
  <2>2. faults' \in 0..MaxFaults
    BY <2>1, ColdAssumption DEF ColdInv, ColdTypes, Fault, Well
  <2>3. kept' \in BOOLEAN
    BY <2>1 DEF ColdInv, ColdTypes
  <2> QED BY <2>1, <2>2, <2>3
<1>2. Booked' /\ Phased' /\ cold' \in Schedules
  <2>1. Booked'
    <3>1. Waiting' = Waiting /\ Flying' = Flying /\ Reported' = Reported /\ ToPoll' = ToPoll
      BY <1>1 DEF ToPoll, Waiting, Flying, Reported
    <3> QED BY <1>1, <3>1 DEF ColdInv, Booked
  <2>2. Phased'
    BY <1>1 DEF ColdInv, Phased, AllCold
  <2> QED BY <1>1, <2>1, <2>2 DEF ColdInv, ColdTypes
<1>3. CASE Touch
  <2>1. UNCHANGED hosts
    BY <1>3 DEF Touch
  <2>2. Hosted'
    BY <1>1, <2>1 DEF ColdInv, Hosted, Waiting, Flying, Playing
  <2> QED BY <1>1, <1>2, <2>1, <2>2 DEF ColdInv, ColdTypes
<1>4. CASE ~Touch
  <2>1. PICK r \in Colds : HostBegin(r) \/ HostAttempt(r) \/ HostSeal(r) \/ HostExit(r)
                           \/ HostDies(r) \/ Expire(r)
    BY <1>4 DEF HostWorks
  <2> DEFINE w == hosts[r]
  <2>2. w \in Workers /\ SoundHost(w)
    BY DEF ColdInv, ColdTypes, Hosted
  <2>3. Alive(r)
    BY <2>1 DEF HostBegin, HostAttempt, HostSeal, HostExit, HostDies, Expire, HostStep, Alive
  <2>4. \E h : Proceeds(r, h) /\ hosts' = [hosts EXCEPT ![r] = h]
    <3>1. CASE HostBegin(r)
      <4>1. PICK h \in {[w EXCEPT !.proc = "working", !.game = TRUE], [w EXCEPT !.proc = "sealing"]} :
                /\ hosts' = [hosts EXCEPT ![r] = h] /\ w.proc = "waiting"
                /\ h = [w EXCEPT !.proc = "sealing"] \/ w.armed
        BY <3>1 DEF HostBegin, HostStep
      <4>2. Proceeds(r, h)
        BY <4>1, <2>2 DEF Proceeds, SoundHost, Plays, Workers
      <4> QED BY <4>1, <4>2
    <3>2. CASE HostAttempt(r)
      <4>1. PICK h \in {[w EXCEPT !.proc = "sealing", !.game = FALSE, !.real = TRUE],
                        [w EXCEPT !.proc = "sealing", !.game = TRUE],
                        [w EXCEPT !.proc = "sealing", !.game = FALSE]} :
                hosts' = [hosts EXCEPT ![r] = h] /\ w.proc = "working"
        BY <3>2 DEF HostAttempt, HostStep
      <4>2. Proceeds(r, h)
        BY <4>1, <2>2 DEF Proceeds, SoundHost, Plays, Workers
      <4> QED BY <4>1, <4>2
    <3>3. CASE HostSeal(r)
      <4> DEFINE p == [passed |-> w.real /\ kept, unchanged |-> kept, written |-> TRUE]
                 h == [w EXCEPT !.proc = "exiting", !.receipt = p]
      <4>1. hosts' = [hosts EXCEPT ![r] = h] /\ w.proc = "sealing"
        BY <3>3 DEF HostSeal, HostStep
      <4>2. p \in Receipts /\ (p.passed => w.real)
        BY DEF Receipts, ColdInv, ColdTypes
      <4>3. Proceeds(r, h)
        BY <4>1, <4>2, <2>2 DEF Proceeds, SoundHost, Plays, Workers
      <4> QED BY <4>1, <4>3
    <3>4. CASE HostExit(r)
      <4>1. PICK c \in {0, 1} : hosts' = [hosts EXCEPT ![r] = [w EXCEPT !.proc = "exited", !.code = c]]
        BY <3>4 DEF HostExit, HostStep
      <4>2. Proceeds(r, [w EXCEPT !.proc = "exited", !.code = c])
        BY <2>2 DEF Proceeds, SoundHost, Plays, Workers
      <4> QED BY <4>1, <4>2
    <3>5. CASE HostDies(r)
      <4>1. hosts' = [hosts EXCEPT ![r] = [w EXCEPT !.proc = "exited", !.code = 1]]
        BY <3>5 DEF HostDies
      <4>2. Proceeds(r, [w EXCEPT !.proc = "exited", !.code = 1])
        BY <2>2 DEF Proceeds, SoundHost, Plays, Workers
      <4> QED BY <4>1, <4>2
    <3>6. CASE Expire(r)
      <4>1. hosts' = [hosts EXCEPT ![r] = [w EXCEPT !.late = TRUE]]
        BY <3>6 DEF Expire
      <4>2. Proceeds(r, [w EXCEPT !.late = TRUE])
        BY <2>2 DEF Proceeds, SoundHost, Plays, Workers
      <4> QED BY <4>1, <4>2
    <3> QED BY <2>1, <3>1, <3>2, <3>3, <3>4, <3>5, <3>6
  <2>5. hosts' \in [Colds -> Workers] /\ Hosted'
    BY <2>3, <2>4, <1>1, HostMoves DEF ColdInv
  <2> QED BY <1>1, <1>2, <2>5 DEF ColdInv, ColdTypes
<1> QED BY <1>3, <1>4

----------------------------------------------------------------------------
(* the scheduler *)

(* Whose results there are, and whether one of them is not a pass.         *)
Repeated(s) == {s[i].repeat : i \in DOMAIN s}
Marred(s) == \E i \in DOMAIN s : ~s[i].passed

(* What the types say of each part of the books.                           *)
LEMMA BookTypes ==
    ASSUME ColdTypes
    PROVE  /\ cold.queue \in Seq(Colds) /\ cold.running \in Seq(Colds) /\ cold.toPoll \in Seq(Colds)
           /\ cold.results \in Seq(Results)
           /\ cold.started \subseteq Colds /\ cold.failed \in BOOLEAN /\ cold.primary \in BOOLEAN
           /\ Waiting = Elements(cold.queue) /\ Flying = Elements(cold.running)
           /\ Reported = Repeated(cold.results) /\ (AllCold <=> ~Marred(cold.results))
           /\ Waiting \subseteq Colds /\ Flying \subseteq Colds
           /\ \A i \in DOMAIN cold.results : cold.results[i] \in Results
           /\ Len(cold.queue) \in Nat /\ Len(cold.running) \in Nat /\ Len(cold.results) \in Nat
<1>1. /\ cold.queue \in Seq(Colds) /\ cold.running \in Seq(Colds) /\ cold.toPoll \in Seq(Colds)
      /\ cold.results \in Seq(Results)
      /\ cold.started \subseteq Colds /\ cold.failed \in BOOLEAN /\ cold.primary \in BOOLEAN
  BY DEF ColdTypes, Schedules
<1>2. /\ Waiting = Elements(cold.queue) /\ Flying = Elements(cold.running)
      /\ Reported = Repeated(cold.results) /\ (AllCold <=> ~Marred(cold.results))
  BY DEF Waiting, Flying, Elements, Reported, Repeated, AllCold, Marred
<1>3. Waiting \subseteq Colds /\ Flying \subseteq Colds
  BY <1>1 DEF Waiting, Flying
<1>4. \A i \in DOMAIN cold.results : cold.results[i] \in Results
  BY <1>1
<1>5. Len(cold.queue) \in Nat /\ Len(cold.running) \in Nat /\ Len(cold.results) \in Nat
  BY <1>1
<1> QED BY <1>1, <1>2, <1>3, <1>4, <1>5

(* t is s with the result x added at its end.                              *)
Grown(s, x, t) ==
    /\ t \in Seq(Results) /\ t # <<>> /\ Len(t) = Len(s) + 1
    /\ Repeated(t) = Repeated(s) \cup {x.repeat}
    /\ Marred(t) <=> Marred(s) \/ ~x.passed
    /\ \A i \in DOMAIN t : t[i].passed =>
           (i \in DOMAIN s /\ s[i].passed /\ t[i] = s[i]) \/ t[i] = x

(* Appending a result does that.                                           *)
LEMMA ReportGrows ==
    ASSUME NEW s \in Seq(Results), NEW x \in Results
    PROVE  Grown(s, x, Append(s, x))
<1> DEFINE t == Append(s, x)
<1>1. /\ t \in Seq(Results) /\ Len(t) = Len(s) + 1 /\ t # <<>>
      /\ DOMAIN t = (DOMAIN s) \cup {Len(s) + 1} /\ t[Len(s) + 1] = x
      /\ \A i \in DOMAIN s : t[i] = s[i]
  BY AppendElements
<1> HIDE DEF t
<1>2. Repeated(t) = Repeated(s) \cup {x.repeat}
  BY <1>1 DEF Repeated
<1>3. Marred(t) <=> Marred(s) \/ ~x.passed
  BY <1>1 DEF Marred
<1>4. \A i \in DOMAIN t : t[i].passed =>
          (i \in DOMAIN s /\ s[i].passed /\ t[i] = s[i]) \/ t[i] = x
  BY <1>1
<1>5. Grown(s, x, t)
  BY <1>1, <1>2, <1>3, <1>4 DEF Grown
<1> QED BY <1>5 DEF t

(* At most two elements in a sequence of at most two.                      *)
LEMMA TwoElements ==
    ASSUME NEW T, NEW s \in Seq(T), Len(s) <= 2
    PROVE  IsFiniteSet(Elements(s)) /\ Cardinality(Elements(s)) <= 2
<1>1. IsFiniteSet({s[1]}) /\ Cardinality({s[1]}) = 1
  BY FS_Singleton
<1> DEFINE a == {s[1]}
           b == a \cup {s[2]}
<1>2. IsFiniteSet(b) /\ Cardinality(b) <= 2 /\ Cardinality(b) \in Nat
  <2> HIDE DEF a
  <2>1. IsFiniteSet(a) /\ Cardinality(a) = 1
    BY <1>1 DEF a
  <2>2. IsFiniteSet(b) /\ Cardinality(b) = IF s[2] \in a THEN Cardinality(a) ELSE Cardinality(a) + 1
    BY <2>1, FS_AddElement
  <2> QED BY <2>1, <2>2
<1>3. Elements(s) \in SUBSET b
  <2>1. Len(s) \in Nat /\ DOMAIN s = 1..Len(s)
    OBVIOUS
  <2> QED BY <2>1 DEF Elements
<1> HIDE DEF b
<1>4. IsFiniteSet(Elements(s)) /\ Cardinality(Elements(s)) <= Cardinality(b)
  BY <1>2, <1>3, FS_Subset
<1>5. Cardinality(Elements(s)) \in Nat
  BY <1>4, FS_CardinalityType
<1> QED BY <1>2, <1>4, <1>5

(* A worker that is still running is only crossed off the round.           *)
LEMMA PollPassesOn ==
    ASSUME ColdInv, cold.toPoll # <<>>, cold' = [cold EXCEPT !.toPoll = Tail(@)],
           UNCHANGED <<hosts, kept, faults>>
    PROVE  ColdInv'
<1>1. ColdTypes /\ Booked /\ Phased /\ Hosted
  BY DEF ColdInv
<1>2. /\ Tail(cold.toPoll) \in Seq(Colds) /\ Distinct(Tail(cold.toPoll))
      /\ Elements(Tail(cold.toPoll)) \subseteq ToPoll
  BY <1>1, BookTypes, TailElements DEF Booked, ToPoll
<1>3. /\ cold'.toPoll = Tail(cold.toPoll) /\ cold'.phase = cold.phase /\ cold'.queue = cold.queue
      /\ cold'.running = cold.running /\ cold'.results = cold.results
      /\ cold'.failed = cold.failed /\ cold'.primary = cold.primary
  BY <1>1 DEF ColdTypes, Schedules
<1>4. cold' \in Schedules
  BY <1>1, <1>2 DEF ColdTypes, Schedules
<1>5. Waiting' = Waiting /\ Flying' = Flying /\ Reported' = Reported /\ AllCold' = AllCold
  BY <1>3 DEF Waiting, Flying, Reported, AllCold
<1>6. Booked'
  BY <1>1, <1>2, <1>3, <1>5 DEF Booked, ToPoll
<1>7. Phased'
  BY <1>1, <1>3, <1>5 DEF Phased
<1>8. Hosted'
  <2>1. Playing' = Playing
    BY DEF Playing
  <2> QED BY <1>1, <1>3, <1>5, <2>1 DEF Hosted
<1> QED BY <1>1, <1>4, <1>6, <1>7, <1>8 DEF ColdInv, ColdTypes

(* However a worker's end is told, what is left of it is sound, and a pass *)
(* is only told of a genuine one.                                          *)
LEMMA FinishedLeaves ==
    ASSUME ColdTypes, Hosted, NEW r \in Colds, NEW passed \in BOOLEAN, Finished(r, passed)
    PROVE  /\ faults' \in 0..MaxFaults
           /\ \E h : Proceeds(r, h) /\ (passed => Genuine(h)) /\ hosts' = [hosts EXCEPT ![r] = h]
<1> DEFINE w == hosts[r]
<1>1. w \in Workers /\ SoundHost(w)
  BY DEF ColdTypes, Hosted
<1>2. faults' \in 0..MaxFaults
  <2>1. Well \/ Fault
    BY DEF Finished, Collect, Emergency
  <2> QED BY <2>1, ColdAssumption DEF ColdTypes, Well, Fault
<1>3. PICK h \in {w, JobClosed(w)} :
          /\ hosts' = [hosts EXCEPT ![r] = h]
          /\ passed => w.proc = "exited" /\ Verified(w) /\ h = JobClosed(w)
  <2>1. hosts = [hosts EXCEPT ![r] = w]
    BY DEF ColdTypes
  <2> QED BY <2>1 DEF Finished, Collect, Emergency
<1>4. Proceeds(r, w) /\ Proceeds(r, JobClosed(w))
  BY <1>1 DEF Proceeds, JobClosed, SoundHost, Plays, Workers
<1>5. passed => Genuine(h)
  BY <1>1, <1>3 DEF Verified, JobClosed, Genuine, SoundHost, Workers
<1> QED BY <1>2, <1>3, <1>4, <1>5

(* What collecting a worker changes in the books.                          *)
TakenOut(r, passed) ==
    cold' = [cold EXCEPT !.toPoll = Tail(@), !.running = Without(@, r),
                         !.results = Append(@, [repeat |-> r, passed |-> passed]),
                         !.failed = @ \/ ~passed]

(* A worker that ended is collected: out of the running ones, with its     *)
(* result.                                                                 *)
LEMMA PollCollects ==
    ASSUME ColdInv, cold.phase \in {"poll", "drain"}, cold.toPoll # <<>>,
           NEW r \in Colds, r = Head(cold.toPoll), NEW passed \in BOOLEAN, Finished(r, passed),
           TakenOut(r, passed), UNCHANGED kept
    PROVE  ColdInv'
<1>1. ColdTypes /\ Booked /\ Phased /\ Hosted
  BY DEF ColdInv
<1> USE <1>1
<1> DEFINE x == [repeat |-> r, passed |-> passed]
           t == Append(cold.results, x)
<1>2. /\ Tail(cold.toPoll) \in Seq(Colds) /\ Distinct(Tail(cold.toPoll))
      /\ Elements(Tail(cold.toPoll)) = ToPoll \ {r} /\ r \in ToPoll
  BY BookTypes, TailElements DEF Booked, ToPoll
<1>3. r \in Flying /\ r \notin Waiting /\ r \notin Reported
  BY <1>2 DEF Booked
<1>4. /\ Without(cold.running, r) \in Seq(Colds)
      /\ Len(Without(cold.running, r)) = Len(cold.running) - 1
      /\ Distinct(Without(cold.running, r))
      /\ Elements(Without(cold.running, r)) = Flying \ {r}
  BY <1>3, BookTypes, WithoutElements DEF Booked
<1>5. /\ t \in Seq(Results) /\ t # <<>> /\ Len(t) = Len(cold.results) + 1
      /\ Repeated(t) = Reported \cup {r} /\ (Marred(t) <=> ~AllCold \/ ~passed)
      /\ \A i \in DOMAIN t : t[i].passed =>
             \/ i \in DOMAIN cold.results /\ cold.results[i].passed /\ t[i] = cold.results[i]
             \/ t[i].repeat = r /\ passed
  <2>1. cold.results \in Seq(Results) /\ x \in Results /\ x.repeat = r /\ x.passed = passed
    BY BookTypes DEF Results
  <2>2. Reported = Repeated(cold.results) /\ (AllCold <=> ~Marred(cold.results))
    BY BookTypes
  <2> HIDE DEF x
  <2>3. Grown(cold.results, x, t)
    BY <2>1, ReportGrows
  <2> HIDE DEF t
  <2> QED BY <2>1, <2>2, <2>3 DEF Grown
<1>6. /\ cold'.toPoll = Tail(cold.toPoll) /\ cold'.phase = cold.phase /\ cold'.queue = cold.queue
      /\ cold'.running = Without(cold.running, r) /\ cold'.results = t
      /\ cold'.failed = (cold.failed \/ ~passed) /\ cold'.primary = cold.primary
      /\ cold'.started = cold.started
  BY DEF ColdTypes, Schedules, TakenOut
<1>7. cold' \in Schedules
  <2>1. (cold.failed \/ ~passed) \in BOOLEAN
    BY BookTypes
  <2> HIDE DEF t
  <2>2. cold' = [phase |-> cold.phase, queue |-> cold.queue, running |-> Without(cold.running, r),
                 toPoll |-> Tail(cold.toPoll), results |-> t, started |-> cold.started,
                 failed |-> (cold.failed \/ ~passed), primary |-> cold.primary]
    BY DEF ColdTypes, Schedules, TakenOut, t
  <2>3. cold.phase \in {"idle", "poll", "drain", "refill", "wait", "rest", "query", "done"}
    BY DEF ColdTypes, Schedules
  <2>4. cold.queue \in Seq(Colds) /\ cold.started \subseteq Colds /\ cold.primary \in BOOLEAN
    BY BookTypes
  <2>5. /\ t \in Seq(Results) /\ Tail(cold.toPoll) \in Seq(Colds)
        /\ Without(cold.running, r) \in Seq(Colds)
    BY <1>2, <1>4, <1>5
  <2> QED BY <2>1, <2>2, <2>3, <2>4, <2>5 DEF Schedules
<1> HIDE DEF t
<1>8. /\ Waiting' = Waiting /\ Flying' = Flying \ {r} /\ Reported' = Reported \cup {r}
      /\ ToPoll' = ToPoll \ {r}
  <2>1. Waiting' = Waiting /\ ToPoll' = ToPoll \ {r}
    BY <1>2, <1>6 DEF Waiting, ToPoll
  <2>2. Reported' = Reported \cup {r}
    BY <1>5, <1>6 DEF Reported, Repeated
  <2>3. Flying' = Elements(cold'.running)
    BY DEF Flying, Elements
  <2> QED BY <2>1, <2>2, <2>3, <1>4, <1>6
<1>9. Booked'
  <2>1. Distinct(cold'.queue) /\ Distinct(cold'.running) /\ Distinct(cold'.toPoll)
    BY <1>2, <1>4, <1>6 DEF Booked
  <2>2. Len(cold'.results) + Len(cold'.queue) + Len(cold'.running) = Repeats /\ Len(cold'.running) <= 2
    <3> DEFINE a == Len(cold.results)
               b == Len(cold.queue)
               c == Len(cold.running)
    <3>1. a + b + c = Repeats /\ c <= 2 /\ a \in Nat /\ b \in Nat /\ c \in Nat
      BY BookTypes DEF Booked
    <3>2. Len(cold'.results) = a + 1 /\ Len(cold'.queue) = b /\ Len(cold'.running) = c - 1
      BY <1>4, <1>5, <1>6
    <3> HIDE DEF a, b, c
    <3> QED BY <3>1, <3>2
  <2> QED BY <2>1, <2>2, <1>3, <1>8 DEF Booked
<1>10. ~AllCold' <=> ~AllCold \/ ~passed
  BY <1>5, <1>6 DEF AllCold, Marred
<1>11. Phased'
  BY <1>5, <1>6, <1>10 DEF Phased
<1>12. PICK h : Proceeds(r, h) /\ (passed => Genuine(h)) /\ hosts' = [hosts EXCEPT ![r] = h]
  BY FinishedLeaves
<1>13. /\ hosts' \in [Colds -> Workers] /\ hosts'[r] = h
       /\ \A q \in Colds : q # r => hosts'[q] = hosts[q]
  BY <1>12 DEF ColdTypes, Proceeds
<1>14. Hosted'
  <2>1. \A q \in Colds : SoundHost(hosts'[q])
    BY <1>12, <1>13 DEF Hosted, Proceeds
  <2>2. \A q \in Waiting : hosts'[q] = NoHost
    BY <1>3, <1>13, BookTypes DEF Hosted
  <2>3. ASSUME NEW i \in DOMAIN t, t[i].passed PROVE Genuine(hosts'[t[i].repeat])
    <3>1. CASE t[i].repeat = r /\ passed
      BY <3>1, <1>12, <1>13
    <3>2. CASE i \in DOMAIN cold.results /\ cold.results[i].passed /\ t[i] = cold.results[i]
      <4>1. Genuine(hosts[t[i].repeat])
        BY <3>2 DEF Hosted
      <4>2. t[i].repeat \in Colds /\ t[i].repeat \in Reported
        BY <3>2, BookTypes DEF Reported, Results
      <4> QED BY <4>1, <4>2, <1>3, <1>13
    <3> QED BY <2>3, <3>1, <3>2, <1>5
  <2> DEFINE now == {q \in Colds : Plays(hosts'[q])}
  <2>4. now \subseteq Playing /\ Playing \in SUBSET Colds
    BY <1>12, <1>13 DEF Playing, Proceeds
  <2>5. passed => r \notin now
    BY <1>12, <1>13 DEF Genuine, Plays
  <2>6. Playing' = now
    BY DEF Playing
  <2> HIDE DEF now
  <2>7. Cardinality(now) <= 2
    BY <2>4, PlayingShrinks DEF Hosted
  <2>8. ~cold'.failed => now \subseteq Flying'
    BY <1>6, <1>8, <2>4, <2>5 DEF Hosted
  <2> QED BY <2>1, <2>2, <2>3, <2>6, <2>7, <2>8, <1>6, <1>8 DEF Hosted
<1>15. faults' \in 0..MaxFaults /\ kept' \in BOOLEAN
  BY FinishedLeaves DEF ColdTypes
<1> QED BY <1>7, <1>9, <1>11, <1>13, <1>14, <1>15 DEF ColdInv, ColdTypes

(* Each worker of a round.                                                 *)
LEMMA PollKeepsInv ==
    ASSUME ColdInv, PollOne
    PROVE  ColdInv'
<1>1. PICK r : r = Head(cold.toPoll)
  OBVIOUS
<1>2. r \in Colds
  BY <1>1, BookTypes, TailElements DEF PollOne, ColdInv
<1>3. CASE StillRunning(r) /\ cold' = [cold EXCEPT !.toPoll = Tail(@)] /\ UNCHANGED <<hosts, faults>>
  BY <1>3, PollPassesOn DEF PollOne
<1>4. CASE \E passed \in BOOLEAN :
             Finished(r, passed) /\ TakenOut(r, passed)
  <2>1. cold.phase \in {"poll", "drain"} /\ cold.toPoll # <<>> /\ UNCHANGED kept
    BY DEF PollOne
  <2>2. PICK passed \in BOOLEAN :
            Finished(r, passed) /\ TakenOut(r, passed)
    BY <1>4
  <2> QED BY <1>1, <1>2, <2>1, <2>2, PollCollects
<1> QED BY <1>1, <1>3, <1>4 DEF PollOne, TakenOut

Stages == {"idle", "poll", "drain", "refill", "wait", "rest", "query", "done"}
TurnsTo(p) == cold' = [cold EXCEPT !.phase = p]

(* A step of the phase alone leaves the books and the workers.             *)
LEMMA PhaseTurns ==
    ASSUME ColdInv, NEW p \in Stages, TurnsTo(p), UNCHANGED <<hosts, kept>>, faults' \in 0..MaxFaults
    PROVE  /\ ColdTypes' /\ Booked' /\ Hosted' /\ cold'.phase = p
           /\ cold'.queue = cold.queue /\ cold'.running = cold.running
           /\ cold'.results = cold.results /\ cold'.failed = cold.failed
           /\ cold'.primary = cold.primary /\ AllCold' = AllCold
<1>1. ColdTypes /\ Booked /\ Hosted
  BY DEF ColdInv
<1>2. /\ cold'.toPoll = cold.toPoll /\ cold'.phase = p /\ cold'.queue = cold.queue
      /\ cold'.running = cold.running /\ cold'.results = cold.results
      /\ cold'.failed = cold.failed /\ cold'.primary = cold.primary
  BY <1>1 DEF ColdTypes, Schedules, TurnsTo
<1>3. ColdTypes'
  BY <1>1 DEF ColdTypes, Schedules, TurnsTo, Stages
<1>4. /\ Waiting' = Waiting /\ Flying' = Flying /\ Reported' = Reported /\ AllCold' = AllCold
      /\ ToPoll' = ToPoll
  BY <1>2 DEF Waiting, Flying, Reported, AllCold, ToPoll
<1>5. Booked'
  BY <1>1, <1>2, <1>4 DEF Booked
<1>6. Hosted'
  <2>1. Playing' = Playing
    BY DEF Playing
  <2> QED BY <1>1, <1>2, <1>4, <2>1 DEF Hosted
<1> QED BY <1>2, <1>3, <1>4, <1>5, <1>6

(* A sequence of length 0 is empty.                                        *)
LEMMA NoneLeft ==
    ASSUME NEW T, NEW s \in Seq(T)
    PROVE  (Len(s) = 0 <=> s = <<>>) /\ (Elements(s) = {} <=> s = <<>>)
<1>1. DOMAIN s = 1..Len(s) /\ Len(s) \in Nat /\ (Len(s) = 0 <=> s = <<>>)
  OBVIOUS
<1>2. CASE s = <<>>
  BY <1>1, <1>2 DEF Elements
<1>3. CASE s # <<>>
  <2>1. 1 \in DOMAIN s
    BY <1>1, <1>3
  <2>2. s[1] \in Elements(s)
    BY <2>1 DEF Elements
  <2> QED BY <1>1, <1>3, <2>2
<1> QED BY <1>1, <1>2, <1>3

(* The round is over.                                                      *)
LEMMA PassEndsKeepsInv ==
    ASSUME ColdInv, PassEnds
    PROVE  ColdInv'
<1>1. PICK p \in {"refill", "query", "rest"} :
          /\ TurnsTo(p)
          /\ p = "query" => cold.phase = "drain" /\ cold.running = <<>>
          /\ p = "rest" => cold.phase = "drain" /\ cold.running # <<>>
  BY DEF PassEnds, TurnsTo
<1>2. UNCHANGED <<hosts, kept>> /\ faults' \in 0..MaxFaults
  BY DEF PassEnds, ColdInv, ColdTypes
<1>3. /\ ColdTypes' /\ Booked' /\ Hosted' /\ cold'.phase = p
      /\ cold'.queue = cold.queue /\ cold'.running = cold.running
      /\ cold'.results = cold.results /\ cold'.failed = cold.failed
      /\ cold'.primary = cold.primary /\ AllCold' = AllCold
  BY <1>1, <1>2, PhaseTurns DEF Stages
<1>4. Phased
  BY DEF ColdInv
<1>5. Phased'
  BY <1>1, <1>3, <1>4 DEF Phased
<1> QED BY <1>3, <1>5 DEF ColdInv

(* Nothing to start: the loop waits for the running ones, or ends.         *)
LEMMA SettleKeepsInv ==
    ASSUME ColdInv, Settle
    PROVE  ColdInv'
<1>1. PICK p \in {"wait", "query"} :
          /\ TurnsTo(p) /\ cold.phase = "refill" /\ ~Vacancy
          /\ p = "query" => cold.running = <<>>
          /\ p = "wait" => cold.running # <<>>
  BY DEF Settle, TurnsTo
<1>2. UNCHANGED <<hosts, kept>> /\ faults' \in 0..MaxFaults
  BY DEF Settle, ColdInv, ColdTypes
<1>3. /\ ColdTypes' /\ Booked' /\ Hosted' /\ cold'.phase = p
      /\ cold'.queue = cold.queue /\ cold'.running = cold.running
      /\ cold'.results = cold.results /\ cold'.failed = cold.failed
      /\ cold'.primary = cold.primary /\ AllCold' = AllCold
  BY <1>1, <1>2, PhaseTurns DEF Stages
<1>4. Phased
  BY DEF ColdInv
<1>5. cold.running = <<>> => cold.failed \/ cold.queue = <<>>
  BY <1>1 DEF Vacancy
<1>6. Phased'
  BY <1>1, <1>3, <1>4, <1>5 DEF Phased
<1> QED BY <1>3, <1>6 DEF ColdInv

(* A new round over the running ones, perhaps after an interrupt.          *)
LEMMA SleepKeepsInv ==
    ASSUME ColdInv, Sleep
    PROVE  ColdInv'
<1>1. ColdTypes /\ Booked /\ Phased /\ Hosted
  BY DEF ColdInv
<1>2. PICK p \in {"poll", "drain"}, f \in BOOLEAN, q \in BOOLEAN :
          /\ cold' = [[cold EXCEPT !.phase = p, !.toPoll = cold.running]
                         EXCEPT !.failed = f, !.primary = q]
          /\ cold.phase \in {"wait", "rest"}
          /\ (f = cold.failed /\ q = cold.primary) \/ (f /\ q)
          /\ p = "drain" => f
  <2>1. CASE cold.phase = "wait" /\ cold' = Poll("poll")
    <3>1. cold' = [[cold EXCEPT !.phase = "poll", !.toPoll = cold.running]
                         EXCEPT !.failed = cold.failed, !.primary = cold.primary]
      BY <1>1, <2>1 DEF Poll, ColdTypes, Schedules
    <3> QED BY <1>1, <2>1, <3>1, BookTypes
  <2>2. CASE cold.phase = "rest" /\ cold' = Poll("drain")
    <3>1. cold' = [[cold EXCEPT !.phase = "drain", !.toPoll = cold.running]
                         EXCEPT !.failed = cold.failed, !.primary = cold.primary]
      BY <1>1, <2>2 DEF Poll, ColdTypes, Schedules
    <3> QED BY <1>1, <2>2, <3>1, BookTypes DEF Phased
  <2>3. CASE cold.phase \in {"wait", "rest"} /\ cold' = [Poll("drain") EXCEPT !.failed = TRUE, !.primary = TRUE]
    BY <2>3 DEF Poll
  <2> QED BY <2>1, <2>2, <2>3 DEF Sleep
<1>3. /\ cold'.toPoll = cold.running /\ cold'.phase = p /\ cold'.queue = cold.queue
      /\ cold'.running = cold.running /\ cold'.results = cold.results
      /\ cold'.failed = f /\ cold'.primary = q
  BY <1>1, <1>2 DEF ColdTypes, Schedules
<1>4. cold' \in Schedules
  BY <1>1, <1>2 DEF ColdTypes, Schedules
<1>5. kept' \in BOOLEAN /\ UNCHANGED hosts /\ faults' \in 0..MaxFaults
  BY <1>1, ColdAssumption DEF Sleep, Well, Fault, ColdTypes
<1>6. ColdTypes'
  BY <1>1, <1>4, <1>5 DEF ColdTypes
<1>7. Waiting' = Waiting /\ Flying' = Flying /\ Reported' = Reported /\ AllCold' = AllCold
  BY <1>3 DEF Waiting, Flying, Reported, AllCold
<1>8. ToPoll' = Flying
  BY <1>3 DEF ToPoll, Flying, Elements
<1>9. Booked'
  BY <1>1, <1>3, <1>7, <1>8 DEF Booked
<1>10. Phased'
  BY <1>1, <1>2, <1>3, <1>7 DEF Phased
<1>11. Hosted'
  <2>1. Playing' = Playing
    BY <1>5 DEF Playing
  <2>2. cold.failed => cold'.failed
    BY <1>2, <1>3
  <2> QED BY <1>1, <1>3, <1>5, <1>7, <2>1, <2>2 DEF Hosted
<1> QED BY <1>6, <1>9, <1>10, <1>11 DEF ColdInv

(* The next replay leaves the queue.                                       *)
LEMMA NextInQueue ==
    ASSUME ColdInv, cold.queue # <<>>, NEW r, r = Head(cold.queue)
    PROVE  /\ r \in Colds /\ r \in Waiting /\ r \notin Flying /\ r \notin Reported /\ hosts[r] = NoHost
           /\ Tail(cold.queue) \in Seq(Colds) /\ Distinct(Tail(cold.queue))
           /\ Elements(Tail(cold.queue)) = Waiting \ {r}
           /\ Len(Tail(cold.queue)) = Len(cold.queue) - 1
<1>1. ColdTypes /\ Booked /\ Hosted
  BY DEF ColdInv
<1>2. /\ Tail(cold.queue) \in Seq(Colds) /\ Distinct(Tail(cold.queue)) /\ r \in Colds
      /\ Elements(Tail(cold.queue)) = Waiting \ {r} /\ r \in Waiting
      /\ Len(Tail(cold.queue)) = Len(cold.queue) - 1
  BY <1>1, BookTypes, TailElements DEF Booked
<1> QED BY <1>1, <1>2 DEF Booked, Hosted

Launched(r) == cold' = [cold EXCEPT !.queue = Tail(@), !.running = Append(@, r), !.started = @ \cup {r}]

(* A worker is started: from the queue to the running ones.                *)
LEMMA LaunchKeepsInv ==
    ASSUME ColdInv, cold.phase = "refill", Vacancy, NEW r, r = Head(cold.queue), Launched(r),
           hosts' = [hosts EXCEPT ![r] = StartedHost], UNCHANGED <<kept, faults>>
    PROVE  ColdInv'
<1>1. ColdTypes /\ Booked /\ Phased /\ Hosted
  BY DEF ColdInv
<1>2. /\ r \in Colds /\ r \in Waiting /\ r \notin Flying /\ r \notin Reported /\ hosts[r] = NoHost
      /\ Tail(cold.queue) \in Seq(Colds) /\ Distinct(Tail(cold.queue))
      /\ Elements(Tail(cold.queue)) = Waiting \ {r}
      /\ Len(Tail(cold.queue)) = Len(cold.queue) - 1
  BY NextInQueue DEF Vacancy
<1> DEFINE t == Append(cold.running, r)
<1>3. /\ t \in Seq(Colds) /\ t # <<>> /\ Len(t) = Len(cold.running) + 1 /\ Distinct(t)
      /\ Elements(t) = Flying \cup {r}
  BY <1>1, <1>2, BookTypes, AppendElements DEF Booked
<1>4. /\ cold'.toPoll = cold.toPoll /\ cold'.phase = cold.phase /\ cold'.queue = Tail(cold.queue)
      /\ cold'.running = t /\ cold'.results = cold.results
      /\ cold'.failed = cold.failed /\ cold'.primary = cold.primary
  BY <1>1 DEF ColdTypes, Schedules, Launched
<1> HIDE DEF t
<1>5. cold' \in Schedules
  <2>1. cold.started \cup {r} \in SUBSET Colds
    BY <1>1, <1>2, BookTypes
  <2>2. cold' = [cold EXCEPT !.queue = Tail(cold.queue), !.running = t, !.started = cold.started \cup {r}]
    BY DEF Launched, t
  <2> QED BY <1>1, <1>2, <1>3, <2>1, <2>2 DEF ColdTypes, Schedules
<1>6. /\ Waiting' = Waiting \ {r} /\ Flying' = Flying \cup {r} /\ Reported' = Reported
      /\ ToPoll' = ToPoll /\ AllCold' = AllCold
  <2>1. Waiting' = Elements(cold'.queue) /\ Flying' = Elements(cold'.running)
    BY DEF Waiting, Flying, Elements
  <2>2. Reported' = Reported /\ ToPoll' = ToPoll /\ AllCold' = AllCold
    BY <1>4 DEF Reported, ToPoll, AllCold
  <2> QED BY <1>2, <1>3, <1>4, <2>1, <2>2
<1>7. /\ Len(cold'.results) + Len(cold'.queue) + Len(cold'.running) = Repeats
      /\ Len(cold'.running) <= 2
  <2> DEFINE a == Len(cold.results)
             b == Len(cold.queue)
             c == Len(cold.running)
  <2>1. a + b + c = Repeats /\ c < 2 /\ a \in Nat /\ b \in Nat /\ c \in Nat
    BY <1>1, BookTypes DEF Booked, Vacancy
  <2>2. Len(cold'.results) = a /\ Len(cold'.queue) = b - 1 /\ Len(cold'.running) = c + 1
    BY <1>2, <1>3, <1>4
  <2> HIDE DEF a, b, c
  <2> QED BY <2>1, <2>2
<1>8. Booked'
  BY <1>1, <1>2, <1>3, <1>4, <1>6, <1>7 DEF Booked
<1>9. Phased'
  BY <1>1, <1>3, <1>4, <1>6 DEF Phased
<1>10. /\ hosts' \in [Colds -> Workers] /\ hosts'[r] = StartedHost
       /\ \A q \in Colds : q # r => hosts'[q] = hosts[q]
  <2>1. StartedHost \in Workers
    BY DEF StartedHost, NoHost, NoReceipt, Workers, Receipts
  <2> QED BY <1>1, <1>2, <2>1 DEF ColdTypes
<1>11. Hosted'
  <2>1. SoundHost(StartedHost)
    BY DEF SoundHost, StartedHost, NoHost, NoReceipt
  <2>2. \A q \in Colds : SoundHost(hosts'[q])
    BY <1>1, <1>10, <2>1 DEF Hosted
  <2>3. \A q \in Waiting \ {r} : hosts'[q] = NoHost
    BY <1>1, <1>10, BookTypes DEF Hosted
  <2>4. ASSUME NEW i \in DOMAIN cold.results, cold.results[i].passed
        PROVE  Genuine(hosts'[cold.results[i].repeat])
    <3>1. cold.results[i].repeat \in Colds /\ cold.results[i].repeat \in Reported
      BY <1>1, BookTypes DEF Reported, Results
    <3> QED BY <1>1, <1>2, <1>10, <2>4, <3>1 DEF Hosted
  <2> DEFINE now == {q \in Colds : Plays(hosts'[q])}
  <2>5. now \subseteq Flying \cup {r}
    BY <1>1, <1>10 DEF Hosted, Playing, Vacancy
  <2>6. Playing' = now
    BY DEF Playing
  <2> HIDE DEF now
  <2>7. Cardinality(now) <= 2
    <3>1. Len(t) <= 2
      BY <1>4, <1>7
    <3>2. Cardinality(Elements(t)) <= 2 /\ Elements(t) \in SUBSET Colds
      BY <1>1, <1>2, <1>3, <3>1, TwoElements, BookTypes
    <3> QED BY <1>3, <2>5, <3>2, PlayingShrinks
  <2> QED BY <1>4, <1>6, <2>2, <2>3, <2>4, <2>5, <2>6, <2>7 DEF Hosted
<1>12. kept' \in BOOLEAN /\ faults' \in 0..MaxFaults
  BY <1>1 DEF ColdTypes
<1> QED BY <1>5, <1>8, <1>9, <1>10, <1>11, <1>12 DEF ColdInv, ColdTypes

Answered(r, passed, f) ==
    cold' = [cold EXCEPT !.queue = Tail(@), !.results = Append(@, [repeat |-> r, passed |-> passed]),
                         !.failed = f]

(* A replay that is reported without ever running beside the others: its   *)
(* worker could not be started, or the suite replayed it itself.           *)
LEMMA AnswerKeepsInv ==
    ASSUME ColdInv, cold.phase \in {"refill", "idle"}, cold.queue # <<>>,
           NEW r, r = Head(cold.queue), NEW passed \in BOOLEAN,
           NEW f \in BOOLEAN, f => cold.failed \/ ~passed, cold.failed => f,
           Answered(r, passed, f),
           NEW h \in Workers, SoundHost(h), ~Plays(h), passed => Genuine(h),
           hosts' = [hosts EXCEPT ![r] = h], UNCHANGED kept, faults' \in 0..MaxFaults
    PROVE  ColdInv'
<1>1. ColdTypes /\ Booked /\ Phased /\ Hosted
  BY DEF ColdInv
<1>2. /\ r \in Colds /\ r \in Waiting /\ r \notin Flying /\ r \notin Reported
      /\ Tail(cold.queue) \in Seq(Colds) /\ Distinct(Tail(cold.queue))
      /\ Elements(Tail(cold.queue)) = Waiting \ {r}
      /\ Len(Tail(cold.queue)) = Len(cold.queue) - 1
  BY NextInQueue
<1> DEFINE x == [repeat |-> r, passed |-> passed]
           t == Append(cold.results, x)
<1>3. /\ t \in Seq(Results) /\ t # <<>> /\ Len(t) = Len(cold.results) + 1
      /\ Repeated(t) = Reported \cup {r} /\ (Marred(t) <=> ~AllCold \/ ~passed)
      /\ \A i \in DOMAIN t : t[i].passed =>
             \/ i \in DOMAIN cold.results /\ cold.results[i].passed /\ t[i] = cold.results[i]
             \/ t[i].repeat = r /\ passed
  <2>1. cold.results \in Seq(Results) /\ x \in Results /\ x.repeat = r /\ x.passed = passed
    BY <1>1, <1>2, BookTypes DEF Results
  <2>2. Reported = Repeated(cold.results) /\ (AllCold <=> ~Marred(cold.results))
    BY <1>1, BookTypes
  <2> HIDE DEF x
  <2>3. Grown(cold.results, x, t)
    BY <2>1, ReportGrows
  <2> HIDE DEF t
  <2> QED BY <2>1, <2>2, <2>3 DEF Grown
<1>4. /\ cold'.toPoll = cold.toPoll /\ cold'.phase = cold.phase /\ cold'.queue = Tail(cold.queue)
      /\ cold'.running = cold.running /\ cold'.results = t
      /\ cold'.failed = f /\ cold'.primary = cold.primary
  BY <1>1 DEF ColdTypes, Schedules, Answered
<1> HIDE DEF t
<1>5. cold' \in Schedules
  <2>1. cold' = [cold EXCEPT !.queue = Tail(cold.queue), !.results = t, !.failed = f]
    BY DEF Answered, t
  <2>2. t \in Seq(Results)
    BY <1>3
  <2> QED BY <1>1, <1>2, <2>1, <2>2 DEF ColdTypes, Schedules
<1>6. /\ Waiting' = Waiting \ {r} /\ Flying' = Flying /\ Reported' = Reported \cup {r}
      /\ ToPoll' = ToPoll
  <2>1. Waiting' = Elements(cold'.queue)
    BY DEF Waiting, Elements
  <2>2. Flying' = Flying /\ ToPoll' = ToPoll
    BY <1>4 DEF Flying, ToPoll
  <2>3. Reported' = Repeated(cold'.results)
    BY DEF Reported, Repeated
  <2> QED BY <1>2, <1>3, <1>4, <2>1, <2>2, <2>3
<1>7. Len(cold'.results) + Len(cold'.queue) + Len(cold'.running) = Repeats
  <2> DEFINE a == Len(cold.results)
             b == Len(cold.queue)
             c == Len(cold.running)
  <2>1. a + b + c = Repeats /\ a \in Nat /\ b \in Nat /\ c \in Nat
    BY <1>1, BookTypes DEF Booked
  <2>2. Len(cold'.results) = a + 1 /\ Len(cold'.queue) = b - 1 /\ Len(cold'.running) = c
    BY <1>2, <1>3, <1>4
  <2> HIDE DEF a, b, c
  <2> QED BY <2>1, <2>2
<1>8. Booked'
  BY <1>1, <1>2, <1>4, <1>6, <1>7 DEF Booked
<1>9. ~AllCold' <=> ~AllCold \/ ~passed
  BY <1>3, <1>4 DEF AllCold, Marred
<1>10. Phased'
  BY <1>1, <1>3, <1>4, <1>9 DEF Phased
<1>11. /\ hosts' \in [Colds -> Workers] /\ hosts'[r] = h
       /\ \A q \in Colds : q # r => hosts'[q] = hosts[q]
  BY <1>1, <1>2 DEF ColdTypes
<1>12. Hosted'
  <2>1. \A q \in Colds : SoundHost(hosts'[q])
    BY <1>1, <1>11 DEF Hosted
  <2>2. \A q \in Waiting \ {r} : hosts'[q] = NoHost
    BY <1>1, <1>11, BookTypes DEF Hosted
  <2>3. ASSUME NEW i \in DOMAIN t, t[i].passed PROVE Genuine(hosts'[t[i].repeat])
    <3>1. CASE t[i].repeat = r /\ passed
      BY <3>1, <1>11
    <3>2. CASE i \in DOMAIN cold.results /\ cold.results[i].passed /\ t[i] = cold.results[i]
      <4>1. Genuine(hosts[t[i].repeat])
        BY <1>1, <3>2 DEF Hosted
      <4>2. t[i].repeat \in Colds /\ t[i].repeat \in Reported
        BY <1>1, <3>2, BookTypes DEF Reported, Results
      <4> QED BY <4>1, <4>2, <1>2, <1>11
    <3> QED BY <2>3, <3>1, <3>2, <1>3
  <2> DEFINE now == {q \in Colds : Plays(hosts'[q])}
  <2>4. now \subseteq Playing /\ Playing \in SUBSET Colds
    BY <1>11 DEF Playing
  <2>5. Playing' = now
    BY DEF Playing
  <2> HIDE DEF now
  <2>6. Cardinality(now) <= 2
    BY <1>1, <2>4, PlayingShrinks DEF Hosted
  <2>7. ~cold'.failed => now \subseteq Flying
    BY <1>1, <1>4, <2>4 DEF Hosted
  <2> QED BY <1>4, <1>6, <2>1, <2>2, <2>3, <2>5, <2>6, <2>7 DEF Hosted
<1>13. kept' \in BOOLEAN /\ faults' \in 0..MaxFaults
  BY <1>1 DEF ColdTypes
<1> QED BY <1>5, <1>8, <1>10, <1>11, <1>12, <1>13 DEF ColdInv, ColdTypes

(* A vacancy is filled, or its worker cannot be started.                   *)
LEMMA RefillKeepsInv ==
    ASSUME ColdInv, Refill
    PROVE  ColdInv'
<1>1. cold.phase = "refill" /\ Vacancy /\ UNCHANGED kept /\ cold.queue # <<>>
  BY DEF Refill, Vacancy
<1>2. PICK r : r = Head(cold.queue)
  OBVIOUS
<1>3. CASE hosts' = [hosts EXCEPT ![r] = StartedHost] /\ Launched(r) /\ Well
  BY <1>1, <1>2, <1>3, LaunchKeepsInv DEF Well
<1>4. CASE /\ \E h \in UnstartedHosts : hosts' = [hosts EXCEPT ![r] = h]
           /\ Answered(r, FALSE, TRUE)
           /\ Fault
  <2>1. PICK h \in UnstartedHosts : hosts' = [hosts EXCEPT ![r] = h]
    BY <1>4
  <2>2. h \in Workers /\ SoundHost(h) /\ ~Plays(h)
    <3>1. \/ h = NoHost \/ h = [NoHost EXCEPT !.proc = "exited", !.code = 1]
          \/ h = [NoHost EXCEPT !.proc = "waiting"]
      BY <2>1 DEF UnstartedHosts
    <3>2. NoHost \in Workers /\ ~NoHost.armed /\ ~NoHost.game /\ ~NoHost.receipt.passed /\ NoHost.proc = "none"
      BY DEF NoHost, NoReceipt, Workers, Receipts
    <3>3. /\ h \in Workers /\ ~h.armed /\ ~h.game /\ ~h.receipt.passed
          /\ h.proc \in {"none", "exited", "waiting"}
      BY <3>1, <3>2 DEF Workers
    <3> QED BY <3>3 DEF SoundHost, Plays
  <2>3. faults' \in 0..MaxFaults
    BY <1>4, ColdAssumption DEF Fault, ColdInv, ColdTypes
  <2> QED BY <1>1, <1>2, <1>4, <2>1, <2>2, <2>3, AnswerKeepsInv
<1>5. \/ hosts' = [hosts EXCEPT ![r] = StartedHost] /\ Launched(r) /\ Well
      \/ /\ \E h \in UnstartedHosts : hosts' = [hosts EXCEPT ![r] = h]
         /\ Answered(r, FALSE, TRUE)
         /\ Fault
  <2>1. Answered(r, FALSE, TRUE) <=>
            cold' = [cold EXCEPT !.queue = Tail(@), !.failed = TRUE,
                                 !.results = Append(@, [repeat |-> r, passed |-> FALSE])]
    BY DEF Answered, ColdInv, ColdTypes, Schedules
  <2> QED BY <1>2, <2>1 DEF Refill, Launched
<1> QED BY <1>3, <1>4, <1>5

(* There is a result of the last replay reported.                          *)
LEMMA LastOne ==
    ASSUME NEW s \in Seq(Results), s # <<>>
    PROVE  \E i \in DOMAIN s : \A j \in DOMAIN s : s[j].repeat <= s[i].repeat
<1> DEFINE left == {Repeats - s[i].repeat : i \in DOMAIN s}
<1>1. DOMAIN s = 1..Len(s) /\ Len(s) \in Nat /\ 1 \in DOMAIN s
  OBVIOUS
<1>2. \A i \in DOMAIN s : s[i] \in Results
  OBVIOUS
<1>3. \A i \in DOMAIN s : s[i].repeat \in 1..Repeats /\ Repeats \in Nat
  BY <1>2, ColdAssumption DEF Results, Colds
<1>4. left \subseteq Nat /\ left # {}
  BY <1>1, <1>3
<1>5. PICK x \in left : \A y \in left : ~(<<y, x>> \in OpToRel(<, Nat))
  <2> HIDE DEF left
  <2> QED BY <1>4, NatLessThanWellFounded, WFMin
<1>6. \A y \in left : x <= y
  <2> HIDE DEF left
  <2>1. ASSUME NEW y \in left, y < x PROVE <<y, x>> \in OpToRel(<, Nat)
    BY <1>4, <2>1 DEF OpToRel
  <2>2. \A y \in left : y \in Nat /\ x \in Nat /\ ~(y < x)
    BY <1>4, <1>5, <2>1
  <2>3. ASSUME NEW y \in left PROVE x <= y
    <3>1. y \in Nat /\ x \in Nat /\ ~(y < x)
      BY <2>2
    <3> QED BY ONLY <3>1
  <2> QED BY <2>3
<1>7. PICK i \in DOMAIN s : x = Repeats - s[i].repeat
  OBVIOUS
<1>8. \A j \in DOMAIN s : x <= Repeats - s[j].repeat
  BY <1>6
<1>9. ASSUME NEW j \in DOMAIN s PROVE s[j].repeat <= s[i].repeat
  <2>1. Repeats - s[i].repeat <= Repeats - s[j].repeat
    BY <1>7, <1>8
  <2>2. s[i].repeat \in Nat /\ s[j].repeat \in Nat /\ Repeats \in Nat
    BY <1>3
  <2> HIDE DEF left
  <2> QED BY <2>1, <2>2
<1> QED BY <1>9

(* The results at the end are the ones told, less perhaps one pass.        *)
LEMMA DemotedLess ==
    ASSUME ColdTypes, cold.results # <<>>, NEW error \in BOOLEAN
    PROVE  LET d == Demoted(error)
           IN  /\ d \in Seq(Results) /\ Len(d) = Len(cold.results) /\ DOMAIN d = DOMAIN cold.results
               /\ \A i \in DOMAIN cold.results : /\ d[i].repeat = cold.results[i].repeat
                                                 /\ d[i].passed => cold.results[i].passed
               /\ error => Marred(d)
               /\ ~error => d = cold.results
<1>1. cold.results \in Seq(Results) /\ \A i \in DOMAIN cold.results : cold.results[i] \in Results
  BY BookTypes
<1>2. CASE error /\ \A i \in DOMAIN cold.results : cold.results[i].passed
  <2> DEFINE k == LastRepeat
             d == [cold.results EXCEPT ![k].passed = FALSE]
  <2>1. k \in DOMAIN cold.results
    BY <1>1, LastOne DEF LastRepeat
  <2> HIDE DEF k
  <2>2. [cold.results[k] EXCEPT !.passed = FALSE] \in Results
    BY <1>1, <2>1 DEF Results
  <2>3. /\ [cold.results[k] EXCEPT !.passed = FALSE].repeat = cold.results[k].repeat
        /\ [cold.results[k] EXCEPT !.passed = FALSE].passed = FALSE
    BY <1>1, <2>1 DEF Results
  <2>4. /\ d \in Seq(Results) /\ Len(d) = Len(cold.results) /\ DOMAIN d = DOMAIN cold.results
        /\ d[k] = [cold.results[k] EXCEPT !.passed = FALSE]
        /\ \A i \in DOMAIN cold.results : i # k => d[i] = cold.results[i]
    BY <1>1, <2>1, <2>2
  <2>5. Demoted(error) = d
    BY <1>2 DEF Demoted, k
  <2> HIDE DEF d
  <2>6. Marred(d)
    BY <2>1, <2>3, <2>4 DEF Marred
  <2>7. \A i \in DOMAIN cold.results : /\ d[i].repeat = cold.results[i].repeat
                                       /\ d[i].passed => cold.results[i].passed
    BY <1>2, <2>3, <2>4
  <2> QED BY <1>2, <2>4, <2>5, <2>6, <2>7
<1>3. CASE ~(error /\ \A i \in DOMAIN cold.results : cold.results[i].passed)
  <2>1. Demoted(error) = cold.results
    BY <1>3 DEF Demoted
  <2> QED BY <1>1, <1>3, <2>1 DEF Marred
<1> QED BY <1>2, <1>3

(* The summary can only take a pass away, and takes one whenever the       *)
(* parent itself has an error.                                             *)
LEMMA SummaryKeepsInv ==
    ASSUME ColdInv, Summary
    PROVE  ColdInv'
<1>1. ColdTypes /\ Booked /\ Phased /\ Hosted
  BY DEF ColdInv
<1>2. PICK error \in BOOLEAN :
          /\ cold' = [cold EXCEPT !.phase = "done", !.primary = error, !.results = Demoted(error)]
          /\ cold.primary => error
  <2>1. cold.primary \in BOOLEAN
    BY <1>1, BookTypes
  <2> QED BY <2>1 DEF Summary
<1>3. UNCHANGED <<hosts, kept>> /\ faults' \in 0..MaxFaults
  BY <1>1, ColdAssumption DEF Summary, Well, Fault, ColdTypes
<1>4. cold.phase = "query" /\ cold.running = <<>>
  BY <1>1 DEF Summary, Phased
<1>5. cold.results # <<>>
  <2>1. SUFFICES ASSUME cold.results = <<>> PROVE FALSE
    OBVIOUS
  <2>2. AllCold /\ Len(cold.results) = 0 /\ Len(cold.running) = 0
    BY <1>4, <2>1 DEF AllCold
  <2>3. cold.queue = <<>>
    BY <1>1, <1>4, <2>1, <2>2 DEF Phased
  <2>4. Len(cold.queue) = 0
    BY <2>3
  <2> QED BY <1>1, <2>2, <2>4, ColdAssumption DEF Booked
<1> DEFINE d == Demoted(error)
<1>6. /\ d \in Seq(Results) /\ Len(d) = Len(cold.results) /\ DOMAIN d = DOMAIN cold.results
      /\ \A i \in DOMAIN cold.results : /\ d[i].repeat = cold.results[i].repeat
                                        /\ d[i].passed => cold.results[i].passed
      /\ error => Marred(d)
      /\ ~error => d = cold.results
  BY <1>1, <1>5, DemotedLess
<1> HIDE DEF d
<1>7. /\ cold'.toPoll = cold.toPoll /\ cold'.phase = "done" /\ cold'.queue = cold.queue
      /\ cold'.running = cold.running /\ cold'.results = d
      /\ cold'.failed = cold.failed /\ cold'.primary = error
  BY <1>1, <1>2 DEF ColdTypes, Schedules, d
<1>8. cold' \in Schedules
  <2>1. cold' = [cold EXCEPT !.phase = "done", !.primary = error, !.results = d]
    BY <1>2 DEF d
  <2> QED BY <1>1, <1>6, <2>1 DEF ColdTypes, Schedules
<1>9. Waiting' = Waiting /\ Flying' = Flying /\ ToPoll' = ToPoll
  BY <1>7 DEF Waiting, Flying, ToPoll
<1>10. Reported' = Reported
  BY <1>6, <1>7 DEF Reported
<1>11. Booked'
  BY <1>1, <1>6, <1>7, <1>9, <1>10 DEF Booked
<1>12. (AllCold' <=> ~Marred(d)) /\ (AllCold <=> ~Marred(cold.results))
  BY <1>7 DEF AllCold, Marred
<1>13. d # <<>>
  BY <1>5, <1>6
<1>14. Phased'
  BY <1>1, <1>2, <1>4, <1>6, <1>7, <1>12, <1>13 DEF Phased
<1>15. Hosted'
  <2>1. Playing' = Playing
    BY <1>3 DEF Playing
  <2>2. \A i \in DOMAIN d : d[i].passed => Genuine(hosts[d[i].repeat])
    BY <1>1, <1>6 DEF Hosted
  <2> QED BY <1>1, <1>3, <1>7, <1>9, <2>1, <2>2 DEF Hosted
<1> QED BY <1>1, <1>3, <1>8, <1>11, <1>14, <1>15 DEF ColdInv, ColdTypes

(* A step of the workers, their surroundings or the scheduler.             *)
LEMMA ColdKeepsInv ==
    ASSUME ColdInv, ColdStep
    PROVE  ColdInv'
BY OutsideKeepsInv, PollKeepsInv, PassEndsKeepsInv, RefillKeepsInv, SettleKeepsInv,
   SleepKeepsInv, SummaryKeepsInv DEF ColdStep, Scheduler

(* Nothing queued, nothing running and no failure: every replay is there,  *)
(* genuine.                                                                *)
LEMMA AllGenuine ==
    ASSUME ColdInv, AllCold, cold.queue = <<>>, cold.running = <<>>
    PROVE  \A r \in Colds : Genuine(hosts[r])
<1>1. ColdTypes /\ Booked /\ Hosted
  BY DEF ColdInv
<1>2. Waiting = {} /\ Flying = {}
  BY DEF Waiting, Flying
<1>3. ASSUME NEW r \in Colds PROVE Genuine(hosts[r])
  <2>1. r \in Reported
    BY <1>1, <1>2 DEF Booked
  <2>2. PICK i \in DOMAIN cold.results : r = cold.results[i].repeat
    BY <2>1 DEF Reported
  <2> QED BY <1>1, <2>2 DEF Hosted, AllCold
<1> QED BY <1>3

(* What the invariant says in the words of the model.                      *)
LEMMA ColdInvTells ==
    ASSUME ColdInv
    PROVE  ColdsAccounted /\ PassedReal
<1>1. ColdTypes /\ Booked /\ Phased /\ Hosted
  BY DEF ColdInv
<1>2. ColdType
  BY <1>1 DEF ColdTypes, ColdType, Schedules, Workers, Receipts, Results
<1>3. cold.phase = "done" /\ AllCold =>
          cold.queue = <<>> /\ \A r \in Colds : Dead(r) /\ ~hosts[r].game
  BY <1>1, AllGenuine DEF Phased, Genuine, Dead
<1>4. Cardinality({r \in Colds : hosts[r].game}) <= 2
  <2> DEFINE games == {r \in Colds : hosts[r].game}
  <2>1. games \subseteq Playing /\ Playing \in SUBSET Colds
    BY <1>1 DEF Hosted, SoundHost, Playing, Plays
  <2> HIDE DEF games
  <2>2. Cardinality(games) <= 2
    BY <1>1, <2>1, PlayingShrinks DEF Hosted
  <2> QED BY <2>2 DEF games
<1>5. PassedReal
  BY <1>1 DEF PassedReal, Hosted, Genuine, Dead
<1> QED BY <1>1, <1>2, <1>3, <1>4, <1>5 DEF ColdsAccounted, Booked

(* The books of a new case.                                                *)
LEMMA FreshBooks ==
    /\ NoSchedule \in Schedules /\ [r \in Colds |-> NoHost] \in [Colds -> Workers]
    /\ Distinct(NoSchedule.queue) /\ Elements(NoSchedule.queue) = Colds
    /\ Len(NoSchedule.queue) = Repeats
    /\ NoSchedule.running = <<>> /\ NoSchedule.toPoll = <<>> /\ NoSchedule.results = <<>>
    /\ NoSchedule.phase = "idle" /\ ~NoSchedule.failed /\ ~NoSchedule.primary
    /\ SoundHost(NoHost) /\ ~Plays(NoHost)
<1> DEFINE q == [i \in Colds |-> i]
<1>1. q \in Seq(Colds) /\ Len(q) = Repeats /\ DOMAIN q = Colds
  BY ColdAssumption DEF Colds
<1>2. Distinct(q) /\ Elements(q) = Colds
  BY <1>1 DEF Distinct, Elements
<1>3. /\ NoSchedule.running = <<>> /\ NoSchedule.toPoll = <<>> /\ NoSchedule.results = <<>>
      /\ NoSchedule.phase = "idle" /\ ~NoSchedule.failed /\ ~NoSchedule.primary
      /\ NoSchedule.queue = q
  BY DEF NoSchedule
<1>4. NoHost \in Workers
  BY DEF NoHost, NoReceipt, Workers, Receipts
<1>5. NoSchedule \in Schedules
  <2>1. <<>> \in Seq(Colds) /\ <<>> \in Seq(Results) /\ {} \in SUBSET Colds
    OBVIOUS
  <2> HIDE DEF q
  <2>2. NoSchedule = [phase |-> "idle", queue |-> q, running |-> <<>>, toPoll |-> <<>>,
                      results |-> <<>>, started |-> {}, failed |-> FALSE, primary |-> FALSE]
    BY DEF NoSchedule, q
  <2> QED BY <1>1, <2>1, <2>2 DEF Schedules
<1>6. SoundHost(NoHost) /\ ~Plays(NoHost)
  BY DEF SoundHost, Plays, NoHost, NoReceipt
<1> QED BY <1>1, <1>2, <1>3, <1>4, <1>5, <1>6

(* The first case begins with fresh books.                                 *)
LEMMA ColdInitInv ==
    ASSUME ColdInit
    PROVE  ColdInv
<1>1. cold = NoSchedule /\ hosts = [r \in Colds |-> NoHost] /\ kept = TRUE /\ faults = 0
  BY DEF ColdInit
<1>2. ColdTypes
  BY <1>1, FreshBooks, ColdAssumption DEF ColdTypes
<1>3. Waiting = Colds /\ Flying = {} /\ Reported = {} /\ ToPoll = {}
  <2>1. Waiting = Elements(cold.queue)
    BY DEF Waiting, Elements
  <2> QED BY <1>1, <2>1, FreshBooks DEF Flying, Reported, ToPoll, Elements
<1>4. Booked
  <2>1. Distinct(<<>>) /\ Len(<<>>) = 0
    BY DEF Distinct
  <2> QED BY <1>1, <1>3, <2>1, FreshBooks, ColdAssumption DEF Booked
<1>5. Phased
  BY <1>1, FreshBooks DEF Phased
<1>6. Hosted
  <2>1. \A r \in Colds : hosts[r] = NoHost
    BY <1>1
  <2>2. Playing = {}
    BY <2>1, FreshBooks DEF Playing
  <2>3. Cardinality({}) = 0
    BY FS_EmptySet
  <2> QED BY <1>1, <1>3, <2>1, <2>2, <2>3, FreshBooks DEF Hosted
<1> QED BY <1>2, <1>4, <1>5, <1>6 DEF ColdInv

(* So does every next one.                                                 *)
LEMMA CloseRenewsBooks ==
    ASSUME ColdInv, CloseCase
    PROVE  ColdInv'
<1>1. cold' = NoSchedule /\ hosts' = [r \in Colds |-> NoHost] /\ UNCHANGED <<kept, faults>>
  BY DEF CloseCase
<1>2. ColdTypes'
  BY <1>1, FreshBooks DEF ColdInv, ColdTypes
<1>3. Waiting' = Colds /\ Flying' = {} /\ Reported' = {} /\ ToPoll' = {}
  <2>1. Waiting' = Elements(cold'.queue)
    BY DEF Waiting, Elements
  <2> QED BY <1>1, <2>1, FreshBooks DEF Flying, Reported, ToPoll, Elements
<1>4. Booked'
  <2>1. Distinct(<<>>) /\ Len(<<>>) = 0
    BY DEF Distinct
  <2> QED BY <1>1, <1>3, <2>1, FreshBooks, ColdAssumption DEF Booked
<1>5. Phased'
  BY <1>1, FreshBooks DEF Phased
<1>6. Hosted'
  <2>1. \A r \in Colds : hosts'[r] = NoHost
    BY <1>1
  <2>2. Playing' = {}
    BY <2>1, FreshBooks DEF Playing
  <2>3. Cardinality({}) = 0
    BY FS_EmptySet
  <2> QED BY <1>1, <1>3, <2>1, <2>2, <2>3, FreshBooks DEF Hosted
<1> QED BY <1>2, <1>4, <1>5, <1>6 DEF ColdInv

----------------------------------------------------------------------------
(* the suite *)

GateItems == [seed : 1..MaxSeeds, status : {"pass", "fail"}]
SuiteStages == {"build", "source", "replays", "serial", "parallel", "recovery", "close", "report", "done"}
Endings == {"completed", "failed", "incomplete"}
Truths == [source : BOOLEAN, cycle : BOOLEAN, colds : Nat, recovery : BOOLEAN]
SuiteTypes ==
    /\ suite \in [phase : SuiteStages, seed : 1..MaxSeeds, seeds : 1..MaxSeeds,
                  strict : BOOLEAN, parallel : BOOLEAN, single : BOOLEAN]
    /\ suite.seed <= suite.seeds
    /\ case \in [status : Endings \cup {"running"}, attempts : Nat, passed : Nat, cycle : BOOLEAN]
    /\ gates \in [Gates -> SUBSET GateItems]
    /\ report \in [builds : {"pass", "fail", "unverified"}, statuses : Seq(Endings),
                   written : BOOLEAN, ready : BOOLEAN]
    /\ truth \in [1..MaxSeeds -> Truths]

Has(name, s, status) == [seed |-> s, status |-> status] \in gates[name]
Tested == Gates \ {"profile"}

(* A gate's pass is true, or the same seed has a failure to spoil it.      *)
GatesTrue ==
    \A s \in 1..MaxSeeds :
        /\ Has("recording", s, "pass") => truth[s].source /\ (truth[s].cycle \/ Has("cycle", s, "fail"))
        /\ Has("replay", s, "pass") => truth[s].colds = Repeats \/ Has("replay", s, "fail")
        /\ Has("recovery", s, "pass") => truth[s].recovery \/ Has("recovery", s, "fail")

(* A seed whose case cannot have been completed has a failed gate, or no   *)
(* recording gate at all.                                                  *)
Recorded(s) == \E i \in gates["recording"] : i.seed = s
Spoiled(s) == (\E name \in Tested : Has(name, s, "fail")) \/ ~Recorded(s)

(* How far the case, the gates and the report are in each phase.           *)
CasePhases ==
    /\ \A i \in gates["recording"] : i.seed <= suite.seed
    /\ suite.phase \in {"build", "source"} => ~Recorded(suite.seed)
    /\ suite.phase \notin {"report", "done"} => Len(report.statuses) = suite.seed - 1
    /\ Len(report.statuses) <= suite.seed
    /\ suite.phase \in {"build", "source", "replays", "serial"} => cold.phase = "idle"
    /\ suite.phase = "report" => suite.seed = suite.seeds
    /\ report.ready => suite.phase = "done"
    /\ suite.single => gates["replay"] = {} /\ suite.phase \notin {"serial", "parallel", "recovery"}
CaseTold ==
    /\ suite.phase = "replays" => case.cycle \/ Has("cycle", suite.seed, "fail")
    /\ suite.phase = "close" => /\ case.status \in Endings
                                /\ case.status = "completed" \/ Spoiled(suite.seed)
    /\ \A i \in DOMAIN report.statuses : report.statuses[i] = "completed" \/ Spoiled(i)

SuiteInv == SuiteTypes /\ GatesTrue /\ CasePhases /\ CaseTold /\ ReadyReal

(* Items are only added to the gates.                                      *)
LEMMA AddingItems ==
    ASSUME SuiteTypes, NEW names \in SUBSET Gates, NEW status \in {"pass", "fail"}
    PROVE  /\ Adding(names, status) \in [Gates -> SUBSET GateItems]
           /\ \A g \in names : Adding(names, status)[g] = gates[g] \cup {Item(status)}
           /\ \A g \in Gates \ names : Adding(names, status)[g] = gates[g]
<1>1. Item(status) \in GateItems
  BY DEF Item, GateItems, SuiteTypes
<1> QED BY <1>1 DEF Adding, SuiteTypes

(* What a step that adds items of this seed, and keeps the others, leaves. *)
Added(names) ==
    /\ \A g \in Gates : gates[g] \subseteq gates'[g]
    /\ \A g \in Gates : \A i \in gates'[g] : i \in gates[g] \/ (g \in names /\ i.seed = suite.seed)

(* Such a step takes no item and spoils no less.                           *)
LEMMA StillHas ==
    ASSUME NEW names, Added(names), NEW s
    PROVE  /\ \A g \in Gates : \A x : Has(g, s, x) => Has(g, s, x)'
           /\ \A g \in Gates : \A x : Has(g, s, x)' => Has(g, s, x) \/ (g \in names /\ s = suite.seed)
           /\ Spoiled(s) /\ (s = suite.seed => "recording" \notin names) => Spoiled(s)'
<1>1. \A x : [seed |-> s, status |-> x].seed = s
  OBVIOUS
<1>2. \A g \in Gates : \A x : Has(g, s, x) => Has(g, s, x)'
  BY DEF Added, Has
<1>3. \A g \in Gates : \A x : Has(g, s, x)' => Has(g, s, x) \/ (g \in names /\ s = suite.seed)
  BY <1>1 DEF Added, Has
<1>4. ASSUME Spoiled(s), s = suite.seed => "recording" \notin names PROVE Spoiled(s)'
  <2>1. CASE \E name \in Tested : Has(name, s, "fail")
    BY <1>2, <2>1 DEF Spoiled, Tested
  <2>2. CASE ~Recorded(s)
    <3>1. "recording" \in Gates
      BY DEF Gates, SourceGates
    <3>2. ~Recorded(s)'
      BY <1>4, <2>2, <3>1 DEF Recorded, Added
    <3> QED BY <3>2 DEF Spoiled
  <2> QED BY <1>4, <2>1, <2>2 DEF Spoiled
<1> QED BY <1>2, <1>3, <1>4

(* Before the report nothing is ready.                                     *)
LEMMA NotReadyYet ==
    ASSUME report'.ready = FALSE
    PROVE  ReadyReal'
BY DEF ReadyReal

(* The builds are checked first.                                           *)
LEMMA BuildsKeepsSuite ==
    ASSUME SuiteInv, Builds
    PROVE  SuiteInv'
<1>1. SuiteTypes /\ GatesTrue /\ CasePhases /\ CaseTold
  BY DEF SuiteInv
<1>2. PICK b \in {"pass", "fail", "unverified"}, p \in {"done", "source"} :
          /\ report' = [report EXCEPT !.builds = b, !.written = (b = "fail")]
          /\ suite' = [suite EXCEPT !.phase = p]
          /\ suite.phase = "build"
          /\ UNCHANGED <<case, gates, truth, cold>>
  BY DEF Builds, Phase, NoCold
<1>3. /\ suite'.phase = p /\ suite'.seed = suite.seed /\ suite'.seeds = suite.seeds
      /\ suite'.single = suite.single
      /\ report'.statuses = report.statuses /\ report'.ready = report.ready
  BY <1>1, <1>2 DEF SuiteTypes
<1>4. SuiteTypes'
  <2>1. report' \in [builds : {"pass", "fail", "unverified"}, statuses : Seq(Endings),
                     written : BOOLEAN, ready : BOOLEAN]
    BY <1>1, <1>2 DEF SuiteTypes
  <2> QED BY <1>1, <1>2, <2>1 DEF SuiteTypes, SuiteStages
<1>5. GatesTrue'
  BY <1>1, <1>2 DEF GatesTrue, Has
<1>6. ~report.ready
  BY <1>1, <1>2 DEF CasePhases
<1>7. CasePhases'
  BY <1>1, <1>2, <1>3, <1>6 DEF CasePhases, Recorded
<1>8. CaseTold'
  BY <1>1, <1>2, <1>3 DEF CaseTold, Spoiled, Recorded, Has
<1>9. report.ready \in BOOLEAN
  BY <1>1 DEF SuiteTypes
<1> QED BY <1>3, <1>4, <1>5, <1>6, <1>7, <1>8, <1>9, NotReadyYet DEF SuiteInv

Recording == SourceGates \cup ColdGates

(* What every end of the source run keeps: only its own seed's gates grow, *)
(* and the earlier seeds stay as they are.                                 *)
LEMMA SourceKeeps ==
    ASSUME SuiteInv, suite.phase = "source", NEW p \in {"replays", "close"}, Phase(p),
           gates' \in [Gates -> SUBSET GateItems], Added(Recording),
           case' \in [status : Endings \cup {"running"}, attempts : Nat, passed : Nat, cycle : BOOLEAN],
           truth' \in [1..MaxSeeds -> Truths], UNCHANGED <<cold, report>>
    PROVE  /\ SuiteTypes' /\ CasePhases' /\ ReadyReal'
           /\ suite'.phase = p /\ suite'.seed = suite.seed
           /\ \A i \in DOMAIN report'.statuses : report'.statuses[i] = "completed" \/ Spoiled(i)'
<1>1. SuiteTypes /\ CasePhases /\ CaseTold
  BY DEF SuiteInv
<1>2. /\ suite'.phase = p /\ suite'.seed = suite.seed /\ suite'.seeds = suite.seeds
      /\ suite'.single = suite.single
  BY <1>1 DEF SuiteTypes, Phase
<1>3. suite' \in [phase : SuiteStages, seed : 1..MaxSeeds, seeds : 1..MaxSeeds,
                  strict : BOOLEAN, parallel : BOOLEAN, single : BOOLEAN]
  BY <1>1 DEF SuiteTypes, Phase, SuiteStages
<1>4. SuiteTypes'
  BY <1>1, <1>2, <1>3 DEF SuiteTypes
<1>5. ~report.ready /\ report.ready \in BOOLEAN
  BY <1>1 DEF CasePhases, SuiteTypes
<1>6. "recording" \in Gates /\ "replay" \in Gates /\ "replay" \notin Recording
  BY DEF Gates, SourceGates, ReplayGates, ColdGates, Recording
<1>7. \A i \in gates'["recording"] : i.seed <= suite.seed
  <2>1. suite.seed \in Nat
    BY <1>1 DEF SuiteTypes
  <2> QED BY <1>1, <1>6, <2>1 DEF CasePhases, Added
<1>8. suite.single => gates'["replay"] = {}
  BY <1>1, <1>6 DEF CasePhases, Added
<1>9. CasePhases'
  BY <1>1, <1>2, <1>5, <1>7, <1>8 DEF CasePhases
<1>10. ASSUME NEW i \in DOMAIN report.statuses, report.statuses[i] # "completed" PROVE Spoiled(i)'
  <2>1. Spoiled(i)
    BY <1>1, <1>10 DEF CaseTold
  <2>2. report.statuses \in Seq(Endings)
    BY <1>1 DEF SuiteTypes
  <2>3. i \in 1..(suite.seed - 1)
    BY <1>1, <2>2 DEF CasePhases
  <2>4. i # suite.seed
    BY <2>3
  <2> QED BY <2>1, <2>4, StillHas
<1> QED BY <1>2, <1>4, <1>5, <1>9, <1>10, NotReadyYet

Played(cycle) ==
    /\ gates' = [Adding(ColdGates \cup SourceGates, "pass") EXCEPT
                     !["cycle"] = gates["cycle"] \cup {Item(IF cycle THEN "pass" ELSE "fail")}]
    /\ truth' = [truth EXCEPT ![suite.seed] = [@ EXCEPT !.source = TRUE, !.cycle = cycle]]
    /\ case' = [case EXCEPT !.attempts = 1, !.passed = 1, !.cycle = cycle]

(* The source played: all its gates pass but, perhaps, the full cycle's.   *)
LEMMA PlayedSource ==
    ASSUME SuiteInv, suite.phase = "source", NEW cycle \in BOOLEAN, Played(cycle),
           Phase("replays"), UNCHANGED <<cold, report>>
    PROVE  SuiteInv'
<1>1. SuiteTypes /\ GatesTrue /\ CasePhases /\ CaseTold
  BY DEF SuiteInv
<1> DEFINE seed == suite.seed
           status == IF cycle THEN "pass" ELSE "fail"
           names == ColdGates \cup SourceGates
<1>2. names \in SUBSET Gates /\ "cycle" \in names /\ names = Recording
  BY DEF Gates, SourceGates, ColdGates, Recording
<1>3. seed \in 1..MaxSeeds /\ status \in {"pass", "fail"} /\ Item(status) \in GateItems
        /\ Item(status).seed = seed /\ Item("pass").seed = seed
  BY <1>1 DEF SuiteTypes, Item, GateItems
<1>4. /\ Adding(names, "pass") \in [Gates -> SUBSET GateItems]
      /\ \A g \in names : Adding(names, "pass")[g] = gates[g] \cup {Item("pass")}
      /\ \A g \in Gates \ names : Adding(names, "pass")[g] = gates[g]
  BY <1>1, <1>2, AddingItems
<1>5. /\ gates' \in [Gates -> SUBSET GateItems]
      /\ gates'["cycle"] = gates["cycle"] \cup {Item(status)}
      /\ \A g \in Gates : g # "cycle" => gates'[g] = Adding(names, "pass")[g]
  <2>1. gates["cycle"] \cup {Item(status)} \in SUBSET GateItems
    BY <1>1, <1>2, <1>3 DEF SuiteTypes
  <2> HIDE DEF names, status
  <2>2. gates' = [Adding(names, "pass") EXCEPT !["cycle"] = gates["cycle"] \cup {Item(status)}]
    BY DEF names, status, Played
  <2> QED BY <1>2, <1>4, <2>1, <2>2
<1> HIDE DEF names
<1>6. Added(Recording)
  <2>1. ASSUME NEW g \in Gates
        PROVE  /\ gates[g] \subseteq gates'[g]
               /\ \A i \in gates'[g] : i \in gates[g] \/ (g \in Recording /\ i.seed = suite.seed)
    <3>1. CASE g = "cycle"
      BY <1>2, <1>3, <1>5, <3>1
    <3>2. CASE g # "cycle" /\ g \in names
      BY <1>2, <1>3, <1>4, <1>5, <3>2
    <3>3. CASE g # "cycle" /\ g \notin names
      BY <1>4, <1>5, <3>3
    <3> QED BY <3>1, <3>2, <3>3
  <2> QED BY <2>1 DEF Added
<1>7. /\ truth' \in [1..MaxSeeds -> Truths]
      /\ truth'[seed].source /\ truth'[seed].cycle = cycle
      /\ truth'[seed].colds = truth[seed].colds /\ truth'[seed].recovery = truth[seed].recovery
      /\ \A s \in 1..MaxSeeds : s # seed => truth'[s] = truth[s]
  <2>1. truth[seed] \in Truths
    BY <1>1, <1>3 DEF SuiteTypes
  <2> DEFINE t == [truth[seed] EXCEPT !.source = TRUE, !.cycle = cycle]
  <2>2. /\ t \in Truths /\ t.source /\ t.cycle = cycle
        /\ t.colds = truth[seed].colds /\ t.recovery = truth[seed].recovery
    BY <2>1 DEF Truths
  <2> HIDE DEF t
  <2>3. truth' = [truth EXCEPT ![seed] = t]
    BY DEF t, Played
  <2> QED BY <1>1, <1>3, <2>2, <2>3 DEF SuiteTypes
<1>8. /\ case' \in [status : Endings \cup {"running"}, attempts : Nat, passed : Nat, cycle : BOOLEAN]
      /\ case'.cycle = cycle
  BY <1>1 DEF SuiteTypes, Played
<1>9. /\ SuiteTypes' /\ CasePhases' /\ ReadyReal'
      /\ suite'.phase = "replays" /\ suite'.seed = suite.seed
      /\ \A i \in DOMAIN report'.statuses : report'.statuses[i] = "completed" \/ Spoiled(i)'
  BY <1>5, <1>6, <1>7, <1>8, SourceKeeps
<1>10. ~cycle => Has("cycle", seed, "fail")'
  BY <1>5, <1>9 DEF Has, Item
<1>11. GatesTrue'
  <2>1. /\ "recording" \in Gates /\ "replay" \in Gates /\ "recovery" \in Gates /\ "cycle" \in Gates
        /\ "replay" \notin Recording /\ "recovery" \notin Recording
    BY DEF Gates, SourceGates, ReplayGates, ColdGates, Recording
  <2>2. ASSUME NEW s \in 1..MaxSeeds
        PROVE  /\ Has("recording", s, "pass")' => truth'[s].source /\ (truth'[s].cycle \/ Has("cycle", s, "fail")')
               /\ Has("replay", s, "pass")' => truth'[s].colds = Repeats \/ Has("replay", s, "fail")'
               /\ Has("recovery", s, "pass")' => truth'[s].recovery \/ Has("recovery", s, "fail")'
    <3>1. /\ \A g \in Gates : \A x : Has(g, s, x) => Has(g, s, x)'
          /\ \A g \in Gates : \A x : Has(g, s, x)' => Has(g, s, x) \/ (g \in Recording /\ s = suite.seed)
      BY <1>6, StillHas
    <3>2. CASE s = seed
      <4>1. truth'[s].source /\ (truth'[s].cycle \/ Has("cycle", s, "fail")')
        <5>1. CASE cycle
          BY <1>7, <3>2, <5>1
        <5>2. CASE ~cycle
          <6>1. Has("cycle", seed, "fail")'
            BY <1>10, <5>2
          <6>2. Has("cycle", s, "fail")'
            BY <6>1, <3>2, <1>9 DEF Has
          <6> QED BY <1>7, <3>2, <6>2
        <5> QED BY <5>1, <5>2
      <4>2. Has("replay", s, "pass")' => truth'[s].colds = Repeats \/ Has("replay", s, "fail")'
        BY <1>1, <1>7, <2>1, <3>1, <3>2 DEF GatesTrue
      <4>3. Has("recovery", s, "pass")' => truth'[s].recovery \/ Has("recovery", s, "fail")'
        BY <1>1, <1>7, <2>1, <3>1, <3>2 DEF GatesTrue
      <4> QED BY <4>1, <4>2, <4>3
    <3>3. CASE s # seed
      BY <1>1, <1>7, <2>1, <3>1, <3>3 DEF GatesTrue
    <3> QED BY <3>2, <3>3
  <2> QED BY <2>2 DEF GatesTrue
<1>12. CaseTold'
  BY <1>8, <1>9, <1>10 DEF CaseTold
<1> QED BY <1>9, <1>11, <1>12 DEF SuiteInv

Failed(reached, cycle, bad) ==
    /\ gates' = [Adding(reached, "pass") EXCEPT ![bad] = @ \cup {Item("fail")},
                                                !["cycle"] = @ \cup {Item(c) : c \in cycle}]
    /\ case' = [case EXCEPT !.attempts = 1, !.cycle = "pass" \in cycle, !.status = "failed"]

(* The source failed: a gate of its own says so.                           *)
LEMMA FailedSource ==
    ASSUME SuiteInv, suite.phase = "source",
           NEW reached \in {{}, {"scenario"}, {"scenario", "pause", "step"}},
           NEW cycle \in {{}, {"pass"}, {"fail"}}, NEW bad \in {"session", "recording"},
           Failed(reached, cycle, bad),
           Phase("close"), UNCHANGED <<truth, cold, report>>
    PROVE  SuiteInv'
<1>1. SuiteTypes /\ GatesTrue /\ CasePhases /\ CaseTold
  BY DEF SuiteInv
<1>2. /\ reached \in SUBSET Gates /\ "cycle" \notin reached /\ bad \notin reached
      /\ reached \subseteq Recording \ {"recording"}
      /\ bad \in Recording /\ "cycle" \in Recording /\ bad # "cycle" /\ bad \in Tested
      /\ "cycle" \in Gates /\ bad \in Gates
  BY DEF Gates, SourceGates, ColdGates, Recording, Tested
<1>3. \A x \in {"pass", "fail"} : Item(x) \in GateItems /\ Item(x).seed = suite.seed
                                  /\ Item(x) = [seed |-> suite.seed, status |-> x]
  BY <1>1 DEF SuiteTypes, Item, GateItems
<1>4. /\ Adding(reached, "pass") \in [Gates -> SUBSET GateItems]
      /\ \A g \in reached : Adding(reached, "pass")[g] = gates[g] \cup {Item("pass")}
      /\ \A g \in Gates \ reached : Adding(reached, "pass")[g] = gates[g]
  BY <1>1, <1>2, AddingItems
<1> DEFINE more == {Item(c) : c \in cycle}
<1>5. more \in SUBSET GateItems /\ \A i \in more : i.seed = suite.seed
  BY <1>3
<1> HIDE DEF more
<1>6. /\ gates' \in [Gates -> SUBSET GateItems]
      /\ gates'["cycle"] = gates["cycle"] \cup more
      /\ gates'[bad] = gates[bad] \cup {Item("fail")}
      /\ \A g \in Gates : g # "cycle" /\ g # bad => gates'[g] = Adding(reached, "pass")[g]
  <2> DEFINE first == [Adding(reached, "pass") EXCEPT ![bad] = gates[bad] \cup {Item("fail")}]
  <2>1. gates[bad] \cup {Item("fail")} \in SUBSET GateItems /\ gates["cycle"] \cup more \in SUBSET GateItems
    BY <1>1, <1>2, <1>3, <1>5 DEF SuiteTypes
  <2>2. /\ first \in [Gates -> SUBSET GateItems]
        /\ first[bad] = gates[bad] \cup {Item("fail")}
        /\ \A g \in Gates : g # bad => first[g] = Adding(reached, "pass")[g]
    BY <1>2, <1>4, <2>1
  <2>3. gates' = [first EXCEPT !["cycle"] = gates["cycle"] \cup more]
    <3>1. Adding(reached, "pass")[bad] = gates[bad] /\ Adding(reached, "pass")["cycle"] = gates["cycle"]
      BY <1>2, <1>4
    <3> QED BY <1>2, <3>1, <2>2 DEF Failed, more
  <2> HIDE DEF first
  <2> QED BY <1>2, <2>1, <2>2, <2>3
<1>7. Added(Recording)
  <2>1. ASSUME NEW g \in Gates
        PROVE  /\ gates[g] \subseteq gates'[g]
               /\ \A i \in gates'[g] : i \in gates[g] \/ (g \in Recording /\ i.seed = suite.seed)
    <3>1. CASE g = "cycle"
      BY <1>2, <1>5, <1>6, <3>1
    <3>2. CASE g = bad
      BY <1>2, <1>3, <1>6, <3>2
    <3>3. CASE g # "cycle" /\ g # bad /\ g \in reached
      BY <1>2, <1>3, <1>4, <1>6, <3>3
    <3>4. CASE g # "cycle" /\ g # bad /\ g \notin reached
      BY <1>4, <1>6, <3>4
    <3> QED BY <3>1, <3>2, <3>3, <3>4
  <2> QED BY <2>1 DEF Added
<1>8. /\ case' \in [status : Endings \cup {"running"}, attempts : Nat, passed : Nat, cycle : BOOLEAN]
      /\ case'.status = "failed"
  <2>1. ("pass" \in cycle) \in BOOLEAN
    OBVIOUS
  <2> QED BY <1>1, <2>1 DEF SuiteTypes, Failed, Endings
<1>9. /\ SuiteTypes' /\ CasePhases' /\ ReadyReal'
      /\ suite'.phase = "close" /\ suite'.seed = suite.seed
      /\ \A i \in DOMAIN report'.statuses : report'.statuses[i] = "completed" \/ Spoiled(i)'
  <2>1. truth' \in [1..MaxSeeds -> Truths]
    BY <1>1 DEF SuiteTypes
  <2> QED BY <1>6, <1>7, <1>8, <2>1, SourceKeeps
<1>10. Spoiled(suite.seed)'
  <2>1. [seed |-> suite'.seed, status |-> "fail"] \in gates'[bad]
    BY <1>3, <1>6, <1>9
  <2> QED BY <1>2, <2>1 DEF Spoiled, Has
<1>11. GatesTrue'
  <2>1. /\ "recording" \in Gates /\ "replay" \in Gates /\ "recovery" \in Gates /\ "cycle" \in Gates
        /\ "replay" \notin Recording /\ "recovery" \notin Recording
    BY DEF Gates, SourceGates, ReplayGates, ColdGates, Recording
  <2>2. ASSUME NEW s \in 1..MaxSeeds
        PROVE  /\ Has("recording", s, "pass")' => truth'[s].source /\ (truth'[s].cycle \/ Has("cycle", s, "fail")')
               /\ Has("replay", s, "pass")' => truth'[s].colds = Repeats \/ Has("replay", s, "fail")'
               /\ Has("recovery", s, "pass")' => truth'[s].recovery \/ Has("recovery", s, "fail")'
    <3>1. /\ \A g \in Gates : \A x : Has(g, s, x) => Has(g, s, x)'
          /\ \A g \in Gates : \A x : Has(g, s, x)' => Has(g, s, x) \/ (g \in Recording /\ s = suite.seed)
      BY <1>7, StillHas
    <3>2. Has("recording", s, "pass")' => Has("recording", s, "pass")
      <4>1. CASE bad = "recording"
        <5>1. gates'["recording"] = gates["recording"] \cup {Item("fail")}
          BY <1>6, <4>1
        <5>2. Item("fail") # [seed |-> s, status |-> "pass"]
          BY DEF Item
        <5> QED BY <5>1, <5>2 DEF Has
      <4>2. CASE bad # "recording"
        <5>1. gates'["recording"] = gates["recording"]
          BY <1>2, <1>4, <1>6, <2>1, <4>2
        <5> QED BY <5>1 DEF Has
      <4> QED BY <4>1, <4>2
    <3> QED BY <1>1, <2>1, <3>1, <3>2 DEF GatesTrue
  <2> QED BY <2>2 DEF GatesTrue
<1>12. CaseTold'
  BY <1>8, <1>9, <1>10 DEF CaseTold, Endings
<1> QED BY <1>9, <1>11, <1>12 DEF SuiteInv

(* The source run, however it ends.                                        *)
LEMMA PlaySourceKeepsSuite ==
    ASSUME SuiteInv, PlaySource
    PROVE  SuiteInv'
<1>1. suite.phase = "source" /\ UNCHANGED <<cold, report>> /\ PlaysSource
  BY DEF PlaySource, NoCold
<1>2. CASE \E cycle \in BOOLEAN : Played(cycle) /\ Phase("replays")
  BY <1>1, <1>2, PlayedSource
<1>3. CASE /\ \E reached \in {{}, {"scenario"}, {"scenario", "pause", "step"}},
                 cycle \in {{}, {"pass"}, {"fail"}}, bad \in {"session", "recording"} :
                     Failed(reached, cycle, bad)
           /\ Phase("close") /\ UNCHANGED truth
  BY <1>1, <1>3, FailedSource
<1>4. CASE Ends("failed") /\ UNCHANGED <<gates, truth>>
  <2>1. SuiteTypes /\ GatesTrue /\ CasePhases /\ CaseTold
    BY DEF SuiteInv
  <2>2. /\ case' \in [status : Endings \cup {"running"}, attempts : Nat, passed : Nat, cycle : BOOLEAN]
        /\ case'.status = "failed"
    BY <1>4, <2>1 DEF SuiteTypes, Ends, Endings
  <2>3. Added(Recording) /\ gates' \in [Gates -> SUBSET GateItems] /\ truth' \in [1..MaxSeeds -> Truths]
    BY <1>4, <2>1 DEF Added, SuiteTypes
  <2>4. /\ SuiteTypes' /\ CasePhases' /\ ReadyReal'
        /\ suite'.phase = "close" /\ suite'.seed = suite.seed
        /\ \A i \in DOMAIN report'.statuses : report'.statuses[i] = "completed" \/ Spoiled(i)'
    BY <1>1, <1>4, <2>2, <2>3, SourceKeeps DEF Ends
  <2>5. GatesTrue'
    BY <1>4, <2>1 DEF GatesTrue, Has
  <2>6. Spoiled(suite.seed)'
    <3>1. ~Recorded(suite.seed)
      BY <1>1, <2>1 DEF CasePhases
    <3> QED BY <1>4, <2>4, <3>1 DEF Spoiled, Recorded
  <2>7. CaseTold'
    BY <2>2, <2>4, <2>6 DEF CaseTold, Endings
  <2> QED BY <2>4, <2>5, <2>7 DEF SuiteInv
<1> QED BY <1>1, <1>2, <1>3, <1>4 DEF PlaysSource, Played, Failed

(* A step that leaves the books and the workers alone.                     *)
LEMMA ColdStays ==
    ASSUME ColdInv, NoCold, faults' \in 0..MaxFaults
    PROVE  ColdInv'
<1>1. ColdTypes /\ Booked /\ Phased /\ Hosted
  BY DEF ColdInv
<1>2. UNCHANGED cold /\ UNCHANGED hosts /\ UNCHANGED kept
  BY DEF NoCold
<1>3. Waiting' = Waiting /\ Flying' = Flying /\ Reported' = Reported /\ ToPoll' = ToPoll
  BY <1>2 DEF ToPoll, Waiting, Flying, Reported
<1>4. Booked'
  BY <1>1, <1>2, <1>3 DEF Booked
<1>5. Phased'
  BY <1>1, <1>2 DEF Phased, AllCold
<1>6. Hosted'
  <2>1. Playing' = Playing
    BY <1>2 DEF Playing
  <2> QED BY <1>1, <1>2, <1>3, <2>1 DEF Hosted
<1> QED BY <1>1, <1>2, <1>4, <1>5, <1>6 DEF ColdInv, ColdTypes

(* A parallel case starts the scheduler.                                   *)
LEMMA BranchKeepsCold ==
    ASSUME ColdInv, SuiteInv, Branch
    PROVE  ColdInv'
<1>1. UNCHANGED <<hosts, kept, faults>> /\ cold.phase = "idle"
  BY DEF Branch, SuiteInv, CasePhases
<1>2. faults' \in 0..MaxFaults
  BY <1>1 DEF ColdInv, ColdTypes
<1>3. CASE cold' = cold
  BY <1>1, <1>2, <1>3, ColdStays DEF NoCold
<1>4. CASE TurnsTo("poll")
  <2>1. /\ ColdTypes' /\ Booked' /\ Hosted' /\ cold'.phase = "poll"
        /\ cold'.queue = cold.queue /\ cold'.running = cold.running
        /\ cold'.results = cold.results /\ cold'.failed = cold.failed
        /\ cold'.primary = cold.primary /\ AllCold' = AllCold
    BY <1>1, <1>2, <1>4, PhaseTurns DEF Stages
  <2>2. Phased'
    BY <2>1 DEF ColdInv, Phased
  <2> QED BY <2>1, <2>2 DEF ColdInv
<1> QED BY <1>3, <1>4 DEF Branch, TurnsTo

(* The case ends, or its replays begin.                                    *)
LEMMA BranchKeepsSuite ==
    ASSUME SuiteInv, Branch
    PROVE  SuiteInv'
<1>1. SuiteTypes /\ GatesTrue /\ CasePhases /\ CaseTold
  BY DEF SuiteInv
<1>2. suite.phase = "replays" /\ UNCHANGED <<gates, report, truth>>
  BY DEF Branch
<1>3. PICK p \in {"close", "parallel", "serial"}, c \in Endings \cup {"running"} :
          /\ Phase(p) /\ case' = [case EXCEPT !.status = c]
          /\ p = "close" => \/ c = "completed"
                            \/ c = "incomplete" /\ ~case.cycle
          /\ p # "close" => ~suite.single
  <2>1. case = [case EXCEPT !.status = case.status] /\ case.status \in Endings \cup {"running"}
    BY <1>1 DEF SuiteTypes
  <2> QED BY <2>1 DEF Branch, Ends, Endings
<1>4. /\ suite'.phase = p /\ suite'.seed = suite.seed /\ suite'.seeds = suite.seeds
      /\ suite'.single = suite.single
  BY <1>1, <1>3 DEF SuiteTypes, Phase
<1>5. p = "serial" => cold'.phase = "idle"
  BY <1>1, <1>2, <1>4 DEF Branch, CasePhases
<1>6. SuiteTypes'
  <2>1. suite' \in [phase : SuiteStages, seed : 1..MaxSeeds, seeds : 1..MaxSeeds,
                    strict : BOOLEAN, parallel : BOOLEAN, single : BOOLEAN]
    BY <1>1, <1>3 DEF SuiteTypes, Phase, SuiteStages
  <2>2. case' \in [status : Endings \cup {"running"}, attempts : Nat, passed : Nat, cycle : BOOLEAN]
    BY <1>1, <1>3 DEF SuiteTypes
  <2> QED BY <1>1, <1>2, <1>4, <2>1, <2>2 DEF SuiteTypes
<1>7. GatesTrue'
  BY <1>1, <1>2 DEF GatesTrue, Has
<1>8. ~report.ready /\ report.ready \in BOOLEAN
  BY <1>1, <1>2 DEF CasePhases, SuiteTypes
<1>9. CasePhases'
  BY <1>1, <1>2, <1>3, <1>4, <1>5, <1>8 DEF CasePhases, Recorded
<1>10. p = "close" => case'.status \in Endings /\ (case'.status = "completed" \/ Spoiled(suite.seed))
  <2>1. case'.status = c
    BY <1>1, <1>3 DEF SuiteTypes
  <2>2. ~case.cycle => Spoiled(suite.seed)
    <3>1. "cycle" \in Tested
      BY DEF Tested, Gates, SourceGates
    <3> QED BY <1>1, <1>2, <3>1 DEF CaseTold, Spoiled
  <2> QED BY <1>3, <2>1, <2>2 DEF Endings
<1>11. \A s : Spoiled(s)' <=> Spoiled(s)
  BY <1>2 DEF Spoiled, Recorded, Has
<1>12. Spoiled(suite.seed)' <=> Spoiled(suite.seed)
  BY <1>2, <1>4 DEF Spoiled, Recorded, Has
<1>13. CaseTold'
  BY <1>1, <1>2, <1>3, <1>4, <1>10, <1>11, <1>12 DEF CaseTold
<1>14. ReadyReal'
  BY <1>2, <1>8, NotReadyYet
<1> QED BY <1>6, <1>7, <1>9, <1>13, <1>14 DEF SuiteInv

(* A replay that the suite makes itself.                                   *)
LEMMA SerialKeepsCold ==
    ASSUME ColdInv, SuiteInv, SerialCold
    PROVE  ColdInv' /\ cold'.phase = cold.phase
<1>1. cold.queue # <<>> /\ cold.phase = "idle" /\ UNCHANGED kept
  BY DEF SerialCold, SuiteInv, CasePhases
<1>2. PICK r : r = Head(cold.queue)
  OBVIOUS
<1>3. PICK passed \in BOOLEAN :
          /\ IF passed THEN Well ELSE Fault
          /\ hosts' = [hosts EXCEPT ![r].real = passed, ![r].receipt.unchanged = passed, ![r].proc = "exited"]
          /\ cold' = [cold EXCEPT !.queue = Tail(@), !.results = Append(@, [repeat |-> r, passed |-> passed])]
  BY <1>2 DEF SerialCold
<1>4. r \in Colds /\ hosts[r] = NoHost /\ hosts \in [Colds -> Workers]
  BY <1>1, <1>2, NextInQueue DEF ColdInv, ColdTypes
<1> DEFINE a == [hosts[r] EXCEPT !.real = passed]
           b == [a EXCEPT !.receipt = [@ EXCEPT !.unchanged = passed]]
           h == [b EXCEPT !.proc = "exited"]
<1>5. hosts' = [hosts EXCEPT ![r] = h]
  BY <1>3, <1>4
<1>6. h \in Workers /\ SoundHost(h) /\ ~Plays(h) /\ (passed => Genuine(h))
  <2>1. /\ hosts[r] \in Workers /\ ~hosts[r].armed /\ ~hosts[r].game
        /\ hosts[r].code = 0 /\ ~hosts[r].receipt.passed
    <3>1. ~NoHost.armed /\ ~NoHost.game /\ NoHost.code = 0 /\ ~NoHost.receipt.passed
      BY DEF NoHost, NoReceipt
    <3>2. hosts[r] \in Workers
      BY <1>4
    <3> QED BY <1>4, <3>1, <3>2
  <2>2. /\ a \in Workers /\ ~a.armed /\ ~a.game /\ a.code = 0 /\ ~a.receipt.passed
        /\ a.real = passed
    BY <2>1 DEF Workers
  <2> HIDE DEF a
  <2>3. /\ [a.receipt EXCEPT !.unchanged = passed] \in Receipts
        /\ [a.receipt EXCEPT !.unchanged = passed].unchanged = passed
        /\ ~[a.receipt EXCEPT !.unchanged = passed].passed
    BY <2>2 DEF Workers, Receipts
  <2>4. /\ b \in Workers /\ ~b.armed /\ ~b.game /\ b.code = 0 /\ ~b.receipt.passed
        /\ b.real = passed /\ b.receipt.unchanged = passed
    BY <2>2, <2>3 DEF Workers
  <2> HIDE DEF b
  <2>5. /\ h \in Workers /\ ~h.armed /\ ~h.game /\ h.code = 0 /\ ~h.receipt.passed
        /\ h.real = passed /\ h.receipt.unchanged = passed /\ h.proc = "exited"
    BY <2>4 DEF Workers
  <2> HIDE DEF h
  <2> QED BY <2>5 DEF SoundHost, Plays, Genuine
<1>7. Answered(r, passed, cold.failed)
  BY <1>3 DEF Answered, ColdInv, ColdTypes, Schedules
<1>8. faults' \in 0..MaxFaults /\ cold.failed \in BOOLEAN
  BY <1>3, ColdAssumption, BookTypes DEF Well, Fault, ColdInv, ColdTypes
<1>9. ColdInv'
  <2> HIDE DEF h
  <2> QED BY <1>1, <1>2, <1>5, <1>6, <1>7, <1>8, AnswerKeepsInv
<1>10. cold'.phase = cold.phase
  BY <1>3 DEF ColdInv, ColdTypes, Schedules
<1> QED BY <1>9, <1>10

(* The suite waits while its replays are made.                             *)
LEMMA ReplaysKeepSuite ==
    ASSUME SuiteInv, UNCHANGED suiteVars,
           suite.phase = "parallel" \/ cold'.phase = cold.phase
    PROVE  SuiteInv'
<1>1. SuiteTypes /\ GatesTrue /\ CasePhases /\ CaseTold /\ ReadyReal
  BY DEF SuiteInv
<1>2. UNCHANGED suite /\ UNCHANGED case /\ UNCHANGED gates /\ UNCHANGED report /\ UNCHANGED truth
  BY DEF suiteVars
<1>3. SuiteTypes'
  BY <1>1, <1>2 DEF SuiteTypes
<1>4. GatesTrue'
  BY <1>1, <1>2 DEF GatesTrue, Has
<1>5. CasePhases'
  BY <1>1, <1>2 DEF CasePhases, Recorded
<1>6. CaseTold'
  BY <1>1, <1>2 DEF CaseTold, Spoiled, Recorded, Has
<1>7. ReadyReal'
  BY <1>1, <1>2 DEF ReadyReal
<1> QED BY <1>3, <1>4, <1>5, <1>6, <1>7 DEF SuiteInv

Replaying == ColdGates \cup ReplayGates \cup {"recovery"}

(* What the replays and the probe keep: the source's gates are theirs no   *)
(* more, and the earlier seeds stay as they are.                           *)
LEMMA ReplaysKeep ==
    ASSUME SuiteInv, suite.phase \in {"serial", "parallel", "recovery"},
           NEW p \in {"recovery", "close"}, Phase(p),
           gates' \in [Gates -> SUBSET GateItems], Added(Replaying),
           case' \in [status : Endings \cup {"running"}, attempts : Nat, passed : Nat, cycle : BOOLEAN],
           truth' \in [1..MaxSeeds -> Truths], UNCHANGED report,
           \A s \in 1..MaxSeeds : truth'[s].source = truth[s].source /\ truth'[s].cycle = truth[s].cycle
    PROVE  /\ SuiteTypes' /\ CasePhases' /\ ReadyReal'
           /\ suite'.phase = p /\ suite'.seed = suite.seed
           /\ \A i \in DOMAIN report'.statuses : report'.statuses[i] = "completed" \/ Spoiled(i)'
           /\ \A s \in 1..MaxSeeds : Has("recording", s, "pass")' =>
                  truth'[s].source /\ (truth'[s].cycle \/ Has("cycle", s, "fail")')
<1>1. SuiteTypes /\ GatesTrue /\ CasePhases /\ CaseTold
  BY DEF SuiteInv
<1>2. /\ suite'.phase = p /\ suite'.seed = suite.seed /\ suite'.seeds = suite.seeds
      /\ suite'.single = suite.single
  BY <1>1 DEF SuiteTypes, Phase
<1>3. suite' \in [phase : SuiteStages, seed : 1..MaxSeeds, seeds : 1..MaxSeeds,
                  strict : BOOLEAN, parallel : BOOLEAN, single : BOOLEAN]
  BY <1>1 DEF SuiteTypes, Phase, SuiteStages
<1>4. SuiteTypes'
  BY <1>1, <1>2, <1>3 DEF SuiteTypes
<1>5. ~report.ready /\ report.ready \in BOOLEAN /\ ~suite.single
  BY <1>1 DEF CasePhases, SuiteTypes
<1>6. "recording" \in Gates /\ "cycle" \in Gates /\ "recording" \notin Replaying /\ "cycle" \notin Replaying
  BY DEF Gates, SourceGates, ReplayGates, ColdGates, Replaying
<1>7. \A i \in gates'["recording"] : i \in gates["recording"]
  BY <1>6 DEF Added
<1>8. CasePhases'
  BY <1>1, <1>2, <1>5, <1>7 DEF CasePhases
<1>9. ASSUME NEW i \in DOMAIN report.statuses, report.statuses[i] # "completed" PROVE Spoiled(i)'
  BY <1>1, <1>6, <1>9, StillHas DEF CaseTold
<1>10. ASSUME NEW s \in 1..MaxSeeds, Has("recording", s, "pass")'
       PROVE  truth'[s].source /\ (truth'[s].cycle \/ Has("cycle", s, "fail")')
  <2>1. Has("recording", s, "pass") /\ (Has("cycle", s, "fail") => Has("cycle", s, "fail")')
    BY <1>6, <1>7, <1>10, StillHas DEF Has
  <2> QED BY <1>1, <2>1 DEF GatesTrue
<1> QED BY <1>2, <1>4, <1>5, <1>8, <1>9, <1>10, NotReadyYet

(* Every replay that was asked for was made when none failed.              *)
LEMMA MergedCount ==
    ASSUME ColdInv, SuiteInv, MergeColds
    PROVE  LET made == {r \in Colds : hosts[r].real /\ hosts[r].receipt.unchanged}
           IN  Cardinality(made) \in Nat /\ (AllCold => Cardinality(made) = Repeats)
<1> DEFINE made == {r \in Colds : hosts[r].real /\ hosts[r].receipt.unchanged}
<1>1. Cardinality(made) \in Nat
  BY ColdsFinite
<1>2. ASSUME AllCold PROVE Cardinality(made) = Repeats
  <2>1. cold.queue = <<>> /\ cold.running = <<>>
    BY <1>2 DEF MergeColds, SuiteInv, CasePhases, ColdInv, Phased
  <2>2. made = Colds
    BY <1>2, <2>1, AllGenuine DEF Genuine
  <2> QED BY <2>2, ColdsFinite
<1> QED BY <1>1, <1>2

(* The results join the case.                                              *)
LEMMA MergeKeepsSuite ==
    ASSUME ColdInv, SuiteInv, MergeColds
    PROVE  SuiteInv'
<1>1. SuiteTypes /\ GatesTrue /\ CasePhases /\ CaseTold
  BY DEF SuiteInv
<1> DEFINE seed == suite.seed
           made == {r \in Colds : hosts[r].real /\ hosts[r].receipt.unchanged}
           good == IF Passed # {} THEN ColdGates \cup ReplayGates ELSE {}
           more == [g \in Gates |-> (IF g \in good THEN {Item("pass")} ELSE {})
                                      \cup (IF g = "replay" /\ ~AllCold THEN {Item("fail")} ELSE {})]
<1>2. /\ suite.phase \in {"serial", "parallel"} /\ UNCHANGED report
      /\ gates' = [g \in Gates |-> gates[g] \cup more[g]]
      /\ truth' = [truth EXCEPT ![seed].colds = Cardinality(made)]
      /\ case' = [case EXCEPT !.attempts = @ + Len(cold.results), !.passed = @ + Cardinality(Passed),
                              !.status = IF AllCold THEN @ ELSE "failed"]
      /\ Phase(IF AllCold THEN "recovery" ELSE "close")
  BY DEF MergeColds
<1>3. Cardinality(made) \in Nat /\ (AllCold => Cardinality(made) = Repeats)
  BY MergedCount
<1> HIDE DEF made
<1>4. seed \in 1..MaxSeeds
  BY <1>1 DEF SuiteTypes
<1>5. \A x \in {"pass", "fail"} : Item(x) \in GateItems /\ Item(x).seed = seed
                                  /\ Item(x) = [seed |-> seed, status |-> x]
  BY <1>4 DEF Item, GateItems
<1>6. /\ "replay" \in Gates /\ "recovery" \in Gates /\ good \subseteq Replaying /\ "replay" \in Replaying
      /\ "recovery" \notin good /\ "replay" \in Tested
  BY DEF Gates, SourceGates, ReplayGates, ColdGates, Replaying, Tested
<1> HIDE DEF good
<1>7. \A g \in Gates : /\ more[g] \in SUBSET GateItems
                       /\ \A i \in more[g] : i.seed = seed /\ g \in Replaying
  BY <1>5, <1>6
<1>8. more["recovery"] = {} /\ (~AllCold => Item("fail") \in more["replay"])
  BY <1>6
<1> HIDE DEF more
<1>9. gates' \in [Gates -> SUBSET GateItems] /\ Added(Replaying)
  <2>1. \A g \in Gates : gates'[g] = gates[g] \cup more[g] /\ gates[g] \in SUBSET GateItems
    BY <1>1, <1>2 DEF SuiteTypes
  <2>2. gates' \in [Gates -> SUBSET GateItems]
    BY <1>2, <1>7, <2>1
  <2> QED BY <1>7, <2>1, <2>2 DEF Added
<1>10. /\ truth' \in [1..MaxSeeds -> Truths]
       /\ truth'[seed].colds = Cardinality(made)
       /\ \A s \in 1..MaxSeeds : /\ s # seed => truth'[s] = truth[s]
                                 /\ truth'[s].source = truth[s].source
                                 /\ truth'[s].cycle = truth[s].cycle
                                 /\ truth'[s].recovery = truth[s].recovery
  <2>1. truth[seed] \in Truths /\ truth \in [1..MaxSeeds -> Truths]
    BY <1>1, <1>4 DEF SuiteTypes
  <2> DEFINE n == Cardinality(made)
             t == [truth[seed] EXCEPT !.colds = n]
  <2>2. n \in Nat
    BY <1>3
  <2> HIDE DEF n
  <2>3. /\ t \in Truths /\ t.colds = n /\ t.source = truth[seed].source
        /\ t.cycle = truth[seed].cycle /\ t.recovery = truth[seed].recovery
    BY <2>1, <2>2 DEF Truths
  <2>4. truth' = [truth EXCEPT ![seed] = t]
    BY <1>2 DEF n
  <2> HIDE DEF t
  <2>5. truth'[seed] = t /\ truth' \in [1..MaxSeeds -> Truths]
        /\ \A s \in 1..MaxSeeds : s # seed => truth'[s] = truth[s]
    BY <1>4, <2>1, <2>3, <2>4
  <2> QED BY <2>3, <2>5 DEF n
<1>11. /\ case' \in [status : Endings \cup {"running"}, attempts : Nat, passed : Nat, cycle : BOOLEAN]
       /\ ~AllCold => case'.status = "failed"
  <2>1. Len(cold.results) \in Nat /\ Cardinality(Passed) \in Nat
    <3>1. cold.results \in Seq(Results) /\ Len(cold.results) \in Nat
      BY BookTypes DEF ColdInv
    <3>2. Passed \in SUBSET (1..Len(cold.results))
      BY <3>1 DEF Passed
    <3>3. IsFiniteSet(1..Len(cold.results))
      BY <3>1, FS_Interval
    <3>4. IsFiniteSet(Passed)
      BY <3>2, <3>3, FS_Subset
    <3> QED BY <3>1, <3>4, FS_CardinalityType
  <2> DEFINE m == Len(cold.results)
             n == Cardinality(Passed)
  <2>2. /\ case' = [case EXCEPT !.attempts = case.attempts + m, !.passed = case.passed + n,
                                !.status = IF AllCold THEN case.status ELSE "failed"]
        /\ m \in Nat /\ n \in Nat
    BY <1>2, <2>1
  <2> HIDE DEF m, n
  <2>3. /\ case.attempts + m \in Nat /\ case.passed + n \in Nat
        /\ (IF AllCold THEN case.status ELSE "failed") \in Endings \cup {"running"}
    BY <1>1, <2>2 DEF SuiteTypes, Endings
  <2> QED BY <1>1, <2>2, <2>3 DEF SuiteTypes
<1>12. PICK p \in {"recovery", "close"} : Phase(p) /\ (p = "close" => ~AllCold)
  BY <1>2
<1>13. /\ SuiteTypes' /\ CasePhases' /\ ReadyReal'
       /\ suite'.phase = p /\ suite'.seed = suite.seed
       /\ \A i \in DOMAIN report'.statuses : report'.statuses[i] = "completed" \/ Spoiled(i)'
       /\ \A s \in 1..MaxSeeds : Has("recording", s, "pass")' =>
              truth'[s].source /\ (truth'[s].cycle \/ Has("cycle", s, "fail")')
  BY <1>2, <1>9, <1>10, <1>11, <1>12, ReplaysKeep
<1>14. ~AllCold => [seed |-> seed, status |-> "fail"] \in gates'["replay"]
  BY <1>2, <1>5, <1>6, <1>8
<1>15. GatesTrue'
  <2>1. ASSUME NEW s \in 1..MaxSeeds, Has("replay", s, "pass")'
        PROVE  truth'[s].colds = Repeats \/ Has("replay", s, "fail")'
    <3>1. CASE s = seed
      BY <1>3, <1>10, <1>14, <3>1 DEF Has
    <3>2. CASE s # seed
      <4>1. Has("replay", s, "pass") /\ (Has("replay", s, "fail") => Has("replay", s, "fail")')
        <5>1. /\ \A g \in Gates : \A x : Has(g, s, x) => Has(g, s, x)'
              /\ \A g \in Gates : \A x : Has(g, s, x)' => Has(g, s, x) \/ (g \in Replaying /\ s = suite.seed)
          BY <1>9, StillHas
        <5> QED BY <1>6, <2>1, <3>2, <5>1
      <4> QED BY <1>1, <1>10, <3>2, <4>1 DEF GatesTrue
    <3> QED BY <3>1, <3>2
  <2>2. ASSUME NEW s \in 1..MaxSeeds, Has("recovery", s, "pass")'
        PROVE  truth'[s].recovery \/ Has("recovery", s, "fail")'
    <3>1. gates'["recovery"] = gates["recovery"]
      BY <1>2, <1>6, <1>8
    <3> QED BY <1>1, <1>10, <2>2, <3>1 DEF GatesTrue, Has
  <2> QED BY <1>13, <2>1, <2>2 DEF GatesTrue
<1>16. CaseTold'
  <2>1. p = "close" => Spoiled(suite.seed)'
    BY <1>6, <1>12, <1>13, <1>14 DEF Spoiled, Has
  <2> QED BY <1>11, <1>12, <1>13, <2>1 DEF CaseTold, Endings
<1> QED BY <1>13, <1>15, <1>16 DEF SuiteInv

(* The probe of the recovery ends the case.                                *)
LEMMA RecoveryKeepsSuite ==
    ASSUME SuiteInv, RecoveryProbe
    PROVE  SuiteInv'
<1>1. SuiteTypes /\ GatesTrue /\ CasePhases /\ CaseTold
  BY DEF SuiteInv
<1>2. PICK recovered \in BOOLEAN :
          /\ gates' = Adding({"recovery"}, IF recovered THEN "pass" ELSE "fail")
          /\ truth' = [truth EXCEPT ![suite.seed].recovery = recovered]
          /\ Ends(IF recovered THEN "completed" ELSE "failed")
  BY DEF RecoveryProbe
<1> DEFINE seed == suite.seed
           status == IF recovered THEN "pass" ELSE "fail"
<1>3. suite.phase = "recovery" /\ UNCHANGED report
  BY DEF RecoveryProbe
<1>4. seed \in 1..MaxSeeds /\ status \in {"pass", "fail"}
  BY <1>1 DEF SuiteTypes
<1>5. /\ {"recovery"} \in SUBSET Gates /\ "recovery" \in Replaying /\ "recovery" \in Gates
      /\ "recovery" \in Tested /\ "replay" \in Gates
  BY DEF Gates, SourceGates, ReplayGates, ColdGates, Replaying, Tested
<1>6. /\ gates' \in [Gates -> SUBSET GateItems]
      /\ gates'["recovery"] = gates["recovery"] \cup {Item(status)}
      /\ \A g \in Gates \ {"recovery"} : gates'[g] = gates[g]
  <2> HIDE DEF status
  <2>1. /\ Adding({"recovery"}, status) \in [Gates -> SUBSET GateItems]
        /\ \A g \in {"recovery"} : Adding({"recovery"}, status)[g] = gates[g] \cup {Item(status)}
        /\ \A g \in Gates \ {"recovery"} : Adding({"recovery"}, status)[g] = gates[g]
    BY <1>1, <1>4, <1>5, AddingItems
  <2>2. gates' = Adding({"recovery"}, status)
    BY <1>2 DEF status
  <2> QED BY <2>1, <2>2
<1>7. Item(status) = [seed |-> seed, status |-> status] /\ Item(status).seed = seed
  BY DEF Item
<1> HIDE DEF status
<1>8. Added(Replaying)
  <2>1. ASSUME NEW g \in Gates
        PROVE  /\ gates[g] \subseteq gates'[g]
               /\ \A i \in gates'[g] : i \in gates[g] \/ (g \in Replaying /\ i.seed = suite.seed)
    <3>1. CASE g = "recovery"
      BY <1>5, <1>6, <1>7, <3>1
    <3>2. CASE g # "recovery"
      BY <1>6, <3>2
    <3> QED BY <3>1, <3>2
  <2> QED BY <2>1 DEF Added
<1>9. /\ truth' \in [1..MaxSeeds -> Truths]
      /\ truth'[seed].recovery = recovered
      /\ \A s \in 1..MaxSeeds : /\ s # seed => truth'[s] = truth[s]
                                /\ truth'[s].source = truth[s].source
                                /\ truth'[s].cycle = truth[s].cycle
                                /\ truth'[s].colds = truth[s].colds
  <2>1. truth[seed] \in Truths /\ truth \in [1..MaxSeeds -> Truths]
    BY <1>1, <1>4 DEF SuiteTypes
  <2> DEFINE t == [truth[seed] EXCEPT !.recovery = recovered]
  <2>2. /\ t \in Truths /\ t.colds = truth[seed].colds /\ t.source = truth[seed].source
        /\ t.cycle = truth[seed].cycle /\ t.recovery = recovered
    BY <2>1 DEF Truths
  <2>3. truth' = [truth EXCEPT ![seed] = t]
    BY <1>2
  <2> HIDE DEF t
  <2>4. truth'[seed] = t /\ truth' \in [1..MaxSeeds -> Truths]
        /\ \A s \in 1..MaxSeeds : s # seed => truth'[s] = truth[s]
    BY <1>4, <2>1, <2>2, <2>3
  <2> QED BY <2>2, <2>4
<1>10. /\ case' \in [status : Endings \cup {"running"}, attempts : Nat, passed : Nat, cycle : BOOLEAN]
       /\ case'.status = IF recovered THEN "completed" ELSE "failed"
       /\ Phase("close")
  BY <1>1, <1>2 DEF SuiteTypes, Ends, Endings
<1>11. /\ SuiteTypes' /\ CasePhases' /\ ReadyReal'
       /\ suite'.phase = "close" /\ suite'.seed = suite.seed
       /\ \A i \in DOMAIN report'.statuses : report'.statuses[i] = "completed" \/ Spoiled(i)'
       /\ \A s \in 1..MaxSeeds : Has("recording", s, "pass")' =>
              truth'[s].source /\ (truth'[s].cycle \/ Has("cycle", s, "fail")')
  BY <1>3, <1>6, <1>8, <1>9, <1>10, ReplaysKeep
<1>12. ~recovered => [seed |-> seed, status |-> "fail"] \in gates'["recovery"]
  BY <1>6, <1>7 DEF status
<1>13. GatesTrue'
  <2>1. ASSUME NEW s \in 1..MaxSeeds, Has("recovery", s, "pass")'
        PROVE  truth'[s].recovery \/ Has("recovery", s, "fail")'
    <3>1. CASE s = seed /\ recovered
      BY <1>9, <3>1
    <3>2. CASE s = seed /\ ~recovered
      BY <1>12, <3>2 DEF Has
    <3>3. CASE s # seed
      <4>1. /\ \A g \in Gates : \A x : Has(g, s, x) => Has(g, s, x)'
            /\ \A g \in Gates : \A x : Has(g, s, x)' => Has(g, s, x) \/ (g \in Replaying /\ s = suite.seed)
        BY <1>8, StillHas
      <4>2. Has("recovery", s, "pass") /\ (Has("recovery", s, "fail") => Has("recovery", s, "fail")')
        BY <1>5, <2>1, <3>3, <4>1
      <4> QED BY <1>1, <1>9, <3>3, <4>2 DEF GatesTrue
    <3> QED BY <3>1, <3>2, <3>3
  <2>2. ASSUME NEW s \in 1..MaxSeeds, Has("replay", s, "pass")'
        PROVE  truth'[s].colds = Repeats \/ Has("replay", s, "fail")'
    <3>1. gates'["replay"] = gates["replay"]
      BY <1>5, <1>6
    <3> QED BY <1>1, <1>9, <2>2, <3>1 DEF GatesTrue, Has
  <2> QED BY <1>11, <2>1, <2>2 DEF GatesTrue
<1>14. CaseTold'
  <2>1. ~recovered => Spoiled(suite.seed)'
    BY <1>5, <1>11, <1>12 DEF Spoiled, Has
  <2> QED BY <1>10, <1>11, <2>1 DEF CaseTold, Endings
<1> QED BY <1>11, <1>13, <1>14 DEF SuiteInv

(* The case is closed, and the next seed or the report begins.             *)
LEMMA CloseKeepsSuite ==
    ASSUME SuiteInv, CloseCase
    PROVE  SuiteInv'
<1>1. SuiteTypes /\ GatesTrue /\ CasePhases /\ CaseTold
  BY DEF SuiteInv
<1> DEFINE seed == suite.seed
<1>2. PICK status \in {"pass", "fail"} : gates' = Adding({"ten"}, status)
  BY DEF CloseCase
<1>3. /\ suite.phase = "close"
      /\ report' = [report EXCEPT !.statuses = Append(@, case.status)]
      /\ suite' = IF suite.seed < suite.seeds THEN [suite EXCEPT !.phase = "source", !.seed = @ + 1]
                  ELSE [suite EXCEPT !.phase = "report"]
      /\ case' = NoCase /\ cold' = NoSchedule /\ truth' = truth
  BY DEF CloseCase
<1>4. /\ {"ten"} \in SUBSET Gates /\ "ten" \notin Recording /\ "ten" \notin ReplayGates
      /\ "ten" # "recovery" /\ "recording" \in Gates /\ "replay" \in Gates /\ "recovery" \in Gates
      /\ "cycle" \in Gates /\ "ten" # "cycle" /\ "ten" # "replay" /\ "ten" # "recording"
  BY DEF Gates, SourceGates, ReplayGates, ColdGates, Recording
<1>5. /\ gates' \in [Gates -> SUBSET GateItems]
      /\ gates'["ten"] = gates["ten"] \cup {Item(status)}
      /\ \A g \in Gates \ {"ten"} : gates'[g] = gates[g]
  BY <1>1, <1>2, <1>4, AddingItems
<1>6. Added({"ten"})
  <2>1. Item(status).seed = seed
    BY DEF Item
  <2>2. ASSUME NEW g \in Gates
        PROVE  /\ gates[g] \subseteq gates'[g]
               /\ \A i \in gates'[g] : i \in gates[g] \/ (g \in {"ten"} /\ i.seed = suite.seed)
    <3>1. CASE g = "ten"
      BY <1>5, <2>1, <3>1
    <3>2. CASE g # "ten"
      BY <1>5, <3>2
    <3> QED BY <3>1, <3>2
  <2> QED BY <2>2 DEF Added
<1>7. /\ case.status \in Endings /\ report.statuses \in Seq(Endings) /\ seed \in 1..MaxSeeds
      /\ Len(report.statuses) = seed - 1 /\ suite.seeds \in 1..MaxSeeds /\ seed <= suite.seeds
      /\ ~report.ready /\ report.ready \in BOOLEAN
  BY <1>1, <1>3 DEF CaseTold, CasePhases, SuiteTypes
<1> DEFINE t == Append(report.statuses, case.status)
<1>8. /\ t \in Seq(Endings) /\ Len(t) = seed /\ DOMAIN t = 1..seed /\ t[seed] = case.status
      /\ \A i \in 1..(seed - 1) : t[i] = report.statuses[i] /\ i \in DOMAIN report.statuses
  BY <1>7
<1>9. report'.statuses = t /\ report'.ready = report.ready
  BY <1>1, <1>3 DEF SuiteTypes
<1> HIDE DEF t
<1>10. report' \in [builds : {"pass", "fail", "unverified"}, statuses : Seq(Endings),
                    written : BOOLEAN, ready : BOOLEAN]
  <2>1. report' = [report EXCEPT !.statuses = t]
    BY <1>3 DEF t
  <2> QED BY <1>1, <1>8, <2>1 DEF SuiteTypes
<1>11. /\ suite' \in [phase : SuiteStages, seed : 1..MaxSeeds, seeds : 1..MaxSeeds,
                      strict : BOOLEAN, parallel : BOOLEAN, single : BOOLEAN]
       /\ suite'.seeds = suite.seeds /\ suite'.single = suite.single
       /\ \/ suite'.phase = "source" /\ suite'.seed = seed + 1 /\ seed < suite.seeds
          \/ suite'.phase = "report" /\ suite'.seed = seed /\ seed = suite.seeds
  <2>1. CASE seed < suite.seeds
    <3>1. suite' = [suite EXCEPT !.phase = "source", !.seed = seed + 1]
      BY <1>3, <2>1
    <3>2. seed + 1 \in 1..MaxSeeds
      BY <1>7, <2>1, SuiteAssumption
    <3> QED BY <1>1, <2>1, <3>1, <3>2 DEF SuiteTypes, SuiteStages
  <2>2. CASE ~(seed < suite.seeds)
    <3>1. suite' = [suite EXCEPT !.phase = "report"]
      BY <1>3, <2>2
    <3>2. seed = suite.seeds
      BY <1>7, <2>2
    <3> QED BY <1>1, <3>1, <3>2 DEF SuiteTypes, SuiteStages
  <2> QED BY <2>1, <2>2
<1>12. suite'.seed <= suite'.seeds /\ seed <= suite'.seed
  BY <1>7, <1>11
<1>13. SuiteTypes'
  <2>1. case' \in [status : Endings \cup {"running"}, attempts : Nat, passed : Nat, cycle : BOOLEAN]
    BY <1>3 DEF NoCase
  <2> QED BY <1>1, <1>3, <1>5, <1>10, <1>11, <1>12, <2>1 DEF SuiteTypes
<1>14. GatesTrue'
  <2>1. /\ gates'["recording"] = gates["recording"] /\ gates'["replay"] = gates["replay"]
        /\ gates'["recovery"] = gates["recovery"] /\ gates'["cycle"] = gates["cycle"]
    BY <1>4, <1>5
  <2> QED BY <1>1, <1>3, <2>1 DEF GatesTrue, Has
<1>15. CasePhases'
  <2>1. gates'["recording"] = gates["recording"] /\ gates'["replay"] = gates["replay"]
    BY <1>4, <1>5
  <2>2. \A i \in gates["recording"] : i.seed <= seed /\ i.seed \in Nat
    BY <1>1, <1>4 DEF CasePhases, SuiteTypes, GateItems
  <2>3. \A i \in gates'["recording"] : i.seed <= suite'.seed
    BY <1>7, <1>11, <2>1, <2>2
  <2>4. suite'.phase = "source" => \A i \in gates'["recording"] : i.seed # suite'.seed
    BY <1>7, <1>11, <2>1, <2>2
  <2>5. cold'.phase = "idle"
    BY <1>3, FreshBooks
  <2>6. /\ suite'.phase \notin {"report", "done"} => Len(report'.statuses) = suite'.seed - 1
        /\ Len(report'.statuses) <= suite'.seed
    BY <1>7, <1>8, <1>9, <1>11
  <2>7. suite.single => gates["replay"] = {}
    BY <1>1 DEF CasePhases
  <2> QED BY <1>7, <1>9, <1>11, <2>1, <2>3, <2>4, <2>5, <2>6, <2>7 DEF CasePhases, Recorded
<1>16. CaseTold'
  <2>1. ASSUME NEW i \in 1..seed, t[i] # "completed" PROVE Spoiled(i)'
    <3>1. Spoiled(i)
      <4>1. CASE i = seed
        BY <1>1, <1>3, <1>8, <2>1, <4>1 DEF CaseTold
      <4>2. CASE i # seed
        <5>1. i \in 1..(seed - 1)
          BY <1>7, <4>2
        <5> QED BY <1>1, <1>8, <2>1, <5>1 DEF CaseTold
      <4> QED BY <4>1, <4>2
    <3>2. "recording" \notin {"ten"}
      OBVIOUS
    <3> QED BY <1>6, <3>1, <3>2, StillHas
  <2>2. suite'.phase \notin {"replays", "close"}
    BY <1>11
  <2> QED BY <1>8, <1>9, <2>1, <2>2 DEF CaseTold
<1>17. ReadyReal'
  BY <1>7, <1>9, NotReadyYet
<1> QED BY <1>13, <1>14, <1>15, <1>16, <1>17 DEF SuiteInv

(* Every gate passes: each seed has its items, all of them passes.         *)
LEMMA PassesEverywhere ==
    ASSUME SuiteInv, \A name \in Tested : CheckPasses(name), NEW s \in 1..suite.seeds
    PROVE  (\A name \in Tested : Has(name, s, "pass") /\ ~Has(name, s, "fail")) /\ ~Spoiled(s)
<1>1. SuiteTypes
  BY DEF SuiteInv
<1>2. ASSUME NEW name \in Tested PROVE Has(name, s, "pass") /\ ~Has(name, s, "fail")
  <2>1. {i.seed : i \in gates[name]} = 1..suite.seeds /\ \A i \in gates[name] : i.status = "pass"
    <3>1. CheckPasses(name) /\ name # "profile"
      BY DEF Tested
    <3>2. Covered(name) /\ \A i \in gates[name] : i.status = "pass"
      BY <3>1 DEF CheckPasses
    <3> QED BY <3>1, <3>2 DEF Covered
  <2>2. PICK i \in gates[name] : i.seed = s
    BY <2>1
  <2>3. i \in GateItems
    BY <1>1 DEF SuiteTypes, Tested
  <2>4. i = [seed |-> s, status |-> "pass"]
    BY <2>1, <2>2, <2>3 DEF GateItems
  <2> QED BY <2>1, <2>4 DEF Has
<1>3. Recorded(s)
  <2>1. "recording" \in Tested
    BY DEF Tested, Gates, SourceGates
  <2>2. [seed |-> s, status |-> "pass"] \in gates["recording"]
    BY <1>2, <2>1 DEF Has
  <2> QED BY <2>2 DEF Recorded
<1> QED BY <1>2, <1>3 DEF Spoiled

(* The report: ready only when every seed really did what it claims.       *)
LEMMA ReportKeepsSuite ==
    ASSUME SuiteInv, WriteReport
    PROVE  SuiteInv'
<1>1. SuiteTypes /\ GatesTrue /\ CasePhases /\ CaseTold
  BY DEF SuiteInv
<1>2. PICK same \in BOOLEAN :
          /\ gates' = Adding({"profile"}, IF same THEN "pass" ELSE "fail")
          /\ report' = [report EXCEPT !.written = TRUE, !.ready = Readiness /\ same]
  BY DEF WriteReport
<1> DEFINE status == IF same THEN "pass" ELSE "fail"
           ready == Readiness /\ same
<1>3. suite.phase = "report" /\ Phase("done") /\ UNCHANGED <<case, truth>>
  BY DEF WriteReport
<1>4. status \in {"pass", "fail"} /\ ready \in BOOLEAN
  BY DEF Readiness, CheckPasses
<1> HIDE DEF status, ready
<1>5. /\ {"profile"} \in SUBSET Gates /\ "profile" \notin Tested /\ Tested \subseteq Gates
      /\ {"recording", "replay", "recovery", "cycle"} \subseteq Tested
  BY DEF Gates, SourceGates, ReplayGates, ColdGates, Tested
<1>6. /\ gates' \in [Gates -> SUBSET GateItems]
      /\ \A g \in Tested : gates'[g] = gates[g]
  <2>1. /\ Adding({"profile"}, status) \in [Gates -> SUBSET GateItems]
        /\ \A g \in Gates \ {"profile"} : Adding({"profile"}, status)[g] = gates[g]
    BY <1>1, <1>4, <1>5, AddingItems
  <2>2. gates' = Adding({"profile"}, status)
    BY <1>2 DEF status
  <2> QED BY <2>1, <2>2, <1>5 DEF Tested
<1>7. \A g \in Tested : \A s, x : Has(g, s, x)' <=> Has(g, s, x)
  BY <1>6 DEF Has
<1>8. /\ report' \in [builds : {"pass", "fail", "unverified"}, statuses : Seq(Endings),
                      written : BOOLEAN, ready : BOOLEAN]
      /\ report'.ready = ready /\ report'.statuses = report.statuses /\ report'.builds = report.builds
  <2>1. report' = [report EXCEPT !.written = TRUE, !.ready = ready]
    BY <1>2 DEF ready
  <2> QED BY <1>1, <1>4, <2>1 DEF SuiteTypes
<1>9. /\ suite' \in [phase : SuiteStages, seed : 1..MaxSeeds, seeds : 1..MaxSeeds,
                     strict : BOOLEAN, parallel : BOOLEAN, single : BOOLEAN]
      /\ suite'.seed = suite.seed /\ suite'.seeds = suite.seeds /\ suite'.single = suite.single
      /\ suite'.phase = "done" /\ suite'.strict = suite.strict
  BY <1>1, <1>3 DEF SuiteTypes, Phase, SuiteStages
<1>10. SuiteTypes'
  BY <1>1, <1>3, <1>6, <1>8, <1>9 DEF SuiteTypes
<1>11. GatesTrue'
  BY <1>1, <1>3, <1>5, <1>7 DEF GatesTrue
<1>12. gates'["recording"] = gates["recording"] /\ gates'["replay"] = gates["replay"]
  BY <1>5, <1>6
<1>13. CasePhases'
  BY <1>1, <1>3, <1>8, <1>9, <1>12 DEF CasePhases, Recorded
<1>14. \A s : Spoiled(s)' <=> Spoiled(s)
  BY <1>7, <1>12 DEF Spoiled, Recorded
<1>15. CaseTold'
  BY <1>1, <1>8, <1>9, <1>14 DEF CaseTold
<1>16. ReadyReal'
  <2>1. SUFFICES ASSUME ready
                 PROVE  /\ report.builds = "pass" /\ suite.strict /\ ~suite.single
                        /\ \A s \in 1..suite.seeds :
                               truth[s] = [source |-> TRUE, cycle |-> TRUE, colds |-> Repeats, recovery |-> TRUE]
                        /\ \A i \in DOMAIN report.statuses : report.statuses[i] = "completed"
    BY <1>3, <1>8, <1>9 DEF ReadyReal
  <2>2. /\ report.builds = "pass" /\ suite.strict
        /\ \A name \in Tested : CheckPasses(name)
    BY <2>1 DEF ready, Readiness, Tested
  <2>3. suite.seed = suite.seeds /\ suite.seed \in 1..MaxSeeds
    BY <1>1, <1>3 DEF CasePhases, SuiteTypes
  <2>4. ~suite.single
    <3>1. gates["replay"] # {}
      BY <1>5, <2>2 DEF CheckPasses
    <3> QED BY <1>1, <3>1 DEF CasePhases
  <2>5. ASSUME NEW s \in 1..suite.seeds
        PROVE  truth[s] = [source |-> TRUE, cycle |-> TRUE, colds |-> Repeats, recovery |-> TRUE]
    <3>1. s \in 1..MaxSeeds
      <4>1. suite.seed = suite.seeds /\ suite.seed \in 1..MaxSeeds /\ MaxSeeds \in Nat
        BY <2>3, SuiteAssumption
      <4> QED BY <4>1
    <3>2. \A name \in Tested : Has(name, s, "pass") /\ ~Has(name, s, "fail")
      BY <2>2, PassesEverywhere
    <3>3. truth[s].source /\ truth[s].cycle /\ truth[s].colds = Repeats /\ truth[s].recovery
      BY <1>1, <1>5, <3>1, <3>2 DEF GatesTrue
    <3>4. truth[s] \in Truths
      BY <1>1, <3>1 DEF SuiteTypes
    <3> QED BY <3>3, <3>4 DEF Truths
  <2>6. ASSUME NEW i \in DOMAIN report.statuses PROVE report.statuses[i] = "completed"
    <3>1. report.statuses \in Seq(Endings) /\ Len(report.statuses) <= suite.seed
      BY <1>1 DEF SuiteTypes, CasePhases
    <3>2. i \in 1..suite.seeds
      BY <3>1, <2>3
    <3>3. ~Spoiled(i)
      BY <2>2, <3>2, PassesEverywhere
    <3> QED BY <1>1, <3>3 DEF CaseTold
  <2> QED BY <2>2, <2>4, <2>5, <2>6
<1> QED BY <1>10, <1>11, <1>13, <1>15, <1>16 DEF SuiteInv

(* The suite begins with nothing told.                                     *)
LEMMA InitSuiteInv ==
    ASSUME Init
    PROVE  ColdInv /\ SuiteInv
<1>1. ColdInv
  BY ColdInitInv DEF Init
<1>2. /\ suite.phase = "build" /\ suite.seed = 1 /\ gates = [g \in Gates |-> {}] /\ case = NoCase
      /\ suite.seeds \in 1..MaxSeeds /\ cold.phase = "idle"
      /\ report = [builds |-> "unverified", statuses |-> <<>>, written |-> FALSE, ready |-> FALSE]
      /\ truth = [s \in 1..MaxSeeds |-> Untrue]
  BY FreshBooks DEF Init, ColdInit
<1>3. "recording" \in Gates /\ "replay" \in Gates /\ "recovery" \in Gates
  BY DEF Gates, SourceGates, ReplayGates
<1>4. SuiteTypes
  <2>1. suite \in [phase : SuiteStages, seed : 1..MaxSeeds, seeds : 1..MaxSeeds,
                   strict : BOOLEAN, parallel : BOOLEAN, single : BOOLEAN] /\ suite.seed <= suite.seeds
    BY <1>2, SuiteAssumption DEF Init, SuiteStages
  <2>2. case \in [status : Endings \cup {"running"}, attempts : Nat, passed : Nat, cycle : BOOLEAN]
    BY <1>2 DEF NoCase
  <2>3. report \in [builds : {"pass", "fail", "unverified"}, statuses : Seq(Endings),
                    written : BOOLEAN, ready : BOOLEAN]
    BY <1>2
  <2>4. Untrue \in Truths
    BY DEF Untrue, Truths
  <2> QED BY <1>2, <2>1, <2>2, <2>3, <2>4 DEF SuiteTypes
<1>5. GatesTrue
  BY <1>2, <1>3 DEF GatesTrue, Has
<1>6. CasePhases /\ CaseTold /\ ReadyReal
  BY <1>2, <1>3 DEF CasePhases, CaseTold, ReadyReal, Recorded
<1> QED BY <1>1, <1>4, <1>5, <1>6 DEF SuiteInv

(* Every step of the suite keeps both invariants.                          *)
LEMMA SuiteKeepsInv ==
    ASSUME ColdInv, SuiteInv, [Next]_vars
    PROVE  ColdInv' /\ SuiteInv'
<1>1. faults \in 0..MaxFaults
  BY DEF ColdInv, ColdTypes
<1>2. (Well \/ Fault) => faults' \in 0..MaxFaults
  BY <1>1, ColdAssumption DEF Well, Fault
<1>3. CASE Builds
  BY <1>2, <1>3, ColdStays, BuildsKeepsSuite DEF Builds
<1>4. CASE PlaySource
  BY <1>2, <1>4, ColdStays, PlaySourceKeepsSuite DEF PlaySource, PlaysSource
<1>5. CASE Branch
  BY <1>5, BranchKeepsCold, BranchKeepsSuite
<1>6. CASE SerialCold
  BY <1>6, SerialKeepsCold, ReplaysKeepSuite DEF SerialCold
<1>7. CASE MergeColds
  <2>1. NoCold /\ faults' = faults
    BY <1>7 DEF MergeColds, coldVars, NoCold
  <2> QED BY <1>1, <1>7, <2>1, ColdStays, MergeKeepsSuite
<1>8. CASE RecoveryProbe
  BY <1>2, <1>8, ColdStays, RecoveryKeepsSuite DEF RecoveryProbe
<1>9. CASE CloseCase
  BY <1>9, CloseRenewsBooks, CloseKeepsSuite
<1>10. CASE WriteReport
  BY <1>2, <1>10, ColdStays, ReportKeepsSuite DEF WriteReport
<1>11. CASE ParallelStep
  BY <1>11, ColdKeepsInv, ReplaysKeepSuite DEF ParallelStep
<1>12. CASE UNCHANGED vars
  <2>1. NoCold /\ faults' = faults /\ UNCHANGED suiteVars /\ cold'.phase = cold.phase
    BY <1>12 DEF vars, coldVars, NoCold
  <2> QED BY <1>1, <2>1, ColdStays, ReplaysKeepSuite
<1> QED BY <1>3, <1>4, <1>5, <1>6, <1>7, <1>8, <1>9, <1>10, <1>11, <1>12 DEF Next, SuiteStep

----------------------------------------------------------------------------
(* the theorems *)

(* Both invariants hold of every suite.                                    *)
THEOREM SuiteInvariant == Spec => [](ColdInv /\ SuiteInv)
<1>1. Init => ColdInv /\ SuiteInv
  BY InitSuiteInv
<1>2. ColdInv /\ SuiteInv /\ [Next]_vars => (ColdInv /\ SuiteInv)'
  BY SuiteKeepsInv
<1> QED BY <1>1, <1>2, PTL DEF Spec

(* Whatever is interrupted or fails, every replay is queued, running or    *)
(* reported, once; at most two games run; and nothing is left behind by    *)
(* replays that all passed.                                                *)
THEOREM ReplaysAccounted == Spec => []ColdsAccounted
<1>1. ColdInv /\ SuiteInv => ColdsAccounted
  BY ColdInvTells
<1> QED BY <1>1, SuiteInvariant, PTL

(* A replay that counts as passed was really made by its worker.           *)
THEOREM PassesReal == Spec => []PassedReal
<1>1. ColdInv /\ SuiteInv => PassedReal
  BY ColdInvTells
<1> QED BY <1>1, SuiteInvariant, PTL

(* A suite that is reported ready did all of it, for every seed.           *)
THEOREM ReadinessReal == Spec => []ReadyReal
<1>1. ColdInv /\ SuiteInv => ReadyReal
  BY DEF SuiteInv
<1> QED BY <1>1, SuiteInvariant, PTL


----------------------------------------------------------------------------
(* The window observer (WindowObserver), for any gap and scan interval and *)
(* any number of faults: what its verdict is worth.  The argument is about *)
(* time: while the verdict can still be a pass, nothing has been exposed   *)
(* for longer than since the last probe could have seen it.                *)

(* Types. *)

ParentPhases == {"new", "starting", "open", "signal", "join", "closed", "result", "done"}
Parents == [phase : ParentPhases, runtime : BOOLEAN, started : BOOLEAN, stopped : BOOLEAN,
            healthy : BOOLEAN, verdict : {"none", "pass", "fail", "unverified"}]
WorkerPhases == {"none", "begin", "top", "read", "write", "seal", "exited"}
Samplers == [phase : WorkerPhases, stopping : BOOLEAN, age : Nat, target : BOOLEAN, held : SUBSET Handles,
            scan : Nat, errors : BOOLEAN, front : BOOLEAN, shown : BOOLEAN, hidden : BOOLEAN]
Files == [control : BOOLEAN, target : BOOLEAN, ready : {"none", "good", "bad"}, lock : BOOLEAN,
          stop : BOOLEAN, seal : {"none", "requested_stop", "target_exited", "worker_error"},
               whole : BOOLEAN]
Samples == [n : 0..2, since : Nat, after : BOOLEAN, gap : BOOLEAN, bad : BOOLEAN, front : BOOLEAN,
            shown : BOOLEAN, target : BOOLEAN, hidden : BOOLEAN]
Exposures == [front : Nat, shown : [Handles -> Nat], long : BOOLEAN, ever : BOOLEAN]
Showings == {"none", "hidden", "visible", "foreign"}
Games == [runs : BOOLEAN, front : BOOLEAN, acts : Nat,
          win : [Handles -> Showings]]

TypesInv ==
    /\ parent \in Parents
    /\ worker \in Samplers
    /\ files \in Files
    /\ taken \in Samples
    /\ game \in Games
    /\ exposed \in Exposures
    /\ failures \in 0..MaxFailures

----------------------------------------------------------------------------
(* The protocol: where the two processes can be together. *)

ProtocolInv ==
    /\ parent.phase = "new" => worker.phase = "none" /\ files.seal = "none"
    /\ worker.phase \in {"none", "begin"} => taken.n = 0 /\ ~worker.target
    /\ worker.phase \notin {"seal", "exited"} => files.seal = "none"
    /\ parent.phase # "new" => worker.phase # "none"
    /\ parent.phase # "new" /\ ~files.lock => worker.phase = "exited"
    /\ files.ready # "none" => taken.n > 0
    /\ parent.phase = "open" => files.ready = "good"
    /\ worker.stopping \/ files.seal = "requested_stop" => files.stop
    /\ files.stop => parent.phase \notin {"new", "starting", "open", "signal"}
    /\ worker.target => files.target
    /\ worker.scan > 0 => worker.target
    /\ worker.scan <= ScanEvery
    /\ worker.phase \in {"none", "begin", "top", "read"} => ~worker.front /\ ~worker.shown
    /\ parent.phase \in {"closed", "result", "done"} /\ parent.healthy => worker.phase = "exited"
    /\ parent.verdict # "none" => parent.phase = "done"

(* Whatever was seen was there. *)
SeenInv ==
    /\ Seen(game) => exposed.ever
    /\ worker.front \/ worker.shown \/ taken.front \/ taken.shown => exposed.ever
    /\ parent.verdict = "fail" => exposed.ever

----------------------------------------------------------------------------
(* Time. *)

(* A pass is no longer possible: something is wrong, something was seen, or*)
(* the sample under way will be a gap or too slow.                         *)
Doomed ==
    \/ ~parent.healthy \/ ~files.whole \/ worker.errors
    \/ taken.gap \/ taken.bad \/ taken.front \/ taken.shown
    \/ worker.phase \in {"seal", "exited"} /\ files.seal # "requested_stop"
    \/ worker.phase = "write" /\ (worker.front \/ worker.shown)
    \/ worker.phase \in {"top", "read", "write"} /\ taken.n > 0 /\ taken.since > 2 * MaxGap
    \/ worker.phase \in {"read", "write"} /\ worker.age > MaxGap

(* How long ago the last probe was, at most.                               *)
Lag == IF worker.phase = "write" THEN worker.age ELSE taken.since

(* Nothing is counted out of the time that the verdict is about.           *)
Idle ==
    /\ ~game.front \/ ~InScope => exposed.front = 0
    /\ \A h \in Handles : game.win[h] # "visible" \/ ~InScope \/ ~files.target => exposed.shown[h] = 0

(* While a pass is possible, the foreground was held for no longer than    *)
(* since the last probe; a window was shown for no longer than that when   *)
(* its handle is held, or than since the last scan when it is not.         *)
Bounded(h) ==
    /\ exposed.shown[h] <= ScanEvery + Lag
    /\ h \in worker.held => exposed.shown[h] <= Lag
    /\ h \notin worker.held /\ worker.scan > 0 => exposed.shown[h] + worker.scan <= ScanEvery
    /\ worker.phase \in {"read", "write"} /\ ~worker.target => exposed.shown[h] <= worker.age
Fresh ==
    /\ exposed.front <= Lag
    /\ \A h \in Handles : Bounded(h)

TimeInv ==
    /\ Idle
    /\ ~Doomed => Fresh
    /\ exposed.long => Doomed
    /\ parent.verdict = "pass" => ~exposed.long

ObserverInv == TypesInv /\ ProtocolInv /\ SeenInv /\ TimeInv

----------------------------------------------------------------------------
(* The types under one step; documents appear, nothing else is published.  *)

(* Publishing adds documents and changes nothing else that the files hold  *)
(* (_publish_once).                                                        *)
LEMMA Documents ==
    ASSUME files \in Files, NEW docs, docs \subseteq {"lock", "control", "target"}
    PROVE  /\ Publish(docs) \in Files
           /\ Publish(docs).target = ("target" \in docs \/ files.target)
           /\ Publish(docs).control = ("control" \in docs \/ files.control)
           /\ Publish(docs).lock = ("lock" \in docs \/ files.lock)
           /\ Publish(docs).ready = files.ready /\ Publish(docs).stop = files.stop
           /\ Publish(docs).seal = files.seal /\ Publish(docs).whole = files.whole
BY DEF Files, Publish

(* What was not exposed at all is within every bound.                      *)
LEMMA Unexposed ==
    ASSUME TypesInv', exposed'.front = 0, \A h \in Handles : exposed'.shown[h] = 0,
           worker'.scan <= ScanEvery
    PROVE  Fresh'
BY ObserverAssumption DEF TypesInv, Fresh, Bounded, Lag, Samplers, Samples, Exposures

----------------------------------------------------------------------------
(* The monitor. *)

(* The context is entered: until now nothing was counted.                  *)
LEMMA ReadyKeeps == ASSUME ObserverInv, Ready PROVE ObserverInv'
<1> USE ObserverAssumption DEF Ready, ParentStep, WorkerStep, Fine, Fails
<1> USE DEF ObserverInv, InScope
<1>1. TypesInv'
  <2>1. parent' \in Parents
    BY DEF TypesInv, Parents, ParentPhases
  <2>2. UNCHANGED <<worker, files, taken, game, exposed, failures>>
    OBVIOUS
  <2> QED BY <2>1, <2>2 DEF TypesInv
<1>2. ProtocolInv'
  BY DEF ProtocolInv, Parents
<1>3. SeenInv'
  BY DEF SeenInv, Parents
<1>4. Doomed => Doomed'
  BY DEF Doomed, Parents
<1>5. Idle'
  BY DEF TimeInv, Idle, Parents
<1>6. ~Doomed' => Fresh'
  <2>1. exposed'.front = 0 /\ \A h \in Handles : exposed'.shown[h] = 0
    BY DEF TimeInv, Idle, Parents
  <2>2. worker'.scan <= ScanEvery
    BY <1>2 DEF ProtocolInv
  <2> QED BY <1>1, <2>1, <2>2, Unexposed
<1>7. /\ exposed'.long => Doomed'
      /\ parent'.verdict = "pass" => ~exposed'.long
  BY <1>4 DEF TimeInv, Parents
<1> QED BY <1>1, <1>2, <1>3, <1>5, <1>6, <1>7 DEF TimeInv

(* The context is left: from now on nothing is counted.                    *)
LEMMA ExitKeeps == ASSUME ObserverInv, Exit PROVE ObserverInv'
<1> USE ObserverAssumption DEF Exit, ParentStep, WorkerStep, Fine, Fails
<1> USE DEF ObserverInv, InScope
<1>1. TypesInv'
  <2>1. parent' \in Parents
    BY DEF TypesInv, Parents, ParentPhases
  <2>2. exposed' \in Exposures
    BY DEF TypesInv, Exposures
  <2>3. UNCHANGED <<worker, files, taken, game, failures>>
    OBVIOUS
  <2> QED BY <2>1, <2>2, <2>3 DEF TypesInv
<1>2. ProtocolInv'
  BY DEF ProtocolInv, Parents, Exposures
<1>3. SeenInv'
  BY DEF SeenInv, Parents, Exposures
<1>4. Doomed => Doomed'
  BY DEF TypesInv, Doomed, Parents, Exposures
<1>5. Idle'
  BY DEF TimeInv, Idle, Parents, Exposures
<1>6. ~Doomed' => Fresh'
  <2>1. exposed'.front = 0 /\ \A h \in Handles : exposed'.shown[h] = 0
    BY DEF TimeInv, Idle, Parents, Exposures
  <2>2. worker'.scan <= ScanEvery
    BY <1>2 DEF ProtocolInv
  <2> QED BY <1>1, <2>1, <2>2, Unexposed
<1>7. /\ exposed'.long => Doomed'
      /\ parent'.verdict = "pass" => ~exposed'.long
  BY <1>4 DEF TimeInv, Parents, Exposures
<1> QED BY <1>1, <1>2, <1>3, <1>5, <1>6, <1>7 DEF TimeInv

(* A start that took too long is unhealthy, and never in scope.            *)
LEMMA StartTimesOutKeeps == ASSUME ObserverInv, StartTimesOut PROVE ObserverInv'
<1> USE ObserverAssumption DEF StartTimesOut, ParentStep, WorkerStep, Fine, Fails
<1> USE DEF ObserverInv, InScope
<1>1. TypesInv'
  <2>1. parent' \in Parents
    BY DEF TypesInv, Parents, ParentPhases
  <2>2. failures' \in 0..MaxFailures
    BY DEF TypesInv
  <2>3. UNCHANGED <<worker, files, taken, game, exposed>>
    OBVIOUS
  <2> QED BY <2>1, <2>2, <2>3 DEF TypesInv
<1>2. ProtocolInv'
  BY DEF ProtocolInv, Parents
<1>3. SeenInv'
  BY DEF SeenInv, Parents
<1>4. Doomed => Doomed'
  BY DEF Doomed, Parents
<1>5. Idle'
  BY DEF TimeInv, Idle, Parents
<1>6. ~Doomed' => Fresh'
  <2>1. exposed'.front = 0 /\ \A h \in Handles : exposed'.shown[h] = 0
    BY DEF TimeInv, Idle, Parents
  <2>2. worker'.scan <= ScanEvery
    BY <1>2 DEF ProtocolInv
  <2> QED BY <1>1, <2>1, <2>2, Unexposed
<1>7. /\ exposed'.long => Doomed'
      /\ parent'.verdict = "pass" => ~exposed'.long
  BY <1>4 DEF TimeInv, Parents
<1> QED BY <1>1, <1>2, <1>3, <1>5, <1>6, <1>7 DEF TimeInv

(* The stop event, set or not, comes after the time that counts.           *)
LEMMA SignalKeeps == ASSUME ObserverInv, Signal PROVE ObserverInv'
<1> USE ObserverAssumption DEF Signal, SetEvent, ParentStep, WorkerStep, Fine, Fails
<1> USE DEF ObserverInv, InScope
<1>1. CASE SetEvent /\ parent' = [parent EXCEPT !.phase = "join"] /\ Fine
  <2>1. TypesInv'
    <3>1. parent' \in Parents
      BY <1>1 DEF TypesInv, Parents, ParentPhases
    <3>2. files' \in Files
      BY <1>1 DEF TypesInv, Files
    <3>3. UNCHANGED <<worker, taken, game, exposed, failures>>
      BY <1>1
    <3> QED BY <3>1, <3>2, <3>3 DEF TypesInv
  <2>2. ProtocolInv'
    <3>1. /\ files'.seal = files.seal /\ files'.lock = files.lock /\ files'.ready = files.ready
          /\ files'.target = files.target /\ files'.stop = TRUE
      BY <1>1 DEF Files
    <3>2. parent'.phase = "join" /\ parent'.healthy = parent.healthy /\ parent'.verdict = parent.verdict
      BY <1>1 DEF Parents
    <3>3. UNCHANGED <<worker, taken, game, exposed>> /\ parent.phase = "signal" /\ ProtocolInv /\ SeenInv
      BY <1>1
    <3> QED BY ONLY <3>1, <3>2, <3>3 DEF ProtocolInv
  <2>3. SeenInv'
    <3>1. parent'.verdict = parent.verdict
      BY <1>1 DEF Parents
    <3>2. UNCHANGED <<worker, taken, game, exposed>> /\ SeenInv
      BY <1>1
    <3> QED BY ONLY <3>1, <3>2 DEF SeenInv
  <2>4. Doomed => Doomed'
    BY <1>1 DEF Doomed, Parents, Files
  <2>5. Idle'
    BY <1>1 DEF TimeInv, Idle, Parents, Files
  <2>6. ~Doomed' => Fresh'
    <3>1. exposed'.front = 0 /\ \A h \in Handles : exposed'.shown[h] = 0
      BY <1>1 DEF TimeInv, Idle, Parents, Files
    <3>2. worker'.scan <= ScanEvery
      BY <2>2 DEF ProtocolInv
    <3> QED BY <2>1, <3>1, <3>2, Unexposed
  <2>7. /\ exposed'.long => Doomed'
        /\ parent'.verdict = "pass" => ~exposed'.long
    BY <1>1, <2>4 DEF TimeInv, Parents, Files
  <2> QED BY <2>1, <2>2, <2>3, <2>5, <2>6, <2>7 DEF TimeInv
<1>2. CASE UNCHANGED files /\ parent' = [parent EXCEPT !.phase = "join", !.healthy = FALSE] /\ Fails
  <2>1. TypesInv'
    <3>1. parent' \in Parents
      BY <1>2 DEF TypesInv, Parents, ParentPhases
    <3>2. failures' \in 0..MaxFailures
      BY <1>2 DEF TypesInv
    <3>3. UNCHANGED <<worker, files, taken, game, exposed>>
      BY <1>2
    <3> QED BY <3>1, <3>2, <3>3 DEF TypesInv
  <2>2. ProtocolInv'
    BY <1>2 DEF ProtocolInv, Parents
  <2>3. SeenInv'
    BY <1>2 DEF SeenInv, Parents
  <2>4. Doomed => Doomed'
    BY <1>2 DEF Doomed, Parents
  <2>5. Idle'
    BY <1>2 DEF TimeInv, Idle, Parents
  <2>6. ~Doomed' => Fresh'
    <3>1. exposed'.front = 0 /\ \A h \in Handles : exposed'.shown[h] = 0
      BY <1>2 DEF TimeInv, Idle, Parents
    <3>2. worker'.scan <= ScanEvery
      BY <2>2 DEF ProtocolInv
    <3> QED BY <2>1, <3>1, <3>2, Unexposed
  <2>7. /\ exposed'.long => Doomed'
        /\ parent'.verdict = "pass" => ~exposed'.long
    BY <1>2, <2>4 DEF TimeInv, Parents
  <2> QED BY <2>1, <2>2, <2>3, <2>5, <2>6, <2>7 DEF TimeInv
<1> QED BY <1>1, <1>2

(* Only a worker that exited leaves the monitor healthy.                   *)
LEMMA JoinKeeps == ASSUME ObserverInv, Join PROVE ObserverInv'
<1> USE ObserverAssumption DEF Join, Joined, Overdue, ParentStep, WorkerStep, Fine, Fails
<1> USE DEF ObserverInv, InScope
<1>1. CASE Joined /\ UNCHANGED worker
  <2>1. TypesInv'
    <3>1. parent' \in Parents
      BY <1>1 DEF TypesInv, Parents, ParentPhases
    <3>2. UNCHANGED <<worker, files, taken, game, exposed, failures>>
      BY <1>1
    <3> QED BY <3>1, <3>2 DEF TypesInv
  <2>2. ProtocolInv'
    <3>1. /\ parent'.phase = "closed" /\ (parent'.healthy => parent.healthy)
          /\ parent'.verdict = parent.verdict
      BY <1>1 DEF TypesInv, Parents
    <3>2. UNCHANGED <<worker, files, taken, game, exposed>> /\ parent.phase = "join"
      BY <1>1
    <3>3. ProtocolInv /\ worker.phase = "exited"
      BY <1>1
    <3> QED BY ONLY <3>1, <3>2, <3>3 DEF ProtocolInv
  <2>3. SeenInv'
    <3>1. /\ parent'.phase = "closed" /\ (parent'.healthy => parent.healthy)
          /\ parent'.verdict = parent.verdict
      BY <1>1 DEF TypesInv, Parents
    <3>2. UNCHANGED <<worker, files, taken, game, exposed>> /\ parent.phase = "join"
      BY <1>1
    <3>3. SeenInv
      OBVIOUS
    <3> QED BY ONLY <3>1, <3>2, <3>3 DEF SeenInv
  <2>4. Doomed => Doomed'
    BY <1>1 DEF TypesInv, Doomed, Parents
  <2>5. Idle'
    BY <1>1 DEF TimeInv, Idle, Parents
  <2>6. ~Doomed' => Fresh'
    <3>1. exposed'.front = 0 /\ \A h \in Handles : exposed'.shown[h] = 0
      BY <1>1 DEF TimeInv, Idle, Parents
    <3>2. worker'.scan <= ScanEvery
      BY <2>2 DEF ProtocolInv
    <3> QED BY <2>1, <3>1, <3>2, Unexposed
  <2>7. /\ exposed'.long => Doomed'
        /\ parent'.verdict = "pass" => ~exposed'.long
    BY <1>1, <2>4 DEF TypesInv, TimeInv, Parents
  <2> QED BY <2>1, <2>2, <2>3, <2>5, <2>6, <2>7 DEF TimeInv
<1>2. CASE Overdue /\ parent' = [parent EXCEPT !.phase = "closed", !.healthy = FALSE]
  <2>1. TypesInv'
    <3>1. parent' \in Parents
      BY <1>2 DEF TypesInv, Parents, ParentPhases
    <3>2. worker' \in Samplers
      BY <1>2 DEF TypesInv, Samplers, WorkerPhases
    <3>3. UNCHANGED <<files, taken, game, exposed, failures>>
      BY <1>2
    <3> QED BY <3>1, <3>2, <3>3 DEF TypesInv
  <2>2. ProtocolInv'
    BY <1>2 DEF TypesInv, ProtocolInv, Parents, Samplers
  <2>3. SeenInv'
    BY <1>2 DEF TypesInv, SeenInv, Parents, Samplers
  <2>4. Doomed => Doomed'
    BY <1>2 DEF Doomed, Parents, Samplers
  <2>5. Idle'
    BY <1>2 DEF TimeInv, Idle, Parents, Samplers
  <2>6. ~Doomed' => Fresh'
    <3>1. exposed'.front = 0 /\ \A h \in Handles : exposed'.shown[h] = 0
      BY <1>2 DEF TimeInv, Idle, Parents, Samplers
    <3>2. worker'.scan <= ScanEvery
      BY <2>2 DEF ProtocolInv
    <3> QED BY <2>1, <3>1, <3>2, Unexposed
  <2>7. /\ exposed'.long => Doomed'
        /\ parent'.verdict = "pass" => ~exposed'.long
    BY <1>2, <2>4 DEF TimeInv, Parents, Samplers
  <2> QED BY <2>1, <2>2, <2>3, <2>5, <2>6, <2>7 DEF TimeInv
<1> QED BY <1>1, <1>2

(* The lock goes with a worker that exited.                                *)
LEMMA UnlockKeeps == ASSUME ObserverInv, Unlock PROVE ObserverInv'
<1> USE ObserverAssumption DEF Unlock, ParentStep, WorkerStep, Fine, Fails
<1> USE DEF ObserverInv, InScope
<1>1. TypesInv'
  <2>1. parent' \in Parents
    BY DEF TypesInv, Parents, ParentPhases
  <2>2. files' \in Files
    BY DEF TypesInv, Files
  <2>3. UNCHANGED <<worker, taken, game, exposed, failures>>
    OBVIOUS
  <2> QED BY <2>1, <2>2, <2>3 DEF TypesInv
<1>2. ProtocolInv'
  BY DEF TypesInv, ProtocolInv, Parents, Files
<1>3. SeenInv'
  BY DEF SeenInv, Parents, Files
<1>4. Doomed => Doomed'
  BY DEF Doomed, Parents, Files
<1>5. Idle'
  BY DEF TimeInv, Idle, Parents, Files
<1>6. ~Doomed' => Fresh'
  <2>1. exposed'.front = 0 /\ \A h \in Handles : exposed'.shown[h] = 0
    BY DEF TimeInv, Idle, Parents, Files
  <2>2. worker'.scan <= ScanEvery
    BY <1>2 DEF ProtocolInv
  <2> QED BY <1>1, <2>1, <2>2, Unexposed
<1>7. /\ exposed'.long => Doomed'
      /\ parent'.verdict = "pass" => ~exposed'.long
  BY <1>4 DEF TimeInv, Parents, Files
<1> QED BY <1>1, <1>2, <1>3, <1>5, <1>6, <1>7 DEF TimeInv

----------------------------------------------------------------------------
(* The worker. *)

(* Before its loop the worker has taken no sample, so that the context is  *)
(* not open.                                                               *)
LEMMA BeginKeeps == ASSUME ObserverInv, Begin PROVE ObserverInv'
<1> USE ObserverAssumption DEF Begin, Breaks, Published, ParentStep, WorkerStep, Fine, Fails
<1> USE DEF ObserverInv, InScope
<1>1. CASE Published("control") /\ worker' = [worker EXCEPT !.phase = "top"] /\ UNCHANGED files /\ Fine
  <2>1. TypesInv'
    <3>1. worker' \in Samplers
      BY <1>1 DEF TypesInv, Samplers, WorkerPhases
    <3>2. UNCHANGED <<parent, files, taken, game, exposed, failures>>
      BY <1>1
    <3> QED BY <3>1, <3>2 DEF TypesInv
  <2>2. ProtocolInv'
    BY <1>1 DEF ProtocolInv, Samplers
  <2>3. SeenInv'
    BY <1>1 DEF SeenInv, Samplers
  <2>4. Doomed => Doomed'
    BY <1>1 DEF Doomed, Samplers
  <2>5. Idle'
    BY <1>1 DEF TimeInv, Idle, Samplers
  <2>6. ~Doomed' => Fresh'
    <3>1. ~Doomed' => Fresh
      BY <2>4 DEF TimeInv
    <3> QED BY <3>1, <1>1 DEF Fresh, Bounded, Lag, TimeInv, Idle, Samplers
  <2>7. /\ exposed'.long => Doomed'
        /\ parent'.verdict = "pass" => ~exposed'.long
    BY <1>1, <2>4 DEF TimeInv, Samplers
  <2> QED BY <2>1, <2>2, <2>3, <2>5, <2>6, <2>7 DEF TimeInv
<1>2. CASE Breaks
  <2>1. TypesInv'
    <3>1. worker' \in Samplers
      BY <1>2 DEF TypesInv, Samplers, WorkerPhases
    <3>2. files' \in Files
      BY <1>2 DEF TypesInv, Files
    <3>3. failures' \in 0..MaxFailures
      BY <1>2 DEF TypesInv
    <3>4. UNCHANGED <<parent, taken, game, exposed>>
      BY <1>2
    <3> QED BY <3>1, <3>2, <3>3, <3>4 DEF TypesInv
  <2>2. ProtocolInv'
    BY <1>2 DEF ProtocolInv, Samplers, Files
  <2>3. SeenInv'
    BY <1>2 DEF SeenInv, Samplers, Files
  <2>4. Doomed => Doomed'
    BY <1>2 DEF Doomed, Samplers, Files
  <2>5. Idle'
    BY <1>2 DEF TimeInv, Idle, Samplers, Files
  <2>6. Doomed'
    BY <1>2 DEF Doomed, Samplers, Files
  <2>7. /\ exposed'.long => Doomed'
        /\ parent'.verdict = "pass" => ~exposed'.long
    BY <1>2, <2>4 DEF TimeInv, Samplers, Files
  <2> QED BY <2>1, <2>2, <2>3, <2>5, <2>6, <2>7 DEF TimeInv
<1> QED BY <1>1, <1>2

(* A sample is begun with no age; a target that is not known to the worker *)
(* was not bound before it.                                                *)
LEMMA LoopTopKeeps == ASSUME ObserverInv, LoopTop PROVE ObserverInv'
<1> USE ObserverAssumption DEF LoopTop, Breaks, Stops, Published, StopRequested, ParentStep,
     WorkerStep, Fine, Fails
<1> USE DEF ObserverInv, InScope
<1>1. CASE Published("target") /\ ~game.runs /\ Stops("target_exited") /\ Fine
  <2>1. TypesInv'
    <3>1. worker' \in Samplers
      BY <1>1 DEF TypesInv, Samplers, WorkerPhases
    <3>2. files' \in Files
      BY <1>1 DEF TypesInv, Files
    <3>3. UNCHANGED <<parent, taken, game, exposed, failures>>
      BY <1>1
    <3> QED BY <3>1, <3>2, <3>3 DEF TypesInv
  <2>2. ProtocolInv'
    BY <1>1 DEF ProtocolInv, Samplers, Files
  <2>3. SeenInv'
    BY <1>1 DEF SeenInv, Samplers, Files
  <2>4. Doomed => Doomed'
    BY <1>1 DEF Doomed, Samplers, Files
  <2>5. Idle'
    BY <1>1 DEF TimeInv, Idle, Samplers, Files
  <2>6. Doomed'
    BY <1>1 DEF Doomed, Samplers, Files
  <2>7. /\ exposed'.long => Doomed'
        /\ parent'.verdict = "pass" => ~exposed'.long
    BY <1>1, <2>4 DEF TimeInv, Samplers, Files
  <2> QED BY <2>1, <2>2, <2>3, <2>5, <2>6, <2>7 DEF TimeInv
<1>2. CASE /\ worker' = [worker EXCEPT !.phase = "read", !.target = files.target, !.stopping = files.stop, !.age = 0]
           /\ UNCHANGED files
           /\ Fine
  <2>1. TypesInv'
    <3>1. worker' \in Samplers
      <4>1. worker' = [worker EXCEPT !.phase = "read", !.target = files.target,
           !.stopping = files.stop, !.age = 0]
        BY <1>2
      <4>2. worker \in Samplers /\ files \in Files
        BY DEF TypesInv
      <4> QED BY ONLY <4>1, <4>2 DEF Samplers, WorkerPhases, Files
    <3>2. UNCHANGED <<parent, files, taken, game, exposed, failures>>
      BY <1>2
    <3> QED BY <3>1, <3>2 DEF TypesInv
  <2>2. ProtocolInv'
    BY <1>2 DEF ProtocolInv, Samplers
  <2>3. SeenInv'
    BY <1>2 DEF SeenInv, Samplers
  <2>4. Doomed => Doomed'
    BY <1>2 DEF Doomed, Samplers
  <2>5. Idle'
    BY <1>2 DEF TimeInv, Idle, Samplers
  <2>6. ~Doomed' => Fresh'
    <3>1. ~Doomed' => Fresh
      BY <2>4 DEF TimeInv
    <3> QED BY <3>1, <1>2 DEF Fresh, Bounded, Lag, TimeInv, Idle, Samplers
  <2>7. /\ exposed'.long => Doomed'
        /\ parent'.verdict = "pass" => ~exposed'.long
    BY <1>2, <2>4 DEF TimeInv, Samplers
  <2> QED BY <2>1, <2>2, <2>3, <2>5, <2>6, <2>7 DEF TimeInv
<1>3. CASE ~worker.target /\ Breaks
  <2>1. TypesInv'
    <3>1. worker' \in Samplers
      BY <1>3 DEF TypesInv, Samplers, WorkerPhases
    <3>2. files' \in Files
      BY <1>3 DEF TypesInv, Files
    <3>3. failures' \in 0..MaxFailures
      BY <1>3 DEF TypesInv
    <3>4. UNCHANGED <<parent, taken, game, exposed>>
      BY <1>3
    <3> QED BY <3>1, <3>2, <3>3, <3>4 DEF TypesInv
  <2>2. ProtocolInv'
    BY <1>3 DEF ProtocolInv, Samplers, Files
  <2>3. SeenInv'
    BY <1>3 DEF SeenInv, Samplers, Files
  <2>4. Doomed => Doomed'
    BY <1>3 DEF Doomed, Samplers, Files
  <2>5. Idle'
    BY <1>3 DEF TimeInv, Idle, Samplers, Files
  <2>6. Doomed'
    BY <1>3 DEF Doomed, Samplers, Files
  <2>7. /\ exposed'.long => Doomed'
        /\ parent'.verdict = "pass" => ~exposed'.long
    BY <1>3, <2>4 DEF TimeInv, Samplers, Files
  <2> QED BY <2>1, <2>2, <2>3, <2>5, <2>6, <2>7 DEF TimeInv
<1> QED BY <1>1, <1>2, <1>3

(* A written sample passes its age on, and what it missed or saw is in the *)
(* samples or in their gaps.                                               *)
LEMMA WriteSampleKeeps == ASSUME ObserverInv, WriteSample PROVE ObserverInv'
<1> USE ObserverAssumption DEF WriteSample, Stops, ParentStep, WorkerStep, Fine, Fails
<1> USE DEF ObserverInv, InScope
<1>1. CASE worker.stopping
  <2>1. TypesInv'
    <3>1. worker' \in Samplers
      BY <1>1 DEF TypesInv, Samplers, WorkerPhases
    <3>2. files' \in Files
      BY <1>1 DEF TypesInv, Files
    <3>3. taken' \in Samples
      BY <1>1 DEF TypesInv, Samples, Samplers, Parents
    <3>4. UNCHANGED <<parent, game, exposed, failures>>
      BY <1>1
    <3> QED BY <3>1, <3>2, <3>3, <3>4 DEF TypesInv
  <2>2. ProtocolInv'
    BY <1>1 DEF TypesInv, ProtocolInv, Samplers, Files, Samples
  <2>3. SeenInv'
    BY <1>1 DEF TypesInv, SeenInv, Samplers, Files, Samples
  <2>4. Doomed => Doomed'
    BY <1>1 DEF TypesInv, Doomed, Samplers, Files, Samples
  <2>5. Idle'
    BY <1>1 DEF TypesInv, TimeInv, Idle, Samplers, Files, Samples
  <2>6. ~Doomed' => Fresh'
    <3>1. ~Doomed' => Fresh
      BY <2>4 DEF TimeInv
    <3> QED BY <3>1, <1>1 DEF TypesInv, Fresh, Bounded, Lag, TimeInv, Idle, Samplers, Files, Samples
  <2>7. /\ exposed'.long => Doomed'
        /\ parent'.verdict = "pass" => ~exposed'.long
    BY <1>1, <2>4 DEF TimeInv, Samplers, Files, Samples
  <2> QED BY <2>1, <2>2, <2>3, <2>5, <2>6, <2>7 DEF TimeInv
<1>2. CASE /\ ~worker.stopping
           /\ worker' = [worker EXCEPT !.phase = "top", !.age = 0, !.front = FALSE, !.shown = FALSE, !.hidden = FALSE]
  <2>1. TypesInv'
    <3>1. worker' \in Samplers
      <4>1. worker' = [worker EXCEPT !.phase = "top", !.age = 0, !.front = FALSE, !.shown = FALSE,
           !.hidden = FALSE]
        BY <1>2
      <4>2. worker \in Samplers
        BY DEF TypesInv
      <4> QED BY ONLY <4>1, <4>2 DEF Samplers, WorkerPhases
    <3>2. files' \in Files
      BY <1>2 DEF TypesInv, Files
    <3>3. taken' \in Samples
      BY <1>2 DEF TypesInv, Samples, Samplers, Parents
    <3>4. UNCHANGED <<parent, game, exposed, failures>>
      BY <1>2
    <3> QED BY <3>1, <3>2, <3>3, <3>4 DEF TypesInv
  <2>2. ProtocolInv'
    BY <1>2 DEF TypesInv, ProtocolInv, Samplers, Files, Samples
  <2>3. SeenInv'
    BY <1>2 DEF TypesInv, SeenInv, Samplers, Files, Samples
  <2>4. Doomed => Doomed'
    BY <1>2 DEF TypesInv, Doomed, Samplers, Files, Samples
  <2>5. Idle'
    BY <1>2 DEF TypesInv, TimeInv, Idle, Samplers, Files, Samples
  <2>6. ~Doomed' => Fresh'
    <3>1. ~Doomed' => Fresh
      BY <2>4 DEF TimeInv
    <3> QED BY <3>1, <1>2 DEF Fresh, Bounded, Lag, TimeInv, Idle, Samplers, Files, Samples
  <2>7. /\ exposed'.long => Doomed'
        /\ parent'.verdict = "pass" => ~exposed'.long
    BY <1>2, <2>4 DEF TimeInv, Samplers, Files, Samples
  <2> QED BY <2>1, <2>2, <2>3, <2>5, <2>6, <2>7 DEF TimeInv
<1> QED BY <1>1, <1>2

(* The seal says what the loop left it.                                    *)
LEMMA SealSamplesKeeps == ASSUME ObserverInv, SealSamples PROVE ObserverInv'
<1> USE ObserverAssumption DEF SealSamples, ParentStep, WorkerStep, Fine, Fails
<1> USE DEF ObserverInv, InScope
<1>1. TypesInv'
  <2>1. worker' \in Samplers
    BY DEF TypesInv, Samplers, WorkerPhases
  <2>2. files' \in Files
    BY DEF TypesInv, Files
  <2>3. UNCHANGED <<parent, taken, game, exposed, failures>>
    OBVIOUS
  <2> QED BY <2>1, <2>2, <2>3 DEF TypesInv
<1>2. ProtocolInv'
  BY DEF ProtocolInv, Samplers, Files
<1>3. SeenInv'
  BY DEF SeenInv, Samplers, Files
<1>4. Doomed => Doomed'
  BY DEF Doomed, Samplers, Files
<1>5. Idle'
  BY DEF TimeInv, Idle, Samplers, Files
<1>6. ~Doomed' => Fresh'
  <2>1. ~Doomed' => Fresh
    BY <1>4 DEF TimeInv
  <2> QED BY <2>1 DEF Fresh, Bounded, Lag, TimeInv, Idle, Samplers, Files
<1>7. /\ exposed'.long => Doomed'
      /\ parent'.verdict = "pass" => ~exposed'.long
  BY <1>4 DEF TimeInv, Samplers, Files
<1> QED BY <1>1, <1>2, <1>3, <1>5, <1>6, <1>7 DEF TimeInv

(* Without a seal there is no pass.                                        *)
LEMMA WorkerDiesKeeps == ASSUME ObserverInv, WorkerDies PROVE ObserverInv'
<1> USE ObserverAssumption DEF WorkerDies, ParentStep, WorkerStep, Fine, Fails
<1> USE DEF ObserverInv, InScope
<1>1. TypesInv'
  <2>1. worker' \in Samplers
    BY DEF TypesInv, Samplers, WorkerPhases
  <2>2. files' \in Files
    BY DEF TypesInv, Files
  <2>3. failures' \in 0..MaxFailures
    BY DEF TypesInv
  <2>4. UNCHANGED <<parent, taken, game, exposed>>
    OBVIOUS
  <2> QED BY <2>1, <2>2, <2>3, <2>4 DEF TypesInv
<1>2. ProtocolInv'
  BY DEF ProtocolInv, Samplers, Files
<1>3. SeenInv'
  BY DEF SeenInv, Samplers, Files
<1>4. Doomed => Doomed'
  BY DEF Doomed, Samplers, Files
<1>5. Idle'
  BY DEF TimeInv, Idle, Samplers, Files
<1>6. Doomed'
  BY DEF Doomed, Samplers, Files
<1>7. /\ exposed'.long => Doomed'
      /\ parent'.verdict = "pass" => ~exposed'.long
  BY <1>4 DEF TimeInv, Samplers, Files
<1> QED BY <1>1, <1>2, <1>3, <1>5, <1>6, <1>7 DEF TimeInv

(* Damaged samples are no longer whole, and show no more than they did.    *)
LEMMA DamageKeeps == ASSUME ObserverInv, Damage PROVE ObserverInv'
<1> USE ObserverAssumption DEF Damage, ParentStep, WorkerStep, Fine, Fails
<1> USE DEF ObserverInv, InScope
<1>1. TypesInv'
  <2>1. files' \in Files
    BY DEF TypesInv, Files
  <2>2. taken' \in Samples
    BY DEF TypesInv, Samples, Samplers, Parents
  <2>3. failures' \in 0..MaxFailures
    BY DEF TypesInv
  <2>4. UNCHANGED <<parent, worker, game, exposed>>
    OBVIOUS
  <2> QED BY <2>1, <2>2, <2>3, <2>4 DEF TypesInv
<1>2. ProtocolInv'
  BY DEF ProtocolInv, Files, Samples
<1>3. SeenInv'
  BY DEF TypesInv, SeenInv, Files, Samples
<1>4. Doomed => Doomed'
  BY DEF Doomed, Files, Samples
<1>5. Idle'
  BY DEF TimeInv, Idle, Files, Samples
<1>6. Doomed'
  BY DEF Doomed, Files, Samples
<1>7. /\ exposed'.long => Doomed'
      /\ parent'.verdict = "pass" => ~exposed'.long
  BY <1>4 DEF TimeInv, Files, Samples
<1> QED BY <1>1, <1>2, <1>3, <1>5, <1>6, <1>7 DEF TimeInv

----------------------------------------------------------------------------
(* The start, the binding and the result. *)

(* The documents of the start are published before anything is counted.    *)
LEMMA StartKeeps == ASSUME ObserverInv, Start PROVE ObserverInv'
<1> USE ObserverAssumption DEF Start, ParentStep, WorkerStep, Fine, Fails
<1> USE DEF ObserverInv, InScope
<1>0. /\ files' \in Files
      /\ files'.target = (parent.runtime \/ files.target) /\ files'.control = TRUE /\ files'.lock = TRUE
      /\ files'.ready = files.ready /\ files'.stop = files.stop
      /\ files'.seal = files.seal /\ files'.whole = files.whole
  <2> DEFINE docs == {"lock", "control"} \cup IF parent.runtime THEN {"target"} ELSE {}
  <2>1. /\ docs \subseteq {"lock", "control", "target"} /\ "lock" \in docs /\ "control" \in docs
        /\ "target" \in docs <=> parent.runtime
    OBVIOUS
  <2>2. files \in Files /\ parent.runtime \in BOOLEAN /\ files.target \in BOOLEAN
    BY DEF TypesInv, Parents, Files
  <2>3. files' = Publish(docs)
    OBVIOUS
  <2> HIDE DEF docs
  <2> QED BY ONLY <2>1, <2>2, <2>3, Documents
<1>1. TypesInv'
  <2>1. parent' \in Parents
    BY <1>0 DEF TypesInv, Parents, ParentPhases
  <2>2. worker' \in Samplers
    BY <1>0 DEF TypesInv, Samplers, WorkerPhases
  <2>3. files' \in Files
    BY <1>0
  <2>4. UNCHANGED <<taken, game, exposed, failures>>
    BY <1>0
  <2> QED BY <2>1, <2>2, <2>3, <2>4 DEF TypesInv
<1>2. ProtocolInv'
  BY <1>0 DEF ProtocolInv, Parents, Samplers, Files
<1>3. SeenInv'
  BY <1>0 DEF SeenInv, Parents, Samplers, Files
<1>4. Doomed => Doomed'
  BY <1>0 DEF ProtocolInv, Doomed, Parents, Samplers, Files
<1>5. Idle'
  BY <1>0 DEF TimeInv, Idle, Parents, Samplers, Files
<1>6. ~Doomed' => Fresh'
  <2>1. exposed'.front = 0 /\ \A h \in Handles : exposed'.shown[h] = 0
    BY <1>0 DEF TimeInv, Idle, Parents, Samplers, Files
  <2>2. worker'.scan <= ScanEvery
    BY <1>2 DEF ProtocolInv
  <2> QED BY <1>1, <2>1, <2>2, Unexposed
<1>7. /\ exposed'.long => Doomed'
      /\ parent'.verdict = "pass" => ~exposed'.long
  BY <1>0, <1>4 DEF TimeInv, Parents, Samplers, Files
<1> QED BY <1>1, <1>2, <1>3, <1>5, <1>6, <1>7 DEF TimeInv

(* The windows of the game are counted from its binding.                   *)
LEMMA BindPidKeeps == ASSUME ObserverInv, BindPid PROVE ObserverInv'
<1> USE ObserverAssumption DEF BindPid, Published, ParentStep, WorkerStep, Fine, Fails
<1> USE DEF ObserverInv, InScope
<1>0. /\ files' \in Files /\ files'.target = TRUE /\ ~files.target
      /\ files'.control = files.control /\ files'.lock = files.lock
      /\ files'.ready = files.ready /\ files'.stop = files.stop
      /\ files'.seal = files.seal /\ files'.whole = files.whole
  <2>1. files \in Files /\ files.control \in BOOLEAN /\ files.lock \in BOOLEAN /\ ~files.target
    BY DEF TypesInv, Files
  <2>2. files' = Publish({"target"})
    OBVIOUS
  <2>3. "target" \in {"target"} /\ "control" \notin {"target"} /\ "lock" \notin {"target"}
    OBVIOUS
  <2> QED BY ONLY <2>1, <2>2, <2>3, Documents
<1>1. TypesInv'
  <2>1. files' \in Files
    BY <1>0
  <2>2. UNCHANGED <<parent, worker, taken, game, exposed, failures>>
    BY <1>0
  <2> QED BY <2>1, <2>2 DEF TypesInv
<1>2. ProtocolInv'
  BY <1>0 DEF ProtocolInv, Files
<1>3. SeenInv'
  BY <1>0 DEF SeenInv, Files
<1>4. Doomed => Doomed'
  BY <1>0 DEF Doomed, Files
<1>5. Idle'
  BY <1>0 DEF TimeInv, Idle, Files
<1>6. ~Doomed' => Fresh'
  <2>1. ~Doomed' => Fresh
    BY <1>4 DEF TimeInv
  <2> QED BY <2>1, <1>0 DEF Fresh, Bounded, Lag, TimeInv, Idle, Files
<1>7. /\ exposed'.long => Doomed'
      /\ parent'.verdict = "pass" => ~exposed'.long
  BY <1>0, <1>4 DEF TimeInv, Files
<1> QED BY <1>1, <1>2, <1>3, <1>5, <1>6, <1>7 DEF TimeInv

(* A pass is given only where it was still possible.                       *)
LEMMA ResultKeeps == ASSUME ObserverInv, Result PROVE ObserverInv'
<1> USE ObserverAssumption DEF Result, ParentStep, WorkerStep, Fine, Fails
<1> USE DEF ObserverInv, InScope
<1>0. Status \in {"pass", "fail", "unverified"}
  BY DEF Status
<1>1. TypesInv'
  <2>1. parent' \in Parents
    BY <1>0 DEF TypesInv, Parents, ParentPhases
  <2>2. UNCHANGED <<worker, files, taken, game, exposed, failures>>
    BY <1>0
  <2> QED BY <2>1, <2>2 DEF TypesInv
<1>2. ProtocolInv'
  BY <1>0 DEF ProtocolInv, Parents
<1>3. SeenInv'
  <2>1. parent'.verdict = Status
    BY DEF Parents
  <2>2. Status = "fail" => taken.front \/ taken.shown
    BY DEF Status
  <2>3. UNCHANGED <<worker, taken, game, exposed>> /\ SeenInv
    OBVIOUS
  <2> QED BY ONLY <2>1, <2>2, <2>3 DEF SeenInv
<1>4. Doomed => Doomed'
  BY <1>0 DEF Doomed, Parents
<1>5. Idle'
  BY <1>0 DEF TimeInv, Idle, Parents
<1>6. ~Doomed' => Fresh'
  <2>1. exposed'.front = 0 /\ \A h \in Handles : exposed'.shown[h] = 0
    BY <1>0 DEF TimeInv, Idle, Parents
  <2>2. worker'.scan <= ScanEvery
    BY <1>2 DEF ProtocolInv
  <2> QED BY <1>1, <2>1, <2>2, Unexposed
<1>7. /\ exposed'.long => Doomed'
      /\ parent'.verdict = "pass" => ~exposed'.long
  <2>1. parent'.verdict = Status
    BY DEF Parents
  <2>2. Status = "pass" => Complete /\ ~taken.front /\ ~taken.shown
    <3>1. Status = "pass" => ~(files.target /\ (taken.front \/ taken.shown)) /\ Complete
      BY DEF Status
    <3> QED BY <3>1 DEF Complete
  <2>3. Complete /\ ~taken.front /\ ~taken.shown => ~Doomed
    BY DEF Complete, Loaded, Doomed, ProtocolInv
  <2>4. exposed'.long = exposed.long /\ (exposed.long => Doomed)
    BY DEF TimeInv
  <2> QED BY <1>4, <2>1, <2>2, <2>3, <2>4
<1> QED BY <1>1, <1>2, <1>3, <1>5, <1>6, <1>7 DEF TimeInv

----------------------------------------------------------------------------
(* The game. *)

(* Whatever it does, what it shows from then on is counted from nothing.   *)
LEMMA GameDoesKeeps == ASSUME ObserverInv, NEW g \in Games, GameDoes(g) PROVE ObserverInv'
<1> USE ObserverAssumption DEF GameDoes, ParentStep, WorkerStep, Fine, Fails
<1> USE DEF ObserverInv, InScope
<1>1. TypesInv'
  <2>1. game' \in Games
    OBVIOUS
  <2>2. exposed' \in Exposures
    BY DEF TypesInv, Exposures
  <2>3. UNCHANGED <<parent, worker, files, taken, failures>>
    OBVIOUS
  <2> QED BY <2>1, <2>2, <2>3 DEF TypesInv
<1>2. ProtocolInv'
  BY DEF ProtocolInv, Games, Exposures
<1>3. SeenInv'
  BY DEF TypesInv, SeenInv, Games, Exposures
<1>4. Doomed => Doomed'
  BY DEF Doomed, Games, Exposures
<1>5. Idle'
  BY DEF TimeInv, Idle, Games, Exposures
<1>6. ~Doomed' => Fresh'
  <2>1. ~Doomed' => Fresh
    BY <1>4 DEF TimeInv
  <2> QED BY <2>1 DEF TypesInv, Fresh, Bounded, Lag, TimeInv, Idle, Parents, Samplers, Files,
       Samples, Games, Exposures
<1>7. /\ exposed'.long => Doomed'
      /\ parent'.verdict = "pass" => ~exposed'.long
  BY <1>4 DEF TimeInv, Games, Exposures
<1> QED BY <1>1, <1>2, <1>3, <1>5, <1>6, <1>7 DEF TimeInv

(* The game appears with a hidden window.                                  *)
LEMMA LaunchKeeps == ASSUME ObserverInv, Launch PROVE ObserverInv'
<1> DEFINE g == [game EXCEPT !.runs = TRUE, !.win[1] = "hidden"]
<1>1. g \in Games
  BY DEF ObserverInv, TypesInv, Games, Handles, Showings
<1>2. GameDoes(g)
  BY DEF Launch
<1> HIDE DEF g
<1> QED BY <1>1, <1>2, GameDoesKeeps

(* A window comes, changes or goes, or its handle is another process's.    *)
LEMMA WindowKeeps ==
    ASSUME ObserverInv, NEW h \in Handles, NEW from,
           NEW to \in Showings, Window(h, from, to)
    PROVE  ObserverInv'
<1> DEFINE g == [game EXCEPT !.win[h] = to, !.acts = @ + 1]
<1>1. g \in Games
  <2>1. game \in Games /\ game.acts + 1 \in Nat /\ game.win \in [Handles -> Showings]
    BY DEF ObserverInv, TypesInv, Games
  <2>2. [game.win EXCEPT ![h] = to] \in [Handles -> Showings]
    BY <2>1
  <2> QED BY ONLY <2>1, <2>2 DEF Games
<1>2. GameDoes(g)
  BY DEF Window
<1> HIDE DEF g
<1> QED BY <1>1, <1>2, GameDoesKeeps

(* The foreground or one of the windows changes.                           *)
LEMMA GameActsKeeps == ASSUME ObserverInv, GameActs PROVE ObserverInv'
<1>1. CASE GameDoes([game EXCEPT !.front = ~@, !.acts = @ + 1])
  <2> DEFINE g == [game EXCEPT !.front = ~@, !.acts = @ + 1]
  <2>1. g \in Games
    <3>1. game \in Games /\ game.acts + 1 \in Nat /\ (~game.front) \in BOOLEAN
      BY DEF ObserverInv, TypesInv, Games
    <3> QED BY ONLY <3>1 DEF Games
  <2>2. GameDoes(g)
    BY <1>1
  <2> HIDE DEF g
  <2> QED BY <2>1, <2>2, GameDoesKeeps
<1>2. ASSUME NEW h \in Handles, NEW from, NEW to \in Showings, Window(h, from, to)
      PROVE  ObserverInv'
  BY <1>2, WindowKeeps
<1>3. \A c \in Changes : c[2] \in Showings
  BY DEF Changes, Showings
<1>4. ASSUME NEW h \in Handles, NEW c \in Changes, Window(h, c[1], c[2])
      PROVE  ObserverInv'
  BY <1>2, <1>3, <1>4
<1> QED BY <1>1, <1>4 DEF GameActs

(* The game takes its windows with it.                                     *)
LEMMA GameDiesKeeps == ASSUME ObserverInv, GameDies PROVE ObserverInv'
<1> DEFINE g == [game EXCEPT !.runs = FALSE, !.front = FALSE, !.acts = @ + 1,
                             !.win = [h \in Handles |-> "none"]]
<1>1. g \in Games
  <2>1. game \in Games /\ game.acts + 1 \in Nat /\ game.win \in [Handles -> Showings]
    BY DEF ObserverInv, TypesInv, Games
  <2>2. [h \in Handles |-> "none"] \in [Handles -> Showings]
    BY <2>1 DEF Showings
  <2> QED BY ONLY <2>1, <2>2 DEF Games
<1>2. GameDoes(g)
  BY DEF GameDies
<1> HIDE DEF g
<1> QED BY <1>1, <1>2, GameDoesKeeps

----------------------------------------------------------------------------
(* The probe. *)

(* It holds windows of the game only, and leaves no handle of a visible    *)
(* one out but one that is not due for a scan.                             *)
LEMMA HeldWindows ==
    ASSUME TypesInv
    PROVE  /\ Held \subseteq Handles
           /\ \A h \in Held : game.win[h] \in {"hidden", "visible"}
           /\ \A h \in Handles \ Held :
                  game.win[h] = "visible" => ~(ScanDue \/ AllLost) /\ h \notin worker.held
<1>1. /\ Owned \subseteq Handles
      /\ \A h \in Handles : h \in Owned <=> game.win[h] \in {"hidden", "visible"}
      /\ \A h \in Handles : h \in Existing <=> game.win[h] # "none"
  BY DEF Owned, Existing
<1>2. CASE ScanDue \/ AllLost
  BY <1>1, <1>2 DEF Held
<1>3. CASE ~(ScanDue \/ AllLost)
  <2>1. Held = worker.held \cap Existing \cap Owned
    BY <1>3 DEF Held, Kept
  <2> QED BY <1>1, <1>3, <2>1
<1> QED BY <1>2, <1>3

(* A probe that sees nothing sets every bound back to its own age.         *)
LEMMA ProbeSees ==
    ASSUME ObserverInv, worker.phase = "read", UNCHANGED <<files, taken, parent, game, exposed, failures>>,
           worker' \in Samplers,
           /\ worker'.phase = "write" /\ worker'.stopping = worker.stopping /\ worker'.age = worker.age

                          /\ worker'.target = worker.target /\ worker'.errors = worker.errors /\ worker'.hidden \in BOOLEAN
           /\ worker'.front = game.front /\ worker'.shown = Sighted
           /\ worker'.held = IF worker.target THEN Held ELSE {}
           /\ worker'.scan = IF worker.target /\ (ScanDue \/ AllLost) THEN ScanEvery ELSE worker.scan
    PROVE  ObserverInv'
<1> USE ObserverAssumption DEF ObserverInv, InScope
<1>h. /\ Held \subseteq Handles /\ \A h \in Held : game.win[h] \in {"hidden", "visible"}
      /\ \A h \in Handles \ Held :
             game.win[h] = "visible" => ~(ScanDue \/ AllLost) /\ h \notin worker.held
  BY HeldWindows DEF ObserverInv
<1>1. TypesInv'
  BY DEF TypesInv
<1>2. ProtocolInv'
  BY DEF ProtocolInv, Samplers
<1>3. SeenInv'
  <2>1. Sighted => Seen(game)
    BY <1>h DEF Sighted, Visible, Seen
  <2>2. worker'.front \/ worker'.shown => Seen(game)
    BY <2>1 DEF Seen
  <2> QED BY <2>2 DEF SeenInv
<1>4. Doomed => Doomed'
  BY DEF Doomed, Samplers
<1>5. Idle'
  BY DEF TimeInv, Idle
<1>6. ~Doomed' => Fresh'
  <2> SUFFICES ASSUME ~Doomed' PROVE Fresh'
    OBVIOUS
  <2>1. Fresh
    BY <1>4 DEF TimeInv
  <2>2. ~game.front /\ ~Sighted
    BY DEF Doomed
  <2>3. /\ exposed.front = 0 /\ worker.age \in Nat /\ taken.since \in Nat /\ worker.scan \in Nat
        /\ worker.scan <= ScanEvery /\ (worker.scan > 0 => worker.target)
        /\ \A h \in Handles : exposed.shown[h] \in Nat
    BY <2>2 DEF TimeInv, Idle, TypesInv, ProtocolInv, Samplers, Samples, Exposures
  <2>4. Lag' = worker.age
    BY DEF Lag
  <2>5. ASSUME NEW h \in Handles PROVE Bounded(h)'
    <3>1. CASE ~worker.target

                <4>1. exposed.shown[h] <= worker.age /\ worker.scan = 0 /\ h \notin worker'.held /\ worker'.scan = 0
        BY <2>1, <2>3, <2>5, <3>1 DEF Fresh, Bounded
      <4> QED BY <2>3, <2>4, <2>5, <4>1 DEF Bounded
    <3>2. CASE worker.target /\ game.win[h] # "visible"
      <4>1. exposed.shown[h] = 0 /\ worker'.scan \in Nat /\ worker'.scan <= ScanEvery
        BY <2>3, <2>5, <3>2 DEF TimeInv, Idle
      <4> QED BY <2>3, <2>4, <3>2, <4>1 DEF Bounded
    <3>3. CASE worker.target /\ game.win[h] = "visible"
      <4>1. h \notin Held
        BY <2>2, <3>3 DEF Sighted, Visible
      <4>2. ~ScanDue /\ ~AllLost /\ h \notin worker.held
        BY <1>h, <2>5, <3>3, <4>1
      <4>3. worker'.scan = worker.scan /\ worker.scan > 0 /\ h \notin worker'.held
        BY <2>3, <3>3, <4>1, <4>2 DEF ScanDue
      <4>4. exposed.shown[h] + worker.scan <= ScanEvery
        BY <2>1, <2>5, <4>2, <4>3 DEF Fresh, Bounded
      <4> QED BY <2>3, <2>4, <2>5, <3>3, <4>3, <4>4 DEF Bounded
    <3> QED BY <3>1, <3>2, <3>3
  <2> QED BY <2>3, <2>4, <2>5 DEF Fresh
<1>7. /\ exposed'.long => Doomed'
      /\ parent'.verdict = "pass" => ~exposed'.long
  BY <1>4 DEF TimeInv
<1> QED BY <1>1, <1>2, <1>3, <1>5, <1>6, <1>7 DEF TimeInv

(* After a failed probe there is no pass.                                  *)
LEMMA ProbeFailsKeeps ==
    ASSUME ObserverInv, worker.phase = "read", Fails, UNCHANGED <<files, taken>>, WorkerStep,
           worker' = [worker EXCEPT !.phase = "write", !.front = FALSE, !.shown = FALSE,
                                    !.hidden = FALSE, !.errors = TRUE]
    PROVE  ObserverInv'
<1> USE ObserverAssumption DEF ParentStep, WorkerStep, Fine, Fails
<1> USE DEF ObserverInv, InScope
<1>1. TypesInv'
  <2>1. worker' \in Samplers
    BY DEF TypesInv, Samplers, WorkerPhases
  <2>2. failures' \in 0..MaxFailures
    BY DEF TypesInv
  <2>3. UNCHANGED <<parent, files, taken, game, exposed>>
    OBVIOUS
  <2> QED BY <2>1, <2>2, <2>3 DEF TypesInv
<1>2. ProtocolInv'
  BY DEF ProtocolInv, Samplers
<1>3. SeenInv'
  BY DEF SeenInv, Samplers
<1>4. Doomed => Doomed'
  BY DEF Doomed, Samplers
<1>5. Idle'
  BY DEF TimeInv, Idle, Samplers
<1>6. Doomed'
  BY DEF Doomed, Samplers
<1>7. /\ exposed'.long => Doomed'
      /\ parent'.verdict = "pass" => ~exposed'.long
  BY <1>4 DEF TimeInv, Samplers
<1> QED BY <1>1, <1>2, <1>3, <1>5, <1>6, <1>7 DEF TimeInv

(* A probe sees what is there, or fails.                                   *)
LEMMA ProbeKeeps == ASSUME ObserverInv, Probe PROVE ObserverInv'
<1> USE DEF Probe, WorkerStep
<1>1. CASE /\ Fails
           /\ worker' = [worker EXCEPT !.phase = "write", !.front = FALSE, !.shown = FALSE,
                                       !.hidden = FALSE, !.errors = TRUE]
  <2>1. worker.phase = "read" /\ UNCHANGED <<files, taken>> /\ WorkerStep
    OBVIOUS
  <2> QED BY <1>1, <2>1, ProbeFailsKeeps
<1>2. CASE /\ worker' = [worker EXCEPT !.phase = "write", !.front = game.front, !.shown = Sighted,
                                      !.hidden = worker.target /\ Held # {} /\ ~Sighted,
                                      !.held = IF worker.target THEN Held ELSE {},
                                      !.scan = IF worker.target /\ (ScanDue \/ AllLost) THEN ScanEvery ELSE @]
           /\ Fine
  <2>h. Held \subseteq Handles
    BY HeldWindows DEF ObserverInv
  <2>1. worker.phase = "read" /\ UNCHANGED <<files, taken, parent, game, exposed, failures>>
    BY <1>2 DEF Fine
  <2>2. /\ worker \in Samplers /\ game.front \in BOOLEAN /\ Sighted \in BOOLEAN /\ ScanEvery \in Nat
        /\ (worker.target /\ Held # {} /\ ~Sighted) \in BOOLEAN
    BY ObserverAssumption DEF ObserverInv, TypesInv, Games, Sighted
  <2>3. worker' \in Samplers
    BY ONLY <1>2, <2>h, <2>2 DEF Samplers, WorkerPhases
  <2>4. /\ worker'.phase = "write" /\ worker'.stopping = worker.stopping /\ worker'.age = worker.age
        /\ worker'.target = worker.target /\ worker'.errors = worker.errors /\ worker'.hidden \in BOOLEAN
        /\ worker'.front = game.front /\ worker'.shown = Sighted
        /\ worker'.held = IF worker.target THEN Held ELSE {}
        /\ worker'.scan = IF worker.target /\ (ScanDue \/ AllLost) THEN ScanEvery ELSE worker.scan
    BY ONLY <1>2, <2>h, <2>2 DEF Samplers
  <2> QED BY ONLY ObserverInv, <2>1, <2>3, <2>4, ProbeSees
<1> QED BY <1>1, <1>2

----------------------------------------------------------------------------
(* The clock. *)

(* An age grows by one up to its cap.                                      *)
LEMMA Aged ==
    ASSUME NEW age \in Nat, NEW cap \in Nat
    PROVE  /\ Older(age, cap) \in Nat /\ Older(age, cap) <= age + 1
           /\ Older(age, cap) >= age \/ Older(age, cap) = cap
           /\ Older(age, cap) = age + 1 \/ Older(age, cap) = cap
           /\ cap > 0 => Older(age, cap) > 0
BY DEF Older

(* As long as no sample under way is late, a tick makes every stretch and  *)
(* its bound one longer; past a late one no pass is possible.              *)
LEMMA TickKeeps == ASSUME ObserverInv, Tick PROVE ObserverInv'
<1> DEFINE front == IF InScope /\ game.front THEN Older(exposed.front, LongFront) ELSE 0
           shown == [h \in Handles |-> IF InScope /\ files.target /\ game.win[h] = "visible"
                                       THEN Older(exposed.shown[h], LongShown) ELSE 0]
           long == exposed.long \/ front = LongFront \/ \E h \in Handles : shown[h] = LongShown
           age == IF worker.phase \in {"read", "write"} THEN Older(worker.age, MaxGap + 1) ELSE 0
           scan == IF worker.scan > 0 THEN worker.scan - 1 ELSE 0
           since == IF taken.n > 0 THEN Older(taken.since, 2 * MaxGap + 2) ELSE 0
<1>i. /\ TypesInv /\ ProtocolInv /\ SeenInv /\ TimeInv
      /\ MaxGap \in Nat /\ MaxGap > 0 /\ ScanEvery \in Nat /\ ScanEvery > 0
  BY ObserverAssumption DEF ObserverInv
<1>0. /\ exposed.front \in Nat /\ exposed.shown \in [Handles -> Nat] /\ worker.age \in Nat
      /\ worker.scan \in Nat /\ taken.since \in Nat /\ taken.n \in 0..2
      /\ \A h \in Handles : exposed.shown[h] \in Nat
  BY <1>i DEF TypesInv, Exposures, Samplers, Samples
<1>1. /\ exposed' = [exposed EXCEPT !.front = front, !.shown = shown, !.long = long]
      /\ worker' = [worker EXCEPT !.age = age, !.scan = scan]
      /\ taken' = [taken EXCEPT !.since = since]
      /\ UNCHANGED <<parent, files, game, failures>>
  BY DEF Tick
<1>2. /\ LongFront = 2 * MaxGap + 1 /\ LongShown = ScanEvery + 2 * MaxGap + 1
      /\ LongFront \in Nat /\ LongShown \in Nat /\ 2 * MaxGap + 2 \in Nat /\ MaxGap + 1 \in Nat
  BY <1>i DEF LongFront, LongShown
<1>3. /\ front \in Nat /\ front <= exposed.front + 1 /\ (~(InScope /\ game.front) => front = 0)
  <2> DEFINE older == Older(exposed.front, LongFront)
  <2>1. older \in Nat /\ older <= exposed.front + 1
    BY <1>0, <1>2, Aged
  <2>2. front = IF InScope /\ game.front THEN older ELSE 0
    OBVIOUS
  <2> HIDE DEF older, front
  <2> QED BY ONLY <1>0, <2>1, <2>2
<1>4. /\ shown \in [Handles -> Nat]
      /\ \A h \in Handles : /\ shown[h] \in Nat /\ shown[h] <= exposed.shown[h] + 1
                            /\ ~(InScope /\ files.target /\ game.win[h] = "visible") => shown[h] = 0
  <2>1. \A h \in Handles : /\ Older(exposed.shown[h], LongShown) \in Nat
                           /\ Older(exposed.shown[h], LongShown) <= exposed.shown[h] + 1
    BY <1>0, <1>2, Aged
  <2> QED BY <1>0, <2>1
<1>5. /\ age \in Nat
      /\ worker.phase \in {"read", "write"} =>
             (age >= worker.age \/ age = MaxGap + 1) /\ (age = worker.age + 1 \/ age = MaxGap + 1)
  <2> DEFINE older == Older(worker.age, MaxGap + 1)
  <2>1. /\ older \in Nat /\ (older >= worker.age \/ older = MaxGap + 1)
        /\ older = worker.age + 1 \/ older = MaxGap + 1
    BY <1>0, <1>2, Aged
  <2>2. age = IF worker.phase \in {"read", "write"} THEN older ELSE 0
    OBVIOUS
  <2> HIDE DEF older, age
  <2> QED BY ONLY <2>1, <2>2
<1>6. /\ scan \in Nat /\ scan <= worker.scan /\ (scan > 0 => worker.scan > 0 /\ scan + 1 = worker.scan)
  BY <1>0
<1>7. /\ since \in Nat
      /\ taken.n > 0 => /\ since >= taken.since \/ since = 2 * MaxGap + 2
                        /\ since = taken.since + 1 \/ since = 2 * MaxGap + 2
  BY <1>0, <1>2, Aged
<1>8. long \in BOOLEAN
  BY <1>i DEF Exposures
<1> HIDE DEF front, shown, age, scan, since
<1>9. /\ exposed'.front = front /\ exposed'.shown = shown /\ exposed'.long = long
      /\ exposed'.ever = exposed.ever /\ exposed' \in Exposures
  <2>1. exposed \in Exposures
    BY <1>i DEF TypesInv
  <2> HIDE DEF long
  <2> QED BY ONLY <1>1, <1>3, <1>4, <1>8, <2>1 DEF Exposures
<1>10. /\ worker'.age = age /\ worker'.scan = scan /\ worker'.phase = worker.phase

                  /\ worker'.stopping = worker.stopping /\ worker'.target = worker.target /\ worker'.held = worker.held
       /\ worker'.errors = worker.errors /\ worker'.front = worker.front /\ worker'.shown = worker.shown
       /\ worker' \in Samplers
  <2>1. worker \in Samplers
    BY <1>i DEF TypesInv
  <2> QED BY ONLY <1>1, <1>5, <1>6, <2>1 DEF Samplers
<1>11. /\ taken'.since = since /\ taken'.n = taken.n /\ taken'.gap = taken.gap /\ taken'.bad = taken.bad
       /\ taken'.front = taken.front /\ taken'.shown = taken.shown /\ taken' \in Samples
  <2>1. taken \in Samples
    BY <1>i DEF TypesInv
  <2> QED BY ONLY <1>1, <1>7, <2>1 DEF Samples
<1>12. UNCHANGED <<parent, files, game, failures>>
  BY <1>1
<1> HIDE DEF long
<1>13. TypesInv'
  BY ONLY <1>i, <1>9, <1>10, <1>11, <1>12 DEF TypesInv
<1>14. ProtocolInv'
  <2>1. scan > 0 => worker.scan > 0
    BY ONLY <1>6
  <2>2. worker.scan <= ScanEvery => scan <= ScanEvery
    BY ONLY <1>0, <1>i, <1>6
  <2> QED BY ONLY <1>i, <1>10, <1>11, <1>12, <2>1, <2>2 DEF ProtocolInv
<1>15. SeenInv'
  BY ONLY <1>i, <1>9, <1>10, <1>11, <1>12 DEF SeenInv
<1>16. Idle'
  BY ONLY <1>3, <1>4, <1>9, <1>12 DEF Idle, InScope
<1>17. Doomed => Doomed'
  <2>1. taken.n > 0 /\ taken.since > 2 * MaxGap => since > 2 * MaxGap
    BY ONLY <1>i, <1>0, <1>7
  <2>2. worker.phase \in {"read", "write"} /\ worker.age > MaxGap => age > MaxGap
    BY ONLY <1>i, <1>0, <1>5
  <2> QED BY ONLY <1>10, <1>11, <1>12, <2>1, <2>2 DEF Doomed
<1>18. ASSUME ~Doomed' PROVE Fresh' /\ ~exposed'.long
  <2>1. Fresh /\ ~exposed.long
    BY <1>i, <1>17, <1>18 DEF TimeInv
  <2>2. CASE ~InScope
    <3>1. exposed'.front = 0 /\ \A h \in Handles : exposed'.shown[h] = 0
      BY ONLY <1>3, <1>4, <1>9, <2>2
    <3>2. worker'.scan <= ScanEvery
      BY <1>14 DEF ProtocolInv
    <3>3. ~long
      BY <1>2, <1>i, <1>9, <2>1, <3>1 DEF long
    <3> QED BY <1>9, <1>13, <3>1, <3>2, <3>3, Unexposed
  <2>3. CASE InScope
    <3>1. taken.n > 0
      BY <1>i, <2>3 DEF ProtocolInv, InScope
    <3>2. worker.phase \in {"top", "read", "write"}
      <4>1. worker.phase \notin {"none", "begin"}
        BY <1>i, <3>1 DEF ProtocolInv
      <4>2. worker.phase \notin {"seal", "exited"}
        BY <1>i, <1>17, <1>18, <2>3 DEF ProtocolInv, InScope, Doomed
      <4> QED BY <1>i, <4>1, <4>2 DEF TypesInv, Samplers, WorkerPhases
    <3>3. since = taken.since + 1 /\ since <= 2 * MaxGap
      <4>1. ~(since > 2 * MaxGap)
        BY <1>10, <1>11, <1>18, <3>1, <3>2 DEF Doomed
      <4> QED BY ONLY <1>i, <1>7, <3>1, <4>1
    <3>4. worker.phase \in {"read", "write"} => age = worker.age + 1 /\ age <= MaxGap
      <4>1. worker.phase \in {"read", "write"} => ~(age > MaxGap)
        BY <1>10, <1>18 DEF Doomed
      <4> QED BY ONLY <1>i, <1>5, <4>1
    <3>5. Lag' = Lag + 1 /\ Lag \in Nat /\ Lag' \in Nat /\ Lag' <= 2 * MaxGap
      <4>1. CASE worker.phase = "write"
        <5>1. Lag = worker.age /\ Lag' = age
          BY <1>10, <4>1 DEF Lag
        <5> QED BY ONLY <1>i, <1>0, <1>5, <3>4, <4>1, <5>1
      <4>2. CASE worker.phase # "write"
        <5>1. Lag = taken.since /\ Lag' = since
          BY <1>10, <1>11, <4>2 DEF Lag
        <5> QED BY ONLY <1>0, <1>7, <3>3, <5>1
      <4> QED BY <4>1, <4>2
    <3> DEFINE now == Lag
               then == Lag'
    <3>6. then = now + 1 /\ now \in Nat /\ then \in Nat /\ then <= 2 * MaxGap
      BY <3>5
    <3>7. /\ exposed.front <= now
          /\ \A h \in Handles :
                /\ exposed.shown[h] <= ScanEvery + now
                /\ h \in worker.held => exposed.shown[h] <= now
                /\ h \notin worker.held /\ worker.scan > 0 => exposed.shown[h] + worker.scan <= ScanEvery
                /\ worker.phase \in {"read", "write"} /\ ~worker.target => exposed.shown[h] <= worker.age
      BY <2>1 DEF Fresh, Bounded
    <3> HIDE DEF now
    <3>8. exposed'.front <= then /\ exposed'.front # LongFront
      <4> HIDE DEF then
      <4> QED BY ONLY <1>i, <1>0, <1>2, <1>3, <1>9, <3>6, <3>7
    <3>9. ASSUME NEW h \in Handles PROVE Bounded(h)' /\ shown[h] # LongShown
      <4> DEFINE was == exposed.shown[h]
                 is == shown[h]
      <4>1. is \in Nat /\ was \in Nat /\ is <= was + 1
        BY <1>0, <1>4, <3>9
      <4>2. /\ was <= ScanEvery + now
            /\ h \in worker.held => was <= now
            /\ h \notin worker.held /\ worker.scan > 0 => was + worker.scan <= ScanEvery
            /\ worker.phase \in {"read", "write"} /\ ~worker.target => was <= worker.age
        BY <3>7, <3>9
      <4>h. Lag' = then /\ exposed'.shown[h] = is
        BY <1>9
      <4> HIDE DEF was, is, then
      <4>3. is <= ScanEvery + then /\ is # LongShown
        BY ONLY <1>i, <1>2, <3>6, <4>1, <4>2
      <4>4. h \in worker.held => is <= then
        BY ONLY <3>6, <4>1, <4>2
      <4>5. h \notin worker.held /\ scan > 0 => is + scan <= ScanEvery
        BY ONLY <1>i, <1>0, <1>6, <4>1, <4>2
      <4>6. worker.phase \in {"read", "write"} /\ ~worker.target => is <= age
        BY ONLY <1>0, <1>5, <3>4, <4>1, <4>2
      <4>7. Bounded(h)'
        BY ONLY <1>10, <4>h, <4>3, <4>4, <4>5, <4>6 DEF Bounded
      <4> QED BY <4>3, <4>7 DEF is
    <3>10. ~long
      BY <1>9, <2>1, <3>8, <3>9 DEF long
    <3>11. Fresh'
      BY <3>8, <3>9 DEF Fresh
    <3> QED BY <1>9, <3>10, <3>11
  <2> QED BY <2>2, <2>3
<1>19. parent'.verdict = "pass" => ~exposed'.long
  <2>1. CASE InScope
    BY <1>i, <1>12, <2>1 DEF ProtocolInv, InScope
  <2>2. CASE ~InScope
    <3>1. front = 0 /\ \A h \in Handles : shown[h] = 0
      BY ONLY <1>3, <1>4, <2>2
    <3>2. LongFront # 0 /\ LongShown # 0
      BY ONLY <1>i, <1>2
    <3>3. long = exposed.long
      BY <1>i, <3>1, <3>2 DEF long, TypesInv, Exposures
    <3> QED BY <1>i, <1>9, <1>12, <3>3 DEF TimeInv
  <2> QED BY <2>1, <2>2
<1> QED BY <1>13, <1>14, <1>15, <1>16, <1>18, <1>19 DEF TimeInv, ObserverInv

----------------------------------------------------------------------------
(* The theorem. *)

(* Nothing is started, taken or exposed at first.                          *)
LEMMA ObserverStarts == ObserverInit => ObserverInv
<1> SUFFICES ASSUME ObserverInit PROVE ObserverInv
  OBVIOUS
<1> USE ObserverAssumption DEF ObserverInit
<1>1. TypesInv
  <2>1. parent \in Parents
    BY DEF Parents, ParentPhases
  <2>2. worker \in Samplers
    BY DEF Samplers, WorkerPhases
  <2>3. files \in Files
    BY DEF Files
  <2>4. taken \in Samples
    BY DEF NoSamples, Samples
  <2>5. game \in Games
    BY DEF Games, Showings
  <2>6. exposed \in Exposures
    BY DEF Exposures
  <2>7. failures \in 0..MaxFailures
    OBVIOUS
  <2> QED BY <2>1, <2>2, <2>3, <2>4, <2>5, <2>6, <2>7 DEF TypesInv
<1>2. ProtocolInv
  BY DEF ProtocolInv, NoSamples
<1>3. SeenInv
  <2>1. ~game.front /\ \A h \in Handles : game.win[h] # "visible"
    OBVIOUS
  <2> QED BY <2>1 DEF SeenInv, Seen, NoSamples
<1>4. TimeInv
  <2>1. exposed.front = 0 /\ (\A h \in Handles : exposed.shown[h] = 0) /\ ~exposed.long
    OBVIOUS
  <2>2. worker.scan = 0 /\ worker.age = 0 /\ worker.phase = "none" /\ taken.since = 0 /\ Lag = 0
    BY DEF NoSamples, Lag
  <2> QED BY <2>1, <2>2 DEF TimeInv, Idle, Fresh, Bounded, InScope
<1> QED BY <1>1, <1>2, <1>3, <1>4 DEF ObserverInv

(* Every step of either process, of the game and of the clock keeps the    *)
(* invariant.                                                              *)
LEMMA ObserverSteps == ASSUME ObserverInv, [ObserverNext]_observerVars PROVE ObserverInv'
<1>1. CASE Monitor
  BY <1>1, StartKeeps, ReadyKeeps, BindPidKeeps, ExitKeeps, StartTimesOutKeeps, SignalKeeps, JoinKeeps,
     UnlockKeeps, ResultKeeps DEF Monitor
<1>2. CASE Sampler
  BY <1>2, BeginKeeps, LoopTopKeeps, ProbeKeeps, WriteSampleKeeps, SealSamplesKeeps DEF Sampler
<1>3. CASE UNCHANGED observerVars
  BY <1>3 DEF observerVars, ObserverInv, TypesInv, ProtocolInv, SeenInv, TimeInv, Idle, Fresh, Bounded,
       Lag, Doomed, InScope
<1> QED BY <1>1, <1>2, <1>3, TickKeeps, LaunchKeeps, GameActsKeeps, GameDiesKeeps, WorkerDiesKeeps,
     DamageKeeps DEF ObserverNext

(* The types, the protocol of the two processes, and how long anything has *)
(* been exposed while a pass was still possible.                           *)
THEOREM ObserverInvariant == ObserverSpec => []ObserverInv
<1> QED BY ObserverStarts, ObserverSteps, PTL DEF ObserverSpec

(* What a verdict is worth (launch_window_evidence), for any gap and scan  *)
(* interval, any game and any failures of the observer: a pass bounds how  *)
(* long the game was in the foreground or visible, and a fail is never of  *)
(* another process's window.                                               *)
THEOREM VerdictTrue == ObserverSpec => []VerdictHonest
<1>1. ObserverInv => VerdictHonest
  BY DEF ObserverInv, TypesInv, ProtocolInv, SeenInv, TimeInv, VerdictHonest, ObserverType,
         Parents, ParentPhases, Samplers, WorkerPhases
<1> QED BY <1>1, ObserverInvariant, PTL
=============================================================================
