------------------------- MODULE LifecycleRunProofs ------------------------
(***************************************************************************)
(* Theorems about the lifecycle evidence of a recorded run: what the       *)
(* validator accepts is what was captured, an undisturbed capture is never *)
(* refused, and the reports drawn from it tell the truth.                  *)
(***************************************************************************)
EXTENDS LifecycleRun, TLAPS, FiniteSetTheorems, SequenceTheorems, WellFoundedInduction

----------------------------------------------------------------------------
(* Types *)

Zombies == Slots \X (Nat \ {0})
Kinds == {"init", "phase", "removal", "candidate", "commit"}
Event ==
    [kind : Kinds, z : Zombies, play : BOOLEAN, seq : Nat \ {0}, ver : Nat,
     when : {"controlled_boundary", "initialization", "uncontrolled_update"},
     before : Nat, after : Nat, chain : BOOLEAN, ref : Nat, inv : Nat, depth : Nat, parent : Nat]
Line == [fileSeq : Nat, session : Nat, event : Event]
Invocation == [inv : Nat, depth : Nat, parent : Nat, ver : Nat, z : Zombies, play : BOOLEAN]
Creature == [gen : Nat \ {0}, used : BOOLEAN, stage : Nat, gone : BOOLEAN, play : BOOLEAN]
Pool == [Slots -> Creature]
Frame == [ver : Nat, pool : Pool]
Loss == [z : Zombies, kill : BOOLEAN, play : BOOLEAN, at : Nat, seq : Nat]
Block == [enabled : BOOLEAN, final : BOOLEAN, healthy : BOOLEAN]
Receipt == [session : Nat, records : Seq(Line), block : Block, healthy : BOOLEAN]

CaptureType ==
    /\ stack \in Seq(Invocation)
    /\ spawnQueue \in Seq(Event)
    /\ probeQueue \in Seq(Event) /\ Len(probeQueue) <= Capacity
    /\ nextSequence \in Nat \ {0} /\ nextInvocation \in Nat \ {0}
    /\ faults \subseteq {"spawn", "probe"}
    /\ probes \in BOOLEAN

GameType ==
    /\ pool \in Pool
    /\ truth \in Seq(Loss)
    /\ happened \in Nat /\ due \in Nat

FilesType ==
    /\ written \in Seq(Line)
    /\ block \in Block
    /\ receipt \subseteq Receipt

RunType ==
    /\ version \in Nat \ {0} /\ boundary \in {Null, version}
    /\ phase \in {"calm", "call", "stopped", "closed"}
    /\ frames \in Seq(Frame)
    /\ initial \subseteq Frame
    /\ ending \in Nat

TypeInv == CaptureType /\ GameType /\ FilesType /\ RunType

(* The first n members of a sequence. *)
LEMMA PrefixOf ==
    ASSUME NEW S, NEW q \in Seq(S), NEW n \in 0..Len(q)
    PROVE  /\ SubSeq(q, 1, n) \in Seq(S) /\ Len(SubSeq(q, 1, n)) = n
           /\ \A i \in 1..n : SubSeq(q, 1, n)[i] = q[i]
OBVIOUS

(* The facts the hooks capture are events. *)
LEMMA FactType ==
    ASSUME NEW kind \in Kinds, NEW z \in Zombies, NEW play \in BOOLEAN,
           NEW seq \in Nat \ {0}, NEW ver \in Nat
    PROVE  /\ Fact(kind, z, play, seq, ver) \in Event
           /\ Fact(kind, z, play, seq, ver).kind = kind
           /\ Fact(kind, z, play, seq, ver).z = z
           /\ Fact(kind, z, play, seq, ver).play = play
           /\ Fact(kind, z, play, seq, ver).seq = seq
           /\ Fact(kind, z, play, seq, ver).ver = ver
BY DEF Fact, Event, Null

Alike(e, f) ==
    e.kind = f.kind /\ e.z = f.z /\ e.play = f.play /\ e.seq = f.seq /\ e.ver = f.ver /\ e.when = f.when

(* What the events of the hooks hold. *)
LEMMA InitEventType ==
    ASSUME NEW top \in Invocation, NEW seq \in Nat \ {0}
    PROVE  LET e == InitEvent(top, seq)
           IN  /\ e \in Event /\ Alike(e, Fact("init", top.z, top.play, seq, top.ver))
               /\ e.inv = top.inv /\ e.depth = top.depth /\ e.parent = top.parent
<1> DEFINE f == Fact("init", top.z, top.play, seq, top.ver)
           g == [f EXCEPT !.inv = top.inv]
           h == [g EXCEPT !.depth = top.depth]
           e == [h EXCEPT !.parent = top.parent]
<1>0. top.inv \in Nat /\ top.depth \in Nat /\ top.parent \in Nat /\ top.ver \in Nat
      /\ top.z \in Zombies /\ top.play \in BOOLEAN
  BY DEF Invocation
<1>1. f \in Event
  BY <1>0, FactType DEF Kinds
<1>2. InitEvent(top, seq) = e
  BY DEF InitEvent
<1> HIDE DEF f
<1>3. g \in Event /\ Alike(g, f) /\ g.inv = top.inv
  BY <1>0, <1>1 DEF Event, Alike
<1> HIDE DEF g
<1>4. h \in Event /\ Alike(h, g) /\ h.inv = g.inv /\ h.depth = top.depth
  BY <1>0, <1>3 DEF Event, Alike
<1> HIDE DEF h
<1>5. e \in Event /\ Alike(e, h) /\ e.inv = h.inv /\ e.depth = h.depth /\ e.parent = top.parent
  BY <1>0, <1>4 DEF Event, Alike
<1> HIDE DEF e
<1> QED BY <1>2, <1>3, <1>4, <1>5 DEF f, Alike

Moves(e, f, a, b) == e \in Event /\ Alike(e, f) /\ e.before = a /\ e.after = b

(* A store's event is a typed one with the stages it moved between.        *)
LEMMA PhaseEventType ==
    ASSUME NEW z \in Zombies, NEW play \in BOOLEAN, NEW seq \in Nat \ {0}, NEW ver \in Nat,
           NEW a \in Nat, NEW b \in Nat
    PROVE  Moves(PhaseEvent(z, play, seq, ver, a, b), Fact("phase", z, play, seq, ver), a, b)
<1> DEFINE f == Fact("phase", z, play, seq, ver)
           g == [f EXCEPT !.before = a]
           e == [g EXCEPT !.after = b]
<1>1. f \in Event
  BY FactType DEF Kinds
<1>2. PhaseEvent(z, play, seq, ver, a, b) = e
  BY DEF PhaseEvent
<1> HIDE DEF f
<1>3. g \in Event /\ Alike(g, f) /\ g.before = a
  BY <1>1 DEF Event, Alike
<1> HIDE DEF g
<1>4. e \in Event /\ Alike(e, g) /\ e.before = g.before /\ e.after = b
  BY <1>3 DEF Event, Alike
<1> HIDE DEF e
<1> QED BY <1>2, <1>3, <1>4 DEF f, Alike, Moves

(* A removal's event is typed and says whether it came through the chain.  *)
LEMMA RemovalEventType ==
    ASSUME NEW z \in Zombies, NEW play \in BOOLEAN, NEW seq \in Nat \ {0}, NEW ver \in Nat,
           NEW chain \in BOOLEAN
    PROVE  LET e == RemovalEvent(z, play, seq, ver, chain)
           IN  /\ e \in Event /\ Alike(e, Fact("removal", z, play, seq, ver))
               /\ e.before = 0 /\ e.after = 1 /\ e.chain = chain
<1> DEFINE f == Fact("removal", z, play, seq, ver)
           g == [f EXCEPT !.after = 1]
           e == [g EXCEPT !.chain = chain]
<1>1. f \in Event
  BY FactType DEF Kinds
<1>2. RemovalEvent(z, play, seq, ver, chain) = e
  BY DEF RemovalEvent
<1>3. f.before = 0
  BY DEF Fact
<1> HIDE DEF f
<1>4. g \in Event /\ Alike(g, f) /\ g.before = 0 /\ g.after = 1
  BY <1>1, <1>3 DEF Event, Alike
<1> HIDE DEF g
<1>5. e \in Event /\ Alike(e, g) /\ e.before = g.before /\ e.after = g.after /\ e.chain = chain
  BY <1>4 DEF Event, Alike
<1> HIDE DEF e
<1> QED BY <1>2, <1>4, <1>5 DEF f, Alike

(* A commit's event is typed and refers to the sequence before its own.    *)
LEMMA CommitEventType ==
    ASSUME NEW z \in Zombies, NEW play \in BOOLEAN, NEW seq \in Nat \ {0}, NEW ver \in Nat
    PROVE  LET e == CommitEvent(z, play, seq, ver)
           IN  e \in Event /\ Alike(e, Fact("commit", z, play, seq, ver)) /\ e.ref = seq - 1
<1> DEFINE f == Fact("commit", z, play, seq, ver)
           e == [f EXCEPT !.ref = seq - 1]
<1>1. f \in Event
  BY FactType DEF Kinds
<1>2. CommitEvent(z, play, seq, ver) = e
  BY DEF CommitEvent
<1> HIDE DEF f
<1>3. seq - 1 \in Nat
  OBVIOUS
<1>4. e \in Event /\ Alike(e, f) /\ e.ref = seq - 1
  BY <1>1, <1>3 DEF Event, Alike
<1> HIDE DEF e
<1> QED BY <1>2, <1>4 DEF f, Alike
----------------------------------------------------------------------------
(* Numbers: least members, and what every number has *)

(* Every nonempty set of numbers has a least member. *)
LEMMA LeastMember ==
    ASSUME NEW S, S \subseteq Nat, S # {}
    PROVE  \E x \in S : \A y \in S : x <= y
<1>1. PICK x \in S : \A y \in S : ~(<<y, x>> \in OpToRel(<, Nat))
  BY NatLessThanWellFounded, WFMin
<1>2. ASSUME NEW y \in S PROVE x <= y
  <2>1. x \in Nat /\ y \in Nat /\ ~(y < x)
    BY <1>1 DEF OpToRel
  <2> QED BY <2>1
<1> QED BY <1>2

(* Induction: a set that holds 0 and, with a number below n, its successor, *)
(* holds the numbers to n.                                                  *)
LEMMA UpTo ==
    ASSUME NEW n \in Nat, NEW S, 0 \in S,
           \A k \in 0..(n - 1) : k \in S => (k + 1) \in S
    PROVE  \A k \in 0..n : k \in S
<1> DEFINE Bad == {k \in 0..n : k \notin S}
<1>1. SUFFICES ASSUME Bad # {} PROVE FALSE
  OBVIOUS
<1>2. Bad \subseteq Nat
  OBVIOUS
<1>3. PICK x \in Bad : \A y \in Bad : x <= y
  <2> HIDE DEF Bad
  <2> QED BY <1>1, <1>2, LeastMember
<1>4. x \in 0..n /\ x \notin S /\ x # 0
  BY <1>3
<1>5. x - 1 \in 0..(n - 1)
  BY <1>4
<1>6. x - 1 \in S
  <2>1. x - 1 \notin Bad
    <3> HIDE DEF Bad
    <3> QED BY <1>3, <1>4
  <2> QED BY <1>5, <2>1
<1>7. (x - 1) + 1 \in S
  BY <1>5, <1>6
<1> QED BY <1>4, <1>7

----------------------------------------------------------------------------
(* Events in order *)

(* Sorting is a permutation of the places, in the order of Precedes. *)
LEMMA InOrderSorts ==
    ASSUME NEW S, NEW es \in Seq(S), \A i \in 1..Len(es) : es[i].seq \in Nat
    PROVE  \E p \in [1..Len(es) -> 1..Len(es)] :
               /\ InOrder(es) = [k \in 1..Len(es) |-> es[p[k]]]
               /\ \A i \in 1..Len(es) : \E k \in 1..Len(es) : p[k] = i
               /\ \A k, l \in 1..Len(es) : k < l => Precedes(es, p[k], p[l])
<1> DEFINE n == Len(es)
           R == [i \in 1..n |-> Cardinality(Earlier(es, i))]
           p == [k \in 1..n |-> CHOOSE i \in 1..n : Cardinality(Earlier(es, i)) = k - 1]
<1>1. n \in Nat
  OBVIOUS
<1>2. IsFiniteSet(1..n) /\ Cardinality(1..n) = n
  <2> HIDE DEF n
  <2>1. IsFiniteSet(1..n) /\ Cardinality(1..n) = IF 1 > n THEN 0 ELSE n - 1 + 1
    BY <1>1, FS_Interval
  <2> QED BY <1>1, <2>1
<1>3. ASSUME NEW i \in 1..n
      PROVE  IsFiniteSet(Earlier(es, i)) /\ R[i] \in 0..(n - 1)
  <2>1. Earlier(es, i) \subseteq 1..n
    BY DEF Earlier
  <2>2. IsFiniteSet(Earlier(es, i)) /\ Cardinality(Earlier(es, i)) <= n
        /\ (Cardinality(1..n) = Cardinality(Earlier(es, i)) => 1..n = Earlier(es, i))
    BY <1>2, <2>1, FS_Subset
  <2>3. i \notin Earlier(es, i)
    BY DEF Earlier, Precedes
  <2>4. Cardinality(Earlier(es, i)) \in Nat
    BY <2>2, FS_CardinalityType
  <2>5. Cardinality(Earlier(es, i)) # n
    BY <1>2, <2>2, <2>3
  <2> HIDE DEF n
  <2> QED BY <1>1, <2>2, <2>4, <2>5
<1>4. ASSUME NEW i \in 1..n, NEW j \in 1..n, Precedes(es, i, j)
      PROVE  R[i] < R[j]
  <2>1. Earlier(es, i) \subseteq Earlier(es, j)
    <3>1. SUFFICES ASSUME NEW k \in 1..n, Precedes(es, k, i) PROVE Precedes(es, k, j)
      BY DEF Earlier
    <3>2. es[i].seq \in Nat /\ es[j].seq \in Nat /\ es[k].seq \in Nat
      OBVIOUS
    <3> QED BY <1>4, <3>1, <3>2 DEF Precedes
  <2>2. i \in Earlier(es, j) /\ i \notin Earlier(es, i)
    BY <1>4 DEF Earlier, Precedes
  <2>3. IsFiniteSet(Earlier(es, j))
    BY <1>3
  <2>4. Cardinality(Earlier(es, i)) <= Cardinality(Earlier(es, j))
        /\ (Cardinality(Earlier(es, j)) = Cardinality(Earlier(es, i)) => Earlier(es, j) = Earlier(es, i))
    BY <2>1, <2>3, FS_Subset
  <2>5. R[i] <= R[j] /\ R[i] # R[j]
    BY <2>2, <2>4
  <2>6. R[i] \in 0..(n - 1) /\ R[j] \in 0..(n - 1)
    BY <1>3
  <2> HIDE DEF R, n
  <2> QED BY <1>1, <2>5, <2>6
<1>5. ASSUME NEW i \in 1..n, NEW j \in 1..n, i # j
      PROVE  Precedes(es, i, j) \/ Precedes(es, j, i)
  <2>1. es[i].seq \in Nat /\ es[j].seq \in Nat
    OBVIOUS
  <2> QED BY <1>5, <2>1 DEF Precedes
<1>6. R \in Injection(1..n, 0..(n - 1))
  <2>1. R \in [1..n -> 0..(n - 1)]
    BY <1>3
  <2>2. ASSUME NEW i \in 1..n, NEW j \in 1..n, R[i] = R[j] PROVE i = j
    <3>1. R[i] \in 0..(n - 1) /\ R[j] \in 0..(n - 1)
      BY <1>3
    <3>2. ~(R[i] < R[j]) /\ ~(R[j] < R[i])
      <4> HIDE DEF R, n
      <4> QED BY <1>1, <2>2, <3>1
    <3> QED BY <1>4, <1>5, <3>2
  <2> HIDE DEF R
  <2> QED BY <2>1, <2>2 DEF Injection, IsInjective
<1>7. R \in Surjection(1..n, 0..(n - 1))
  <2>1. IsFiniteSet(0..(n - 1)) /\ Cardinality(0..(n - 1)) = n
    <3>1. 0 \in Int /\ n - 1 \in Int
      BY <1>1
    <3>2. IsFiniteSet(0..(n - 1)) /\ Cardinality(0..(n - 1)) = IF 0 > n - 1 THEN 0 ELSE (n - 1) - 0 + 1
      <4> HIDE DEF n
      <4> QED BY <3>1, FS_Interval
    <3> HIDE DEF n
    <3> QED BY <1>1, <3>2
  <2>2. Cardinality(1..n) = Cardinality(0..(n - 1))
    BY <1>2, <2>1
  <2> HIDE DEF R, n
  <2> QED BY <1>6, <2>1, <2>2, FS_Injection
<1>8. ASSUME NEW k \in 1..n PROVE p[k] \in 1..n /\ R[p[k]] = k - 1
  <2>1. k - 1 \in 0..(n - 1)
    BY <1>1
  <2>2. \E i \in 1..n : R[i] = k - 1
    <3> HIDE DEF R, n
    <3> QED BY <1>7, <2>1 DEF Surjection
  <2>3. \E i \in 1..n : Cardinality(Earlier(es, i)) = k - 1
    BY <2>2
  <2>4. p[k] \in 1..n /\ Cardinality(Earlier(es, p[k])) = k - 1
    BY <2>3
  <2> HIDE DEF p
  <2> QED BY <2>4
<1>9. InOrder(es) = [k \in 1..n |-> es[p[k]]]
  BY DEF InOrder
<1>10. ASSUME NEW i \in 1..n PROVE \E k \in 1..n : p[k] = i
  <2> DEFINE k == R[i] + 1
  <2>1. R[i] \in 0..(n - 1)
    BY <1>3
  <2>2. k \in 1..n /\ k - 1 = R[i]
    <3> HIDE DEF R, n
    <3> QED BY <1>1, <2>1
  <2>3. R[p[k]] = R[i] /\ p[k] \in 1..n
    <3> HIDE DEF p, R, n
    <3> QED BY <1>8, <2>2
  <2>4. p[k] = i
    <3> HIDE DEF p, R, n, k
    <3> QED BY <1>6, <2>3 DEF Injection, IsInjective
  <2> HIDE DEF p
  <2> QED BY <2>2, <2>4
<1>11. ASSUME NEW k \in 1..n, NEW l \in 1..n, k < l PROVE Precedes(es, p[k], p[l])
  <2>1. R[p[k]] = k - 1 /\ R[p[l]] = l - 1 /\ p[k] \in 1..n /\ p[l] \in 1..n
    BY <1>8
  <2> HIDE DEF p
  <2>2. p[k] # p[l]
    BY <1>11, <2>1
  <2>3. ~ Precedes(es, p[l], p[k])
    <3>1. SUFFICES ASSUME Precedes(es, p[l], p[k]) PROVE FALSE
      OBVIOUS
    <3>2. R[p[l]] < R[p[k]]
      BY <1>4, <2>1, <3>1
    <3> HIDE DEF R, n
    <3> QED BY <1>11, <2>1, <3>2
  <2> QED BY <1>5, <2>1, <2>2, <2>3
<1>12. p \in [1..n -> 1..n]
  BY <1>8
<1> HIDE DEF p, R
<1> QED BY <1>9, <1>10, <1>11, <1>12
----------------------------------------------------------------------------
(* Queues and files *)

(* The events of the lines, one for each.                                  *)
LEMMA EventsOf ==
    ASSUME NEW lines \in Seq(Line)
    PROVE  /\ Events(lines) \in Seq(Event) /\ Len(Events(lines)) = Len(lines)
           /\ \A i \in 1..Len(lines) : Events(lines)[i] = lines[i].event
<1>1. ASSUME NEW i \in 1..Len(lines) PROVE lines[i].event \in Event
  <2>1. lines[i] \in Line
    OBVIOUS
  <2> QED BY <2>1 DEF Line
<1>2. Events(lines) \in [1..Len(lines) -> Event]
  BY <1>1 DEF Events
<1> QED BY <1>2 DEF Events

(* The queues' events, each once, in capture order. *)
LEMMA MergedType ==
    ASSUME CaptureType
    PROVE  /\ spawnQueue \o probeQueue \in Seq(Event)
           /\ Merged \in Seq(Event)
           /\ Len(Merged) = Len(spawnQueue) + Len(probeQueue)
<1> DEFINE es == spawnQueue \o probeQueue
<1>1. es \in Seq(Event) /\ Len(es) = Len(spawnQueue) + Len(probeQueue)
  BY DEF CaptureType
<1>2. \A i \in 1..Len(es) : es[i].seq \in Nat
  <2> HIDE DEF es
  <2>1. \A i \in 1..Len(es) : es[i] \in Event
    BY <1>1
  <2> QED BY <2>1 DEF Event
<1>3. Merged = InOrder(es)
  BY DEF Merged
<1> HIDE DEF es
<1>4. PICK p \in [1..Len(es) -> 1..Len(es)] :
          /\ InOrder(es) = [k \in 1..Len(es) |-> es[p[k]]]
          /\ \A i \in 1..Len(es) : \E k \in 1..Len(es) : p[k] = i
          /\ \A k, l \in 1..Len(es) : k < l => Precedes(es, p[k], p[l])
  BY <1>1, <1>2, InOrderSorts
<1>5. InOrder(es) \in [1..Len(es) -> Event]
  BY <1>1, <1>4
<1>6. InOrder(es) \in Seq(Event) /\ Len(InOrder(es)) = Len(es)
  BY <1>1, <1>5
<1> QED BY <1>1, <1>3, <1>6 DEF es

(* The envelopes of a batch are numbered from the end of the file on.      *)
LEMMA EnvelopedType ==
    ASSUME FilesType, NEW recs \in Seq(Event)
    PROVE  /\ Enveloped(recs) \in Seq(Line) /\ Len(Enveloped(recs)) = Len(recs)
           /\ \A i \in 1..Len(recs) :
                 /\ Enveloped(recs)[i].fileSeq = Len(written) + i - 1
                 /\ Enveloped(recs)[i].session = Session
                 /\ Enveloped(recs)[i].event = recs[i]
           /\ written \o Enveloped(recs) \in Seq(Line)
<1>1. ASSUME NEW i \in 1..Len(recs)
      PROVE  Envelope(Len(written) + i - 1, Session, recs[i]) \in Line
  <2>1. Len(written) + i - 1 \in Nat /\ Session \in Nat /\ recs[i] \in Event
    BY DEF FilesType, Session
  <2> HIDE DEF Session
  <2> QED BY <2>1 DEF Envelope, Line
<1>2. Enveloped(recs) \in [1..Len(recs) -> Line]
  BY <1>1 DEF Enveloped
<1>3. Enveloped(recs) \in Seq(Line) /\ Len(Enveloped(recs)) = Len(recs)
  BY <1>2 DEF Enveloped
<1>4. written \o Enveloped(recs) \in Seq(Line)
  BY <1>3 DEF FilesType
<1>5. ASSUME NEW i \in 1..Len(recs)
      PROVE  /\ Enveloped(recs)[i].fileSeq = Len(written) + i - 1
             /\ Enveloped(recs)[i].session = Session
             /\ Enveloped(recs)[i].event = recs[i]
  BY DEF Enveloped, Envelope
<1> QED BY <1>3, <1>4, <1>5

(* What is queued of one or two facts: all of them unless a fault is counted. *)
LEMMA ProbePushed ==
    ASSUME CaptureType, NEW recs \in Seq(Event), Len(recs) > 0, NEW readable, ProbePush(recs, readable)
    PROVE  /\ probeQueue' \in Seq(Event) /\ Len(probeQueue') <= Capacity
           /\ nextSequence' \in Nat \ {0} /\ nextSequence <= nextSequence'
           /\ faults' \subseteq {"spawn", "probe"} /\ faults \subseteq faults'
           /\ ~probes => probeQueue' = probeQueue /\ nextSequence' = nextSequence /\ faults' = faults
           /\ probes /\ faults' = {} =>
                 /\ probeQueue' = probeQueue \o recs
                 /\ nextSequence' = nextSequence + Len(recs)
<1> DEFINE places == Capacity - Len(probeQueue)
           m == IF places < Len(recs) THEN places ELSE Len(recs)
           kept == SubSeq(recs, 1, m)
<1>1. Capacity \in Nat /\ Len(probeQueue) \in Nat /\ Len(recs) \in Nat /\ places \in Nat /\ m \in 0..Len(recs)
  BY CaptureAssumption DEF CaptureType
<1>2. kept \in Seq(Event) /\ Len(kept) = m
  <2> HIDE DEF m
  <2> QED BY <1>1
<1>3. m = Len(recs) => kept = recs
  <2> HIDE DEF m
  <2> QED BY <1>1
<1>4. probeQueue \o kept \in Seq(Event) /\ Len(probeQueue \o kept) = Len(probeQueue) + m
  <2>1. probeQueue \in Seq(Event)
    BY DEF CaptureType
  <2> HIDE DEF kept, m
  <2> QED BY <1>2, <2>1, SMTT(30)
<1>5. m <= places
  BY <1>1
<1>0. /\ probeQueue \in Seq(Event) /\ Len(probeQueue) <= Capacity
      /\ nextSequence \in Nat \ {0}
      /\ faults \subseteq {"spawn", "probe"}
  BY DEF CaptureType
<1>6. CASE ~probes
  <2>1. UNCHANGED <<probeQueue, nextSequence, faults>>
    BY <1>6 DEF ProbePush
  <2> QED BY <1>0, <1>6, <2>1
<1>7. CASE probes /\ ~readable
  <2>1. faults' = faults \cup {"probe"} /\ UNCHANGED <<probeQueue, nextSequence>>
    BY <1>7 DEF ProbePush
  <2> QED BY <1>0, <1>7, <2>1
<1>8. CASE probes /\ readable
  <2>1. /\ probeQueue' = probeQueue \o kept
        /\ nextSequence' = nextSequence + Len(recs)
        /\ faults' = faults \cup (IF Len(recs) > places THEN {"probe"} ELSE {})
    BY <1>8 DEF ProbePush
  <2>2. faults' = {} => m = Len(recs)
    BY <1>1, <2>1
  <2>3. Len(probeQueue) + m <= Capacity
    <3> HIDE DEF m
    <3> QED BY <1>1, <1>5
  <2>4. nextSequence' \in Nat \ {0} /\ nextSequence <= nextSequence'
    BY <1>0, <1>1, <2>1
  <2>5. faults' \subseteq {"spawn", "probe"} /\ faults \subseteq faults'
    BY <1>0, <2>1
  <2> HIDE DEF kept, m, places
  <2> QED BY <1>3, <1>4, <1>8, <2>1, <2>2, <2>3, <2>4, <2>5
<1> QED BY <1>6, <1>7, <1>8
----------------------------------------------------------------------------
(* The game's pool *)

(* What a free slot holds.                                                 *)
LEMMA FreeType ==
    /\ Free \in Creature
    /\ Free.gen = 1 /\ ~Free.used /\ Free.stage = 0 /\ ~Free.gone /\ Free.play
BY DEF Free, Creature

(* What a slot holds whose zombie nobody saw initialized.                  *)
LEMMA ResidentType ==
    ASSUME NEW g \in Nat
    PROVE  /\ Resident(g) \in Creature
           /\ Resident(g).gen = 1 /\ Resident(g).used /\ Resident(g).stage = g
           /\ ~Resident(g).gone /\ Resident(g).play
<1> DEFINE f == [Free EXCEPT !.used = TRUE]
           r == [f EXCEPT !.stage = g]
<1>1. Resident(g) = r
  BY DEF Resident
<1>0. Free \in Creature
  BY FreeType
<1>2. f \in Creature /\ f.gen = Free.gen /\ f.used /\ f.gone = Free.gone /\ f.play = Free.play
  BY <1>0 DEF Creature
<1> HIDE DEF f
<1>3. r \in Creature /\ r.gen = f.gen /\ r.used = f.used /\ r.stage = g /\ r.gone = f.gone /\ r.play = f.play
  BY <1>2 DEF Creature
<1> HIDE DEF r
<1> QED BY <1>1, <1>2, <1>3, FreeType

(* A birth keeps the generation of its slot.                               *)
LEMMA BornType ==
    ASSUME NEW c \in Creature, NEW play \in BOOLEAN
    PROVE  LET b == Born(c, play)
           IN  /\ b \in Creature
               /\ b.gen = c.gen /\ b.used /\ b.stage = c.stage /\ b.gone = c.gone /\ b.play = play
<1> DEFINE f == [c EXCEPT !.used = TRUE]
           r == [f EXCEPT !.play = play]
<1>1. Born(c, play) = r
  BY DEF Born
<1>2. f \in Creature /\ f.gen = c.gen /\ f.used /\ f.stage = c.stage /\ f.gone = c.gone
  BY DEF Creature
<1> HIDE DEF f
<1>3. r \in Creature /\ r.gen = f.gen /\ r.used = f.used /\ r.stage = f.stage /\ r.gone = f.gone /\ r.play = play
  BY <1>2 DEF Creature
<1> HIDE DEF r
<1> QED BY <1>1, <1>2, <1>3

(* Everything but slot s is as it was. *)
Elsewhere(s) == pool' \in Pool /\ \A t \in Slots : t # s => pool'[t] = pool[t]

(* An entry changes its slot only, and makes it used.                      *)
LEMMA EnterPool ==
    ASSUME GameType, NEW s \in Slots, NEW play \in BOOLEAN, Enter(s, play)
    PROVE  /\ Elsewhere(s) /\ pool[s] \in Creature /\ ~pool[s].used
           /\ pool'[s].gen = pool[s].gen /\ pool'[s].used /\ pool'[s].stage = pool[s].stage
           /\ pool'[s].gone = pool[s].gone /\ pool'[s].play = play
<1>1. pool \in Pool /\ pool[s] \in Creature
  BY DEF GameType, Pool
<1>2. pool' = [pool EXCEPT ![s] = Born(pool[s], play)] /\ ~pool[s].used
  BY DEF Enter
<1>3. Born(pool[s], play) \in Creature
  BY <1>1, BornType
<1>4. pool' \in Pool /\ pool'[s] = Born(pool[s], play) /\ \A t \in Slots : t # s => pool'[t] = pool[t]
  BY <1>1, <1>2, <1>3 DEF Pool
<1> QED BY <1>1, <1>2, <1>4, BornType DEF Elsewhere

(* A turn changes its slot only, and only the stage, to one of the living. *)
LEMMA TurnPool ==
    ASSUME GameType, NEW s \in Slots, NEW stage \in Phases, Turn(s, stage)
    PROVE  /\ Elsewhere(s) /\ pool[s] \in Creature /\ pool[s].used /\ ~pool[s].gone
           /\ pool[s].stage \notin Death /\ stage \notin Death
           /\ pool'[s].gen = pool[s].gen /\ pool'[s].used /\ pool'[s].stage = stage
           /\ ~pool'[s].gone /\ pool'[s].play = pool[s].play
<1>1. pool \in Pool /\ pool[s] \in Creature
  BY DEF GameType, Pool
<1>2. stage \in Nat /\ stage \notin Death
  BY CaptureAssumption DEF Death
<1> DEFINE c == [pool[s] EXCEPT !.stage = stage]
<1>3. pool' = [pool EXCEPT ![s] = c] /\ pool[s].used /\ ~pool[s].gone /\ pool[s].stage \notin Death
  BY DEF Turn
<1>4. /\ c \in Creature /\ c.gen = pool[s].gen /\ c.used = pool[s].used /\ c.stage = stage
      /\ c.gone = pool[s].gone /\ c.play = pool[s].play
  BY <1>1, <1>2 DEF Creature
<1> HIDE DEF c
<1>5. pool' \in Pool /\ pool'[s] = c /\ \A t \in Slots : t # s => pool'[t] = pool[t]
  BY <1>1, <1>3, <1>4 DEF Pool
<1> QED BY <1>1, <1>2, <1>3, <1>4, <1>5 DEF Elsewhere

(* A store changes its slot only, and only the stage.                      *)
LEMMA StorePool ==
    ASSUME GameType, NEW s \in Slots, NEW stage \in Stages, NEW readable, Store(s, stage, readable)
    PROVE  /\ Elsewhere(s) /\ pool[s] \in Creature /\ pool[s].used /\ ~pool[s].gone
           /\ pool'[s].gen = pool[s].gen /\ pool'[s].used /\ pool'[s].stage = stage
           /\ ~pool'[s].gone /\ pool'[s].play = pool[s].play
<1>1. pool \in Pool /\ pool[s] \in Creature
  BY DEF GameType, Pool
<1> DEFINE c == [pool[s] EXCEPT !.stage = stage]
<1>2. pool' = [pool EXCEPT ![s] = c] /\ pool[s].used /\ ~pool[s].gone
  BY DEF Store
<1>3. /\ c \in Creature /\ c.gen = pool[s].gen /\ c.used = pool[s].used /\ c.stage = stage
      /\ c.gone = pool[s].gone /\ c.play = pool[s].play
  BY <1>1, CaptureAssumption DEF Creature
<1> HIDE DEF c
<1>4. pool' \in Pool /\ pool'[s] = c /\ \A t \in Slots : t # s => pool'[t] = pool[t]
  BY <1>1, <1>2, <1>3 DEF Pool
<1> QED BY <1>1, <1>2, <1>3, <1>4 DEF Elsewhere

(* A removal changes its slot only, and only the mark.                     *)
LEMMA MarkPool ==
    ASSUME GameType, NEW s \in Slots, NEW chain \in BOOLEAN, NEW readable, Mark(s, chain, readable)
    PROVE  /\ Elsewhere(s) /\ pool[s] \in Creature /\ pool[s].used /\ ~pool[s].gone
           /\ pool'[s].gen = pool[s].gen /\ pool'[s].used /\ pool'[s].stage = pool[s].stage
           /\ pool'[s].gone /\ pool'[s].play = pool[s].play
<1>1. pool \in Pool /\ pool[s] \in Creature
  BY DEF GameType, Pool
<1> DEFINE c == [pool[s] EXCEPT !.gone = TRUE]
<1>2. pool' = [pool EXCEPT ![s] = c] /\ pool[s].used /\ ~pool[s].gone
  BY DEF Mark
<1>3. /\ c \in Creature /\ c.gen = pool[s].gen /\ c.used = pool[s].used /\ c.stage = pool[s].stage
      /\ c.gone /\ c.play = pool[s].play
  BY <1>1 DEF Creature
<1> HIDE DEF c
<1>4. pool' \in Pool /\ pool'[s] = c /\ \A t \in Slots : t # s => pool'[t] = pool[t]
  BY <1>1, <1>2, <1>3 DEF Pool
<1> QED BY <1>1, <1>2, <1>3, <1>4 DEF Elsewhere

(* A recycling frees its slot for the next generation.                     *)
LEMMA RecyclePool ==
    ASSUME GameType, NEW s \in Slots, NEW readable, Recycle(s, readable)
    PROVE  /\ Elsewhere(s) /\ pool[s] \in Creature /\ pool[s].used /\ pool[s].gone
           /\ pool'[s].gen = pool[s].gen + 1 /\ ~pool'[s].used /\ pool'[s].stage = 0
           /\ ~pool'[s].gone
<1>1. pool \in Pool /\ pool[s] \in Creature
  BY DEF GameType, Pool
<1> DEFINE n == pool[s].gen + 1
           c == [Free EXCEPT !.gen = n]
<1>2. pool' = [pool EXCEPT ![s] = c] /\ pool[s].used /\ pool[s].gone
  BY DEF Recycle
<1>3. n \in Nat \ {0}
  BY <1>1 DEF Creature
<1> HIDE DEF n
<1>6. Free \in Creature
  BY FreeType
<1>4. c \in Creature /\ c.gen = n /\ c.used = Free.used /\ c.stage = Free.stage /\ c.gone = Free.gone
  BY <1>3, <1>6 DEF Creature
<1> HIDE DEF c
<1>5. pool' \in Pool /\ pool'[s] = c /\ \A t \in Slots : t # s => pool'[t] = pool[t]
  BY <1>1, <1>2, <1>4 DEF Pool
<1> QED BY <1>1, <1>2, <1>4, <1>5, FreeType DEF Elsewhere, n

(* A zombie's identity names its slot and its generation. *)
LEMMA IdType ==
    ASSUME GameType, NEW s \in Slots
    PROVE  /\ Id(s) \in Zombies /\ Id(s)[1] = s /\ Id(s)[2] = pool[s].gen
           /\ pool[s] \in Creature /\ pool[s].gen \in Nat \ {0} /\ pool[s].stage \in Nat
           /\ pool[s].play \in BOOLEAN
<1>1. pool[s] \in Creature
  BY DEF GameType, Pool
<1>2. pool[s].gen \in Nat \ {0} /\ pool[s].stage \in Nat /\ pool[s].play \in BOOLEAN
  BY <1>1 DEF Creature
<1> QED BY <1>1, <1>2 DEF Id, Zombies
----------------------------------------------------------------------------
(* Every step keeps the types *)

(* The types hold at the start.                                            *)
LEMMA TypeInit == Init => TypeInv
<1> SUFFICES ASSUME Init PROVE TypeInv
  OBVIOUS
<1>1. pool \in Pool
  <2>1. Residents \cup {Free} \subseteq Creature
    BY FreeType, ResidentType, CaptureAssumption DEF Residents
  <2>2. pool \in [Slots -> Residents \cup {Free}]
    BY DEF Init
  <2> QED BY <2>1, <2>2 DEF Pool
<1>2. block \in Block
  BY DEF Init, Block
<1>3. CaptureType
  <2>1. Capacity \in Nat
    BY CaptureAssumption
  <2> QED BY <2>1 DEF Init, CaptureType
<1>4. GameType
  BY <1>1 DEF Init, GameType
<1>5. FilesType
  BY <1>2 DEF Init, FilesType
<1>6. RunType
  BY DEF Init, RunType, Null
<1> QED BY <1>3, <1>4, <1>5, <1>6 DEF TypeInv

(* A happening is counted. *)
LEMMA HappenType ==
    ASSUME GameType, NEW n \in Nat, Happen(n)
    PROVE  happened' \in Nat /\ due' \in Nat /\ due' = due + n
BY DEF GameType, Happen

(* The types of versions and frames.                                       *)
LEMMA VersionType ==
    ASSUME RunType
    PROVE  boundary \in Nat /\ version \in Nat /\ Len(frames) \in Nat
BY DEF RunType, Null

(* An entry keeps the types.                                               *)
LEMMA EnterType ==
    ASSUME TypeInv, NEW s \in Slots, NEW play \in BOOLEAN, Enter(s, play)
    PROVE  TypeInv'
<1> USE DEF TypeInv
<1>1. CaptureType'
  <2> DEFINE followed == Len(stack) < NestLimit
             item == [inv |-> IF followed THEN nextInvocation ELSE 0, depth |-> Len(stack),
                      parent |-> IF stack = <<>> THEN 0 ELSE Last(stack).inv,
                      ver |-> boundary, z |-> Id(s), play |-> play]
  <2>1. /\ stack' = Append(stack, item)
        /\ nextInvocation' = IF followed THEN nextInvocation + 1 ELSE nextInvocation
        /\ faults' = IF followed THEN faults ELSE faults \cup {"spawn"}
        /\ UNCHANGED <<probes, spawnQueue, probeQueue, nextSequence>>
    BY DEF Enter
  <2>2. stack # <<>> => Last(stack).inv \in Nat
    <3> SUFFICES ASSUME stack # <<>> PROVE Last(stack).inv \in Nat
      OBVIOUS
    <3>1. stack \in Seq(Invocation)
      BY DEF CaptureType
    <3>2. Last(stack) \in Invocation
      BY <3>1 DEF Last
    <3> QED BY <3>2 DEF Invocation
  <2>3. item \in Invocation
    <3>1. Id(s) \in Zombies
      BY IdType
    <3>2. boundary \in Nat /\ Len(stack) \in Nat /\ nextInvocation \in Nat
      BY VersionType DEF CaptureType
    <3> QED BY <2>2, <3>1, <3>2 DEF Invocation
  <2> HIDE DEF item
  <2>4. Append(stack, item) \in Seq(Invocation)
    BY <2>3 DEF CaptureType
  <2>5. nextInvocation' \in Nat \ {0} /\ faults' \subseteq {"spawn", "probe"}
    BY <2>1 DEF CaptureType
  <2> QED BY <2>1, <2>4, <2>5 DEF CaptureType
<1>2. GameType'
  <2>1. pool' \in Pool
    BY EnterPool DEF Elsewhere
  <2>2. happened' \in Nat /\ due' \in Nat
    <3>1. Happen(1)
      BY DEF Enter
    <3> QED BY <3>1, HappenType
  <2>3. truth' = truth
    BY DEF Enter
  <2> QED BY <2>1, <2>2, <2>3 DEF GameType
<1>3. FilesType' /\ RunType'
  <2>1. UNCHANGED <<written, notes, block, receipt, frames, initial, ending, version, boundary, phase>>
    BY DEF Enter, files, run, clock
  <2> QED BY <2>1 DEF FilesType, RunType
<1> QED BY <1>1, <1>2, <1>3

(* What the return of an initializer leaves. *)
LEMMA LeaveCapture ==
    ASSUME CaptureType, NEW readable, Leave(readable)
    PROVE  /\ CaptureType' /\ faults \subseteq faults'
           /\ Len(stack) \in Nat \ {0} /\ Last(stack) \in Invocation
           /\ Len(stack') = Len(stack) - 1 /\ \A k \in 1..Len(stack') : stack'[k] = stack[k]
           /\ faults' = {} /\ Len(stack) <= NestLimit =>
                 /\ spawnQueue' = Append(spawnQueue, InitEvent(Last(stack), nextSequence))
                 /\ nextSequence' = nextSequence + 1
           /\ Len(stack) > NestLimit => spawnQueue' = spawnQueue /\ nextSequence' = nextSequence
<1>1. stack \in Seq(Invocation) /\ stack # <<>> /\ stack' = Front(stack)
  BY DEF CaptureType, Leave
<1>2. Len(stack) \in Nat \ {0} /\ Last(stack) \in Invocation
  BY <1>1 DEF Last
<1>3. /\ Front(stack) \in Seq(Invocation) /\ Len(Front(stack)) = Len(stack) - 1
      /\ \A k \in 1..(Len(stack) - 1) : Front(stack)[k] = stack[k]
  <2>1. Len(stack) - 1 \in 0..Len(stack)
    BY <1>2
  <2> QED BY <1>1, <2>1, PrefixOf DEF Front
<1>4. UNCHANGED <<probes, probeQueue, nextInvocation>>
  BY DEF Leave
<1> DEFINE e == InitEvent(Last(stack), nextSequence)
<1>5. nextSequence \in Nat \ {0} /\ spawnQueue \in Seq(Event) /\ faults \subseteq {"spawn", "probe"}
  BY DEF CaptureType
<1>6. e \in Event
  BY <1>2, <1>5, InitEventType
<1> HIDE DEF e
<1>7. Append(spawnQueue, e) \in Seq(Event)
  BY <1>5, <1>6
<1>8. \/ /\ Len(stack) > NestLimit /\ UNCHANGED <<spawnQueue, nextSequence, faults>>
      \/ /\ ~(Len(stack) > NestLimit) /\ spawnQueue' = Append(spawnQueue, e)
         /\ nextSequence' = nextSequence + 1 /\ faults' = faults
      \/ /\ ~(Len(stack) > NestLimit) /\ faults' = faults \cup {"spawn"}
         /\ UNCHANGED <<spawnQueue, nextSequence>>
  BY DEF Leave, e
<1>9. /\ spawnQueue' \in Seq(Event) /\ nextSequence' \in Nat \ {0}
      /\ faults' \subseteq {"spawn", "probe"} /\ faults \subseteq faults'
  <2>1. spawnQueue' \in Seq(Event) /\ nextSequence' \in Nat \ {0}
    BY <1>5, <1>7, <1>8, SMTT(30)
  <2>2. faults' \subseteq {"spawn", "probe"} /\ faults \subseteq faults'
    BY <1>5, <1>8
  <2> QED BY <2>1, <2>2
<1>10. CaptureType'
  BY <1>1, <1>3, <1>4, <1>9 DEF CaptureType
<1>11. Len(stack) <= NestLimit <=> ~(Len(stack) > NestLimit)
  BY <1>2, CaptureAssumption
<1> QED BY <1>1, <1>2, <1>3, <1>8, <1>9, <1>10, <1>11 DEF e

(* A return keeps the types.                                               *)
LEMMA LeaveType ==
    ASSUME TypeInv, NEW readable, Leave(readable)
    PROVE  TypeInv'
<1>1. UNCHANGED <<pool, truth, happened, due, written, notes, block, receipt, frames, initial, ending,
                  version, boundary, phase>>
  BY DEF Leave, game, files, run, clock
<1>2. CaptureType'
  BY LeaveCapture DEF TypeInv
<1>3. GameType' /\ FilesType' /\ RunType'
  BY <1>1 DEF TypeInv, GameType, FilesType, RunType
<1> QED BY <1>2, <1>3 DEF TypeInv
(* What a probe's facts leave: all of them are queued, or a fault is counted. *)
Captured(recs) ==
    /\ CaptureType' /\ faults \subseteq faults'
    /\ UNCHANGED <<probes, stack, spawnQueue, nextInvocation>>
    /\ nextSequence <= nextSequence'
    /\ ~probes => probeQueue' = probeQueue /\ nextSequence' = nextSequence /\ faults' = faults
    /\ probes /\ faults' = {} => /\ probeQueue' = probeQueue \o recs
                                 /\ nextSequence' = nextSequence + Len(recs)

(* What a push of probe records does to the queue.                         *)
LEMMA CapturedBy ==
    ASSUME CaptureType, NEW recs \in Seq(Event), Len(recs) > 0, NEW readable, ProbePush(recs, readable),
           UNCHANGED <<probes, stack, spawnQueue, nextInvocation>>
    PROVE  Captured(recs)
<1>1. /\ probeQueue' \in Seq(Event) /\ Len(probeQueue') <= Capacity
      /\ nextSequence' \in Nat \ {0} /\ nextSequence <= nextSequence'
      /\ faults' \subseteq {"spawn", "probe"} /\ faults \subseteq faults'
      /\ ~probes => probeQueue' = probeQueue /\ nextSequence' = nextSequence /\ faults' = faults
      /\ probes /\ faults' = {} =>
            /\ probeQueue' = probeQueue \o recs
            /\ nextSequence' = nextSequence + Len(recs)
  BY ProbePushed
<1>2. CaptureType'
  BY <1>1 DEF CaptureType
<1> QED BY <1>1, <1>2 DEF Captured

StoreEvent(s, stage) == PhaseEvent(Id(s), pool[s].play, nextSequence, boundary, pool[s].stage, stage)
MarkEvent(s, chain) == RemovalEvent(Id(s), pool[s].play, nextSequence, boundary, chain)
CandidateEvent(s) == Fact("candidate", Id(s), pool[s].play, nextSequence, boundary)
CommitOf(s) == CommitEvent(Id(s), pool[s].play, nextSequence + 1, boundary)
LossAt(s, kill) == [z |-> Id(s), kill |-> kill, play |-> pool[s].play, at |-> Len(frames), seq |-> nextSequence]

(* The history of losses after a store that may be a zombie's first death. *)
TruthStep(s, kill) ==
    truth' = IF pool[s].stage \in Death THEN truth ELSE Append(truth, LossAt(s, kill))

(* The events a slot can give are typed.                                   *)
LEMMA SlotEvents ==
    ASSUME TypeInv, NEW s \in Slots
    PROVE  /\ \A stage \in Stages :
                  /\ StoreEvent(s, stage) \in Event
                  /\ StoreEvent(s, stage).kind = "phase" /\ StoreEvent(s, stage).z = Id(s)
                  /\ StoreEvent(s, stage).play = pool[s].play /\ StoreEvent(s, stage).seq = nextSequence
                  /\ StoreEvent(s, stage).ver = boundary /\ StoreEvent(s, stage).before = pool[s].stage
                  /\ StoreEvent(s, stage).after = stage
           /\ \A chain \in BOOLEAN :
                  /\ MarkEvent(s, chain) \in Event
                  /\ MarkEvent(s, chain).kind = "removal" /\ MarkEvent(s, chain).z = Id(s)
                  /\ MarkEvent(s, chain).play = pool[s].play /\ MarkEvent(s, chain).seq = nextSequence
                  /\ MarkEvent(s, chain).ver = boundary /\ MarkEvent(s, chain).before = 0
                  /\ MarkEvent(s, chain).after = 1 /\ MarkEvent(s, chain).chain = chain
           /\ CandidateEvent(s) \in Event
           /\ CandidateEvent(s).kind = "candidate" /\ CandidateEvent(s).z = Id(s)
           /\ CandidateEvent(s).seq = nextSequence /\ CandidateEvent(s).ver = boundary
           /\ CommitOf(s) \in Event
           /\ CommitOf(s).kind = "commit" /\ CommitOf(s).z = Id(s)
           /\ CommitOf(s).seq = nextSequence + 1 /\ CommitOf(s).ver = boundary
           /\ CommitOf(s).ref = nextSequence
<1>1. Id(s) \in Zombies /\ pool[s].play \in BOOLEAN /\ pool[s].stage \in Nat
  BY IdType DEF TypeInv
<1>2. nextSequence \in Nat \ {0} /\ nextSequence + 1 \in Nat \ {0} /\ boundary \in Nat
  BY VersionType DEF TypeInv, CaptureType
<1>3. \A kind \in Kinds, seq \in Nat \ {0} :
         LET f == Fact(kind, Id(s), pool[s].play, seq, boundary)
         IN  f \in Event /\ f.kind = kind /\ f.z = Id(s) /\ f.play = pool[s].play /\ f.seq = seq /\ f.ver = boundary
  BY <1>1, <1>2, FactType
<1>4. {"phase", "removal", "candidate", "commit"} \subseteq Kinds
  BY DEF Kinds
<1>5. ASSUME NEW stage \in Stages
      PROVE  /\ StoreEvent(s, stage) \in Event
             /\ StoreEvent(s, stage).kind = "phase" /\ StoreEvent(s, stage).z = Id(s)
             /\ StoreEvent(s, stage).play = pool[s].play /\ StoreEvent(s, stage).seq = nextSequence
             /\ StoreEvent(s, stage).ver = boundary /\ StoreEvent(s, stage).before = pool[s].stage
             /\ StoreEvent(s, stage).after = stage
  <2>1. stage \in Nat
    BY CaptureAssumption
  <2>2. LET e == StoreEvent(s, stage)
        IN  /\ e \in Event /\ Alike(e, Fact("phase", Id(s), pool[s].play, nextSequence, boundary))
            /\ e.before = pool[s].stage /\ e.after = stage
    <3> DEFINE z == Id(s)
               play == pool[s].play
               a == pool[s].stage
    <3>1. z \in Zombies /\ play \in BOOLEAN /\ a \in Nat
      BY <1>1
    <3>2. StoreEvent(s, stage) = PhaseEvent(z, play, nextSequence, boundary, a, stage)
      BY DEF StoreEvent
    <3> HIDE DEF z, play, a
    <3>3. Moves(PhaseEvent(z, play, nextSequence, boundary, a, stage),
                Fact("phase", z, play, nextSequence, boundary), a, stage)
      BY <1>2, <2>1, <3>1, PhaseEventType
    <3> QED BY <3>2, <3>3 DEF z, play, a, Moves
  <2> QED BY <1>2, <1>3, <1>4, <2>2 DEF Alike
<1>6. ASSUME NEW chain \in BOOLEAN
      PROVE  /\ MarkEvent(s, chain) \in Event
             /\ MarkEvent(s, chain).kind = "removal" /\ MarkEvent(s, chain).z = Id(s)
             /\ MarkEvent(s, chain).play = pool[s].play /\ MarkEvent(s, chain).seq = nextSequence
             /\ MarkEvent(s, chain).ver = boundary /\ MarkEvent(s, chain).before = 0
             /\ MarkEvent(s, chain).after = 1 /\ MarkEvent(s, chain).chain = chain
  <2>1. LET e == MarkEvent(s, chain)
        IN  /\ e \in Event /\ Alike(e, Fact("removal", Id(s), pool[s].play, nextSequence, boundary))
            /\ e.before = 0 /\ e.after = 1 /\ e.chain = chain
    BY <1>1, <1>2, RemovalEventType DEF MarkEvent
  <2> QED BY <1>2, <1>3, <1>4, <2>1 DEF Alike
<1>7. /\ CommitOf(s) \in Event
      /\ CommitOf(s).kind = "commit" /\ CommitOf(s).z = Id(s)
      /\ CommitOf(s).seq = nextSequence + 1 /\ CommitOf(s).ver = boundary
      /\ CommitOf(s).ref = nextSequence
  <2>1. LET e == CommitOf(s)
        IN  /\ e \in Event /\ Alike(e, Fact("commit", Id(s), pool[s].play, nextSequence + 1, boundary))
            /\ e.ref = (nextSequence + 1) - 1
    BY <1>1, <1>2, CommitEventType DEF CommitOf
  <2>2. (nextSequence + 1) - 1 = nextSequence
    BY <1>2
  <2> QED BY <1>2, <1>3, <1>4, <2>1, <2>2 DEF Alike
<1> QED BY <1>2, <1>3, <1>4, <1>5, <1>6, <1>7 DEF CandidateEvent

(* The history stays typed.                                                *)
LEMMA TruthType ==
    ASSUME TypeInv, NEW s \in Slots, NEW kill \in BOOLEAN, TruthStep(s, kill)
    PROVE  truth' \in Seq(Loss) /\ LossAt(s, kill) \in Loss
<1>1. Id(s) \in Zombies /\ pool[s].play \in BOOLEAN
  BY IdType DEF TypeInv
<1>2. nextSequence \in Nat /\ Len(frames) \in Nat
  BY VersionType DEF TypeInv, CaptureType
<1>3. LossAt(s, kill) \in Loss
  BY <1>1, <1>2 DEF LossAt, Loss
<1> QED BY <1>3 DEF TruthStep, TypeInv, GameType

(* A turn captures nothing and adds nothing to the history.                *)
LEMMA TurnStep ==
    ASSUME TypeInv, NEW s \in Slots, NEW stage \in Phases, Turn(s, stage)
    PROVE  UNCHANGED <<probes, truth, due, capture, files, run, clock>> /\ TypeInv'
<1>1. UNCHANGED <<probes, truth, capture, files, run, clock>> /\ Happen(0)
  BY DEF Turn
<1>2. happened' \in Nat /\ due' = due
  BY <1>1, HappenType DEF TypeInv, GameType
<1>3. pool' \in Pool
  BY TurnPool DEF Elsewhere, TypeInv
<1>4. GameType'
  BY <1>1, <1>2, <1>3 DEF TypeInv, GameType
<1>5. CaptureType' /\ FilesType' /\ RunType'
  BY <1>1 DEF TypeInv, CaptureType, FilesType, RunType, capture, files, run, clock
<1> QED BY <1>1, <1>2, <1>4, <1>5 DEF TypeInv

(* A store, a removal and a recycled slot: what they leave of the game and of *)
(* the capture.                                                               *)
LEMMA StoreStep ==
    ASSUME TypeInv, NEW s \in Slots, NEW stage \in Stages, NEW readable, Store(s, stage, readable)
    PROVE  /\ Captured(<<StoreEvent(s, stage)>>) /\ TruthStep(s, TRUE)
           /\ due' = due + (IF probes THEN 1 ELSE 0)
           /\ UNCHANGED <<files, run, clock>>
           /\ TypeInv'
<1>1. /\ ProbePush(<<StoreEvent(s, stage)>>, readable) /\ TruthStep(s, TRUE)
      /\ UNCHANGED <<probes, stack, spawnQueue, nextInvocation, files, run, clock>>
      /\ Happen(IF probes THEN 1 ELSE 0)
  BY DEF Store, StoreEvent, TruthStep, LossAt
<1>2. Captured(<<StoreEvent(s, stage)>>)
  <2>1. <<StoreEvent(s, stage)>> \in Seq(Event) /\ Len(<<StoreEvent(s, stage)>>) > 0
    <3>1. StoreEvent(s, stage) \in Event
      BY SlotEvents
    <3> QED BY <3>1
  <2> QED BY <1>1, <2>1, CapturedBy DEF TypeInv
<1>3. happened' \in Nat /\ due' \in Nat /\ due' = due + (IF probes THEN 1 ELSE 0)
  <2>1. (IF probes THEN 1 ELSE 0) \in Nat
    OBVIOUS
  <2> QED BY <1>1, <2>1, HappenType DEF TypeInv
<1>4. GameType'
  <2>1. pool' \in Pool
    BY StorePool DEF Elsewhere, TypeInv
  <2>2. truth' \in Seq(Loss)
    BY <1>1, TruthType
  <2> QED BY <1>3, <2>1, <2>2 DEF GameType
<1>5. FilesType' /\ RunType'
  BY <1>1 DEF TypeInv, FilesType, RunType, files, run, clock
<1> QED BY <1>1, <1>2, <1>3, <1>4, <1>5 DEF TypeInv, Captured

(* A removal captures one event and adds to the history.                   *)
LEMMA MarkStep ==
    ASSUME TypeInv, NEW s \in Slots, NEW chain \in BOOLEAN, NEW readable, Mark(s, chain, readable)
    PROVE  /\ Captured(<<MarkEvent(s, chain)>>) /\ TruthStep(s, chain)
           /\ due' = due + (IF probes THEN 1 ELSE 0)
           /\ UNCHANGED <<files, run, clock>>
           /\ TypeInv'
<1>1. /\ ProbePush(<<MarkEvent(s, chain)>>, readable) /\ TruthStep(s, chain)
      /\ UNCHANGED <<probes, stack, spawnQueue, nextInvocation, files, run, clock>>
      /\ Happen(IF probes THEN 1 ELSE 0)
  BY DEF Mark, MarkEvent, TruthStep, LossAt
<1>2. Captured(<<MarkEvent(s, chain)>>)
  <2>1. <<MarkEvent(s, chain)>> \in Seq(Event) /\ Len(<<MarkEvent(s, chain)>>) > 0
    <3>1. MarkEvent(s, chain) \in Event
      BY SlotEvents
    <3> QED BY <3>1
  <2> QED BY <1>1, <2>1, CapturedBy DEF TypeInv
<1>3. happened' \in Nat /\ due' \in Nat /\ due' = due + (IF probes THEN 1 ELSE 0)
  <2>1. (IF probes THEN 1 ELSE 0) \in Nat
    OBVIOUS
  <2> QED BY <1>1, <2>1, HappenType DEF TypeInv
<1>4. GameType'
  <2>1. pool' \in Pool
    BY MarkPool DEF Elsewhere, TypeInv
  <2>2. truth' \in Seq(Loss)
    BY <1>1, TruthType
  <2> QED BY <1>3, <2>1, <2>2 DEF GameType
<1>5. FilesType' /\ RunType'
  BY <1>1 DEF TypeInv, FilesType, RunType, files, run, clock
<1> QED BY <1>1, <1>2, <1>3, <1>4, <1>5 DEF TypeInv, Captured

(* A recycling captures two events and adds nothing to the history.        *)
LEMMA RecycleStep ==
    ASSUME TypeInv, NEW s \in Slots, NEW readable, Recycle(s, readable)
    PROVE  /\ Captured(<<CandidateEvent(s), CommitOf(s)>>) /\ truth' = truth
           /\ due' = due + (IF probes THEN 2 ELSE 0)
           /\ UNCHANGED <<files, run, clock>>
           /\ TypeInv'
<1>1. /\ ProbePush(<<CandidateEvent(s), CommitOf(s)>>, readable) /\ truth' = truth
      /\ UNCHANGED <<probes, stack, spawnQueue, nextInvocation, files, run, clock>>
      /\ Happen(IF probes THEN 2 ELSE 0)
  BY DEF Recycle, CandidateEvent, CommitOf
<1>2. Captured(<<CandidateEvent(s), CommitOf(s)>>)
  <2>1. <<CandidateEvent(s), CommitOf(s)>> \in Seq(Event) /\ Len(<<CandidateEvent(s), CommitOf(s)>>) > 0
    <3>1. CandidateEvent(s) \in Event /\ CommitOf(s) \in Event
      BY SlotEvents
    <3> QED BY <3>1
  <2> QED BY <1>1, <2>1, CapturedBy DEF TypeInv
<1>3. happened' \in Nat /\ due' \in Nat /\ due' = due + (IF probes THEN 2 ELSE 0)
  <2>1. (IF probes THEN 2 ELSE 0) \in Nat
    OBVIOUS
  <2> QED BY <1>1, <2>1, HappenType DEF TypeInv
<1>4. GameType'
  <2>1. pool' \in Pool
    BY RecyclePool DEF Elsewhere, TypeInv
  <2> QED BY <1>1, <1>3, <2>1 DEF TypeInv, GameType
<1>5. FilesType' /\ RunType'
  BY <1>1 DEF TypeInv, FilesType, RunType, files, run, clock
<1> QED BY <1>1, <1>2, <1>3, <1>4, <1>5 DEF TypeInv, Captured
(* What a drain leaves: both queues are empty and their events are written, *)
(* or the sequence did not rise and nothing is.                             *)
Recorded ==
    /\ spawnQueue' = <<>> /\ probeQueue' = <<>>
    /\ written' = IF Rising(Merged) THEN written \o Enveloped(Merged) ELSE written
    /\ UNCHANGED <<probes, game, stack, nextSequence, nextInvocation, faults>>

(* A drain keeps the types, and writes all or nothing.                     *)
LEMMA RecordedType ==
    ASSUME TypeInv, Recorded
    PROVE  /\ CaptureType' /\ GameType' /\ written' \in Seq(Line)
           /\ Rising(Merged) => /\ written' = written \o Enveloped(Merged)
                                /\ Len(written') = Len(written) + Len(spawnQueue) + Len(probeQueue)
           /\ ~Rising(Merged) => written' = written
<1>1. CaptureType'
  BY CaptureAssumption DEF Recorded, TypeInv, CaptureType
<1>2. GameType'
  BY DEF Recorded, TypeInv, GameType, game
<1>3. /\ Merged \in Seq(Event) /\ Len(Merged) = Len(spawnQueue) + Len(probeQueue)
      /\ Len(spawnQueue) \in Nat /\ Len(probeQueue) \in Nat
  BY MergedType DEF TypeInv, CaptureType
<1> DEFINE recs == Merged
<1>4. written' = IF Rising(recs) THEN written \o Enveloped(recs) ELSE written
  BY DEF Recorded
<1> HIDE DEF recs
<1>5. /\ Enveloped(recs) \in Seq(Line) /\ Len(Enveloped(recs)) = Len(recs)
      /\ written \o Enveloped(recs) \in Seq(Line)
      /\ written \in Seq(Line)
  <2>1. recs \in Seq(Event) /\ FilesType
    BY <1>3 DEF recs, TypeInv
  <2> QED BY <2>1, EnvelopedType DEF FilesType
<1>6. Len(written \o Enveloped(recs)) = Len(written) + Len(recs) /\ Len(written) \in Nat /\ Len(recs) \in Nat
  BY <1>3, <1>5 DEF recs
<1>7. CASE Rising(recs)
  <2>1. written' = written \o Enveloped(recs)
    BY <1>4, <1>7
  <2>2. Len(written) + Len(recs) = Len(written) + Len(spawnQueue) + Len(probeQueue)
    BY <1>3, <1>6 DEF recs
  <2>3. Len(written') = Len(written) + Len(spawnQueue) + Len(probeQueue)
    BY <1>6, <2>1, <2>2
  <2> QED BY <1>1, <1>2, <1>5, <1>7, <2>1, <2>3 DEF recs
<1>8. CASE ~Rising(recs)
  BY <1>1, <1>2, <1>4, <1>5, <1>8 DEF recs
<1> QED BY <1>7, <1>8

(* What an observation leaves. *)
Observed(newVersion, newBoundary, newPhase) ==
    /\ Recorded
    /\ stack = <<>>
    /\ notes' = notes \cup FaultNotes
    /\ UNCHANGED <<block, receipt, initial, ending>>
    /\ \/ /\ Rising(Merged) /\ faults = {}
          /\ version' = newVersion /\ boundary' = newBoundary /\ phase' = newPhase
          /\ frames' = Append(frames, [ver |-> newVersion, pool |-> pool])
       \/ /\ ~(Rising(Merged) /\ faults = {})
          /\ phase' = "stopped" /\ UNCHANGED <<version, boundary, frames>>

(* An audited observation, in its parts.                                   *)
LEMMA ObserveStep ==
    ASSUME NEW v, NEW b, NEW p, Observe(v, b, p)
    PROVE  Observed(v, b, p)
<1>1. Drain(Merged) /\ stack = <<>>
      /\ UNCHANGED <<probes, game, stack, nextSequence, nextInvocation, faults, block, receipt, initial, ending>>
  BY DEF Observe
<1>2. \/ /\ Rising(Merged) /\ faults = {}
         /\ version' = v /\ boundary' = b /\ phase' = p
         /\ frames' = Append(frames, [ver |-> v, pool |-> pool])
      \/ /\ ~(Rising(Merged) /\ faults = {})
         /\ phase' = "stopped" /\ UNCHANGED <<version, boundary, frames>>
  BY DEF Observe, Drained
<1> QED BY <1>1, <1>2 DEF Drain, Observed, Recorded

(* An observation keeps the types.                                         *)
LEMMA ObservedType ==
    ASSUME TypeInv, NEW v \in Nat \ {0}, NEW b \in {Null, v}, NEW p \in {"calm", "call"}, Observed(v, b, p)
    PROVE  TypeInv'
<1>1. CaptureType' /\ GameType' /\ written' \in Seq(Line)
  BY RecordedType DEF Observed
<1>2. FilesType'
  BY <1>1 DEF Observed, TypeInv, FilesType
<1>3. [ver |-> v, pool |-> pool] \in Frame
  BY DEF TypeInv, GameType, Frame
<1>4. Append(frames, [ver |-> v, pool |-> pool]) \in Seq(Frame)
  BY <1>3 DEF TypeInv, RunType
<1>5. frames' \in Seq(Frame) /\ initial' \subseteq Frame /\ ending' \in Nat
  BY <1>4 DEF Observed, TypeInv, RunType
<1>6. /\ version' \in Nat \ {0} /\ boundary' \in {Null, version'}
      /\ phase' \in {"calm", "call", "stopped", "closed"}
  BY DEF Observed, TypeInv, RunType
<1> QED BY <1>1, <1>2, <1>5, <1>6 DEF TypeInv, RunType

(* Reading the initial state leaves everything else as it is.              *)
LEMMA CaptureInitialType ==
    ASSUME TypeInv, CaptureInitial
    PROVE  TypeInv'
<1>1. /\ UNCHANGED <<probes, game, capture, files, frames, ending, clock>>
      /\ initial' = {[ver |-> version, pool |-> pool]}
  BY DEF CaptureInitial
<1>2. CaptureType' /\ GameType' /\ FilesType'
  BY <1>1 DEF TypeInv, CaptureType, GameType, FilesType, game, capture, files
<1>3. [ver |-> version, pool |-> pool] \in Frame
  BY DEF TypeInv, GameType, RunType, Frame
<1>4. RunType'
  BY <1>1, <1>3 DEF TypeInv, RunType, clock
<1> QED BY <1>2, <1>4 DEF TypeInv

(* The begin of a call is an observation.                                  *)
LEMMA BeginCallStep ==
    ASSUME TypeInv, BeginCall
    PROVE  phase = "calm" /\ Observed(version, version, "call") /\ TypeInv'
<1>1. Observed(version, version, "call") /\ phase = "calm"
  BY ObserveStep DEF BeginCall
<1>2. version \in Nat \ {0}
  BY DEF TypeInv, RunType
<1> QED BY <1>1, <1>2, ObservedType

(* The end of a call is an observation.                                    *)
LEMMA EndCallStep ==
    ASSUME TypeInv, EndCall
    PROVE  phase = "call" /\ Observed(version + 1, Null, "calm") /\ TypeInv'
<1>1. Observed(version + 1, Null, "calm") /\ phase = "call"
  BY ObserveStep DEF EndCall
<1>2. version + 1 \in Nat \ {0}
  BY DEF TypeInv, RunType
<1> QED BY <1>1, <1>2, ObservedType

(* What the close leaves. *)
Healthy == "probe" \notin faults
ClosedBlock == IF probes THEN [enabled |-> TRUE, final |-> TRUE, healthy |-> Healthy] ELSE block
Closing ==
    /\ Recorded
    /\ phase \in {"calm", "stopped"} /\ stack = <<>> /\ phase' = "closed"
    /\ notes' = notes \cup FaultNotes
                      \cup (IF "spawn" \in faults THEN {"spawn_closed_unhealthy"} ELSE {})
                      \cup (IF ~probes THEN {} ELSE IF Healthy THEN {"probes_closed"}
                            ELSE {"probes_closed_unhealthy"})
    /\ block' = ClosedBlock
    /\ receipt' = IF Rising(Merged) /\ faults = {} /\ phase = "calm"
                  THEN {[session |-> Session, records |-> written', block |-> block', healthy |-> Healthy]}
                  ELSE {}
    /\ UNCHANGED <<version, boundary, frames, initial, ending>>

(* The shutdown, in its parts.                                             *)
LEMMA CloseStep ==
    ASSUME TypeInv, Close
    PROVE  Closing /\ TypeInv'
<1>1. Recorded
  BY DEF Close, Recorded
<1>2. /\ phase \in {"calm", "stopped"} /\ stack = <<>> /\ phase' = "closed"
      /\ block' = ClosedBlock
      /\ UNCHANGED <<version, boundary, frames, initial, ending>>
  BY DEF Close, ClosedBlock, Healthy, run
<1>3. notes' = notes \cup FaultNotes
                     \cup (IF "spawn" \in faults THEN {"spawn_closed_unhealthy"} ELSE {})
                     \cup (IF ~probes THEN {} ELSE IF Healthy THEN {"probes_closed"}
                           ELSE {"probes_closed_unhealthy"})
  BY DEF Close, Healthy
<1>4. receipt' = IF Rising(Merged) /\ faults = {} /\ phase = "calm"
                 THEN {[session |-> Session, records |-> written', block |-> block', healthy |-> Healthy]}
                 ELSE {}
  BY DEF Close, Healthy, Drained
<1>5. Closing
  BY <1>1, <1>2, <1>3, <1>4 DEF Closing
<1>6. CaptureType' /\ GameType' /\ written' \in Seq(Line)
  BY <1>1, RecordedType
<1>7. block' \in Block
  <2>1. block \in Block /\ Healthy \in BOOLEAN
    BY DEF TypeInv, FilesType, Healthy
  <2> QED BY <1>2, <2>1 DEF Block, ClosedBlock
<1>8. receipt' \subseteq Receipt
  <2>1. Session \in Nat /\ Healthy \in BOOLEAN
    BY DEF Session, Healthy
  <2> DEFINE r == [session |-> Session, records |-> written', block |-> block', healthy |-> Healthy]
  <2>2. r \in Receipt
    BY <1>6, <1>7, <2>1 DEF Receipt
  <2> HIDE DEF r
  <2>3. receipt' \in {{r}, {}}
    BY <1>4 DEF r
  <2> QED BY <2>2, <2>3
<1>9. FilesType'
  BY <1>6, <1>7, <1>8 DEF FilesType
<1>10. RunType'
  BY <1>2 DEF TypeInv, RunType
<1> QED BY <1>5, <1>6, <1>9, <1>10 DEF TypeInv

(* Writing the endpoint keeps the types.                                   *)
LEMMA WriteEndingType ==
    ASSUME TypeInv, WriteEnding
    PROVE  TypeInv'
<1>1. UNCHANGED <<probes, game, capture, files, frames, initial, clock>> /\ ending' = version
  BY DEF WriteEnding
<1>2. CaptureType' /\ GameType' /\ FilesType'
  BY <1>1 DEF TypeInv, CaptureType, GameType, FilesType, game, capture, files
<1>3. RunType'
  BY <1>1 DEF TypeInv, RunType, clock
<1> QED BY <1>2, <1>3 DEF TypeInv

(* Every step keeps the types.                                             *)
LEMMA TypeNext == TypeInv /\ [CaptureStep]_vars => TypeInv'
<1> SUFFICES ASSUME TypeInv, [CaptureStep]_vars PROVE TypeInv'
  OBVIOUS
<1>1. ASSUME NEW s \in Slots, NEW play \in BOOLEAN, Enter(s, play) PROVE TypeInv'
  BY <1>1, EnterType
<1>2. ASSUME NEW readable \in BOOLEAN, Leave(readable) PROVE TypeInv'
  BY <1>2, LeaveType
<1>3. ASSUME NEW s \in Slots, NEW stage \in Stages, NEW readable \in BOOLEAN, Store(s, stage, readable)
      PROVE  TypeInv'
  BY <1>3, StoreStep
<1>4. ASSUME NEW s \in Slots, NEW chain \in BOOLEAN, NEW readable \in BOOLEAN, Mark(s, chain, readable)
      PROVE  TypeInv'
  BY <1>4, MarkStep
<1>5. ASSUME NEW s \in Slots, NEW readable \in BOOLEAN, Recycle(s, readable) PROVE TypeInv'
  BY <1>5, RecycleStep
<1>6. CASE CaptureInitial
  BY <1>6, CaptureInitialType
<1>12. ASSUME NEW s \in Slots, NEW stage \in Phases, Turn(s, stage) PROVE TypeInv'
  BY <1>12, TurnStep
<1>7. CASE BeginCall
  BY <1>7, BeginCallStep
<1>8. CASE EndCall
  BY <1>8, EndCallStep
<1>9. CASE WriteEnding
  BY <1>9, WriteEndingType
<1>10. CASE Close
  BY <1>10, CloseStep
<1>11. CASE UNCHANGED vars
  BY <1>11 DEF vars, game, capture, files, run, clock, TypeInv, CaptureType, GameType, FilesType, RunType
<1> QED BY <1>1, <1>2, <1>3, <1>4, <1>5, <1>6, <1>7, <1>8, <1>9, <1>10, <1>11, <1>12 DEF CaptureStep

(* Types: every step of a recorded run keeps its state, its queues, its files *)
(* and its frames what the code stores in them, for any pool, queue and depth. *)
THEOREM Typed == Spec => []TypeInv
<1>1. Init => TypeInv
  BY TypeInit
<1>2. TypeInv /\ [CaptureStep]_vars => TypeInv'
  BY TypeNext
<1> QED BY <1>1, <1>2, PTL DEF Spec
----------------------------------------------------------------------------
(* Whole evidence *)

(* Lines carry their place in the file and the session; nothing due is missing *)
(* while no fault is counted; a receipt is for the records it was closed with. *)
Numbered ==
    \A i \in 1..Len(written) : written[i].fileSeq = i - 1 /\ written[i].session = Session
Accounted ==
    /\ Len(stack) > NestLimit => faults # {}
    /\ Alive /\ faults = {} =>
         due = Len(written) + Len(spawnQueue) + Len(probeQueue) + Len(stack)
Receipted ==
    \A r \in receipt :
        /\ phase = "closed" /\ faults = {}
        /\ r = [session |-> Session, records |-> written, block |-> block, healthy |-> TRUE]
        /\ Len(written) = due
WholeInv == Numbered /\ Accounted /\ Receipted

(* A drain numbers on.                                                     *)
LEMMA NumberedStep ==
    ASSUME TypeInv, Numbered, Recorded
    PROVE  Numbered'
<1> DEFINE recs == Merged
<1>1. recs \in Seq(Event) /\ FilesType /\ written \in Seq(Line)
  BY MergedType DEF TypeInv, FilesType
<1>2. written' = IF Rising(recs) THEN written \o Enveloped(recs) ELSE written
  BY DEF Recorded
<1> HIDE DEF recs
<1>3. /\ Enveloped(recs) \in Seq(Line) /\ Len(Enveloped(recs)) = Len(recs)
      /\ \A i \in 1..Len(recs) :
            Enveloped(recs)[i].fileSeq = Len(written) + i - 1 /\ Enveloped(recs)[i].session = Session
  BY <1>1, EnvelopedType
<1>4. CASE Rising(recs)
  <2> DEFINE more == Enveloped(recs)
  <2>1. written' = written \o more
    BY <1>2, <1>4
  <2>2. more \in Seq(Line) /\ Len(more) = Len(recs)
        /\ \A i \in 1..Len(more) : more[i].fileSeq = Len(written) + i - 1 /\ more[i].session = Session
    BY <1>3
  <2> HIDE DEF more
  <2>3. SUFFICES ASSUME NEW i \in 1..Len(written')
                 PROVE  written'[i].fileSeq = i - 1 /\ written'[i].session = Session
    BY DEF Numbered
  <2>4. Len(written') = Len(written) + Len(more) /\ Len(written) \in Nat /\ Len(more) \in Nat
    <3>1. written \in Seq(Line) /\ more \in Seq(Line)
      BY <1>1, <2>2
    <3> QED BY <2>1, <3>1
  <2>5. CASE i <= Len(written)
    <3>1. written'[i] = written[i] /\ i \in 1..Len(written)
      BY <1>1, <2>1, <2>2, <2>4, <2>5
    <3> QED BY <3>1 DEF Numbered
  <2>6. CASE i > Len(written)
    <3> DEFINE j == i - Len(written)
    <3>1. written'[i] = more[j] /\ j \in 1..Len(more)
      BY <1>1, <2>1, <2>2, <2>4, <2>6
    <3>2. Len(written) + j - 1 = i - 1
      BY <2>4
    <3> HIDE DEF j
    <3> QED BY <2>2, <3>1, <3>2
  <2> QED BY <2>4, <2>5, <2>6
<1>5. CASE ~Rising(recs)
  BY <1>2, <1>5 DEF Numbered
<1> QED BY <1>4, <1>5

(* The account of the records holds at the start.                          *)
LEMMA WholeInit == Init => WholeInv
BY CaptureAssumption DEF Init, WholeInv, Numbered, Accounted, Receipted

(* An entry owes one record more.                                          *)
LEMMA WholeEnter ==
    ASSUME TypeInv, WholeInv, NEW s \in Slots, NEW play \in BOOLEAN, Enter(s, play)
    PROVE  WholeInv'
<1>0. stack \in Seq(Invocation) /\ NestLimit \in Nat /\ due \in Nat /\ faults \subseteq {"spawn", "probe"}
      /\ spawnQueue \in Seq(Event) /\ probeQueue \in Seq(Event) /\ written \in Seq(Line)
  BY CaptureAssumption DEF TypeInv, CaptureType, GameType, FilesType
<1>1. /\ UNCHANGED <<written, spawnQueue, probeQueue, phase, receipt, block>> /\ Alive
      /\ due' = due + 1 /\ phase # "closed"
      /\ faults' = IF Len(stack) < NestLimit THEN faults ELSE faults \cup {"spawn"}
  BY DEF Enter, files, clock, Happen, Room, Alive
<1>2. Len(stack') = Len(stack) + 1 /\ Len(stack) \in Nat
  <2> DEFINE item == [inv |-> IF Len(stack) < NestLimit THEN nextInvocation ELSE 0, depth |-> Len(stack),
                      parent |-> IF stack = <<>> THEN 0 ELSE Last(stack).inv,
                      ver |-> boundary, z |-> Id(s), play |-> play]
  <2>1. stack' = Append(stack, item)
    BY DEF Enter
  <2> HIDE DEF item
  <2> QED BY <1>0, <2>1
<1>3. Numbered' /\ Receipted'
  BY <1>1 DEF WholeInv, Numbered, Receipted
<1>4. Accounted'
  <2>1. CASE Len(stack) < NestLimit
    <3>1. faults' = faults /\ Alive' /\ ~(Len(stack') > NestLimit)
      BY <1>0, <1>1, <1>2, <2>1 DEF Alive
    <3>2. faults = {} => due = Len(written) + Len(spawnQueue) + Len(probeQueue) + Len(stack)
      BY <1>1 DEF WholeInv, Accounted
    <3>3. Len(written) \in Nat /\ Len(spawnQueue) \in Nat /\ Len(probeQueue) \in Nat
      BY <1>0
    <3>4. faults' = {} => due' = Len(written) + Len(spawnQueue) + Len(probeQueue) + Len(stack')
      BY <1>0, <1>1, <1>2, <3>1, <3>2, <3>3
    <3> QED BY <1>1, <3>1, <3>4 DEF Accounted
  <2>2. CASE ~(Len(stack) < NestLimit)
    <3>1. faults' # {}
      BY <1>1, <2>2
    <3> QED BY <3>1 DEF Accounted
  <2> QED BY <2>1, <2>2
<1> QED BY <1>3, <1>4 DEF WholeInv

(* A return captures what was owed, or is a fault.                         *)
LEMMA WholeLeave ==
    ASSUME TypeInv, WholeInv, NEW readable, Leave(readable)
    PROVE  WholeInv'
<1>0. NestLimit \in Nat /\ due \in Nat /\ spawnQueue \in Seq(Event)
      /\ Len(probeQueue) \in Nat /\ Len(written) \in Nat /\ Len(spawnQueue) \in Nat
  BY CaptureAssumption DEF TypeInv, CaptureType, GameType, FilesType
<1>1. /\ UNCHANGED <<written, probeQueue, phase, receipt, block, due>> /\ Alive /\ phase # "closed"
  BY DEF Leave, files, clock, game, Alive
<1>2. /\ faults \subseteq faults'
      /\ Len(stack) \in Nat \ {0} /\ Len(stack') = Len(stack) - 1
      /\ faults' = {} /\ Len(stack) <= NestLimit =>
           spawnQueue' = Append(spawnQueue, InitEvent(Last(stack), nextSequence))
      /\ Last(stack) \in Invocation
  BY LeaveCapture DEF TypeInv
<1>3. Numbered' /\ Receipted'
  BY <1>1 DEF WholeInv, Numbered, Receipted
<1>4. Accounted'
  <2>1. CASE faults' = {}
    <3>1. faults = {} /\ Len(stack) <= NestLimit
      BY <1>0, <1>2, <2>1 DEF WholeInv, Accounted
    <3>2. due = Len(written) + Len(spawnQueue) + Len(probeQueue) + Len(stack)
      BY <1>1, <3>1 DEF WholeInv, Accounted
    <3> DEFINE e == InitEvent(Last(stack), nextSequence)
    <3>3. spawnQueue' = Append(spawnQueue, e)
      BY <1>2, <2>1, <3>1
    <3> HIDE DEF e
    <3>4. Len(spawnQueue') = Len(spawnQueue) + 1
      BY <1>0, <3>3
    <3>5. due' = Len(written') + Len(spawnQueue') + Len(probeQueue') + Len(stack')
      BY <1>0, <1>1, <1>2, <3>2, <3>4
    <3>6. ~(Len(stack') > NestLimit)
      BY <1>0, <1>2, <3>1
    <3> QED BY <3>5, <3>6 DEF Accounted
  <2>2. CASE faults' # {}
    BY <2>2 DEF Accounted
  <2> QED BY <2>1, <2>2
<1> QED BY <1>3, <1>4 DEF WholeInv

(* A store's, a removal's or a recycling's probes, and what they leave alone. *)
Probed(recs) ==
    /\ Alive
    /\ recs \in Seq(Event) /\ Len(recs) \in {1, 2}
    /\ Captured(recs)
    /\ due' = due + (IF probes THEN Len(recs) ELSE 0)
    /\ UNCHANGED <<files, run, clock>>

(* What a store's probe queues. *)
LEMMA StoreProbed ==
    ASSUME TypeInv, NEW s \in Slots, NEW stage \in Stages, NEW readable, Store(s, stage, readable)
    PROVE  Probed(<<StoreEvent(s, stage)>>)
<1> DEFINE recs == <<StoreEvent(s, stage)>>
<1>1. recs \in Seq(Event) /\ Len(recs) = 1
  <2>1. StoreEvent(s, stage) \in Event
    BY SlotEvents
  <2> QED BY <2>1
<1>2. Captured(recs) /\ due' = due + (IF probes THEN 1 ELSE 0) /\ UNCHANGED <<files, run, clock>> /\ Alive
  BY StoreStep DEF Store, Room
<1> HIDE DEF recs
<1>3. due' = due + (IF probes THEN Len(recs) ELSE 0)
  BY <1>1, <1>2
<1>4. Probed(recs)
  BY <1>1, <1>2, <1>3 DEF Probed
<1> QED BY <1>4 DEF recs

(* A removal's. *)
LEMMA MarkProbed ==
    ASSUME TypeInv, NEW s \in Slots, NEW chain \in BOOLEAN, NEW readable, Mark(s, chain, readable)
    PROVE  Probed(<<MarkEvent(s, chain)>>)
<1> DEFINE recs == <<MarkEvent(s, chain)>>
<1>1. recs \in Seq(Event) /\ Len(recs) = 1
  <2>1. MarkEvent(s, chain) \in Event
    BY SlotEvents
  <2> QED BY <2>1
<1>2. Captured(recs) /\ due' = due + (IF probes THEN 1 ELSE 0) /\ UNCHANGED <<files, run, clock>> /\ Alive
  BY MarkStep DEF Mark, Room
<1> HIDE DEF recs
<1>3. due' = due + (IF probes THEN Len(recs) ELSE 0)
  BY <1>1, <1>2
<1>4. Probed(recs)
  BY <1>1, <1>2, <1>3 DEF Probed
<1> QED BY <1>4 DEF recs

(* A recycling's. *)
LEMMA RecycleProbed ==
    ASSUME TypeInv, NEW s \in Slots, NEW readable, Recycle(s, readable)
    PROVE  Probed(<<CandidateEvent(s), CommitOf(s)>>)
<1> DEFINE recs == <<CandidateEvent(s), CommitOf(s)>>
<1>1. recs \in Seq(Event) /\ Len(recs) = 2
  <2>1. CandidateEvent(s) \in Event /\ CommitOf(s) \in Event
    BY SlotEvents
  <2> QED BY <2>1
<1>2. Captured(recs) /\ due' = due + (IF probes THEN 2 ELSE 0) /\ UNCHANGED <<files, run, clock>> /\ Alive
  BY RecycleStep DEF Recycle, Room
<1> HIDE DEF recs
<1>3. due' = due + (IF probes THEN Len(recs) ELSE 0)
  BY <1>1, <1>2
<1>4. Probed(recs)
  BY <1>1, <1>2, <1>3 DEF Probed
<1> QED BY <1>4 DEF recs

(* A probe captures what it owes, or is a fault.                           *)
LEMMA WholeProbe ==
    ASSUME TypeInv, WholeInv, NEW recs, Probed(recs)
    PROVE  WholeInv'
<1> /\ Alive
    /\ recs \in Seq(Event) /\ Len(recs) \in {1, 2}
    /\ Captured(recs)
    /\ due' = due + (IF probes THEN Len(recs) ELSE 0)
    /\ UNCHANGED <<files, run, clock>>
  BY DEF Probed
<1>0. due \in Nat /\ Len(stack) \in Nat /\ probeQueue \in Seq(Event) /\ probes \in BOOLEAN
      /\ Len(probeQueue) \in Nat /\ Len(written) \in Nat /\ Len(spawnQueue) \in Nat /\ Len(recs) \in Nat
  BY DEF TypeInv, CaptureType, GameType, FilesType
<1>1. UNCHANGED <<written, phase, receipt, block, stack, spawnQueue>> /\ faults \subseteq faults' /\ phase # "closed"
  BY DEF files, clock, Captured, Alive
<1>2. Numbered' /\ Receipted'
  BY <1>1 DEF WholeInv, Numbered, Receipted
<1>3. Accounted'
  <2>1. CASE faults' = {}
    <3>1. faults = {} /\ ~(Len(stack) > NestLimit)
      BY <1>1, <2>1 DEF WholeInv, Accounted
    <3>2. due = Len(written) + Len(spawnQueue) + Len(probeQueue) + Len(stack)
      BY <3>1 DEF WholeInv, Accounted
    <3>3. Len(probeQueue') = Len(probeQueue) + (IF probes THEN Len(recs) ELSE 0)
      <4>1. CASE probes
        <5>1. probeQueue' = probeQueue \o recs
          BY <2>1, <4>1 DEF Captured
        <5> QED BY <1>0, <4>1, <5>1
      <4>2. CASE ~probes
        BY <1>0, <4>2 DEF Captured
      <4> QED BY <4>1, <4>2
    <3> DEFINE more == IF probes THEN Len(recs) ELSE 0
    <3>4. more \in Nat /\ due' = due + more /\ Len(probeQueue') = Len(probeQueue) + more
      BY <1>0, <3>3
    <3> HIDE DEF more
    <3>5. due' = Len(written') + Len(spawnQueue') + Len(probeQueue') + Len(stack')
      <4>1. Len(written') = Len(written) /\ Len(spawnQueue') = Len(spawnQueue) /\ Len(stack') = Len(stack)
        BY <1>1
      <4>2. /\ Len(written) \in Nat /\ Len(spawnQueue) \in Nat /\ Len(stack) \in Nat /\ Len(probeQueue) \in Nat
        BY <1>0
      <4> DEFINE w == Len(written)  q == Len(spawnQueue)  r == Len(probeQueue)  t == Len(stack)
      <4>3. due + more = w + q + (r + more) + t
        <5>1. due = w + q + r + t /\ w \in Nat /\ q \in Nat /\ r \in Nat /\ t \in Nat
          BY <3>2, <4>2
        <5> HIDE DEF w, q, r, t
        <5> QED BY <3>4, <5>1
      <4> QED BY <3>4, <4>1, <4>3
    <3> QED BY <1>1, <3>1, <3>5 DEF Accounted
  <2>2. CASE faults' # {}
    BY <2>2 DEF Accounted
  <2> QED BY <2>1, <2>2
<1> QED BY <1>2, <1>3 DEF WholeInv
(* An observation moves records from the queues to the file.               *)
LEMMA WholeObserve ==
    ASSUME TypeInv, WholeInv, Alive, NEW v, NEW b, NEW p, Observed(v, b, p)
    PROVE  WholeInv'
<1>1. Recorded /\ stack = <<>> /\ UNCHANGED <<stack, block, receipt, due, faults>>
  BY DEF Observed, Recorded, game
<1>2. Numbered'
  BY <1>1, NumberedStep DEF WholeInv
<1>3. receipt = {}
  BY DEF WholeInv, Receipted, Alive
<1>4. Receipted'
  BY <1>1, <1>3 DEF Receipted
<1>5. Len(stack) = 0
  BY <1>1
<1>6. ~(Len(stack') > NestLimit)
  BY <1>1, <1>5, CaptureAssumption
<1>7. CASE phase' = "stopped"
  BY <1>2, <1>4, <1>6, <1>7 DEF WholeInv, Accounted, Alive
<1>8. CASE phase' # "stopped"
  <2>1. Rising(Merged) /\ faults = {}
    BY <1>8 DEF Observed
  <2>2. Len(written') = Len(written) + Len(spawnQueue) + Len(probeQueue)
    BY <1>1, <2>1, RecordedType
  <2>3. due = Len(written) + Len(spawnQueue) + Len(probeQueue) + Len(stack)
    BY <2>1 DEF WholeInv, Accounted
  <2>4. due \in Nat /\ Len(written) \in Nat /\ Len(spawnQueue) \in Nat /\ Len(probeQueue) \in Nat
    BY DEF TypeInv, GameType, CaptureType, FilesType
  <2>5. spawnQueue' = <<>> /\ probeQueue' = <<>>
    BY <1>1 DEF Recorded
  <2>6. due' = Len(written') + Len(spawnQueue') + Len(probeQueue') + Len(stack')
    <3>1. Len(spawnQueue') = 0 /\ Len(probeQueue') = 0 /\ Len(stack') = 0 /\ due' = due
      BY <1>1, <1>5, <2>5
    <3>2. due = Len(written')
      BY <1>5, <2>2, <2>3, <2>4
    <3> QED BY <2>4, <3>1, <3>2
  <2> QED BY <1>2, <1>4, <1>6, <2>6 DEF WholeInv, Accounted
<1> QED BY <1>7, <1>8

(* The shutdown does too, and gives a receipt only without a fault.        *)
LEMMA WholeClose ==
    ASSUME TypeInv, WholeInv, Closing
    PROVE  WholeInv'
<1>1. Recorded /\ stack = <<>> /\ UNCHANGED <<stack, due, faults>> /\ phase' = "closed"
  BY DEF Closing, Recorded, game
<1>2. Numbered'
  BY <1>1, NumberedStep DEF WholeInv
<1>3. Len(stack) = 0
  BY <1>1
<1>4. Accounted'
  <2>1. ~(Len(stack') > NestLimit) /\ ~Alive'
    BY <1>1, <1>3, CaptureAssumption DEF Alive
  <2> QED BY <2>1 DEF Accounted
<1>5. Receipted'
  <2>1. SUFFICES ASSUME receipt' # {} PROVE Receipted'
    BY DEF Receipted
  <2>2. /\ Rising(Merged) /\ faults = {} /\ phase = "calm"
        /\ receipt' = {[session |-> Session, records |-> written', block |-> block', healthy |-> Healthy]}
    BY <2>1 DEF Closing
  <2>3. Healthy = TRUE
    BY <2>2 DEF Healthy
  <2>4. due = Len(written) + Len(spawnQueue) + Len(probeQueue) + Len(stack)
    BY <2>2 DEF WholeInv, Accounted, Alive
  <2>5. Len(written') = Len(written) + Len(spawnQueue) + Len(probeQueue)
    BY <1>1, <2>2, RecordedType
  <2>6. due \in Nat /\ Len(written) \in Nat /\ Len(spawnQueue) \in Nat /\ Len(probeQueue) \in Nat
    BY DEF TypeInv, GameType, CaptureType, FilesType
  <2>7. Len(written') = due'
    BY <1>1, <1>3, <2>4, <2>5, <2>6
  <2> QED BY <1>1, <2>2, <2>3, <2>7 DEF Receipted
<1> QED BY <1>2, <1>4, <1>5 DEF WholeInv

(* Every step keeps the account.                                           *)
LEMMA WholeNext == TypeInv /\ WholeInv /\ [CaptureStep]_vars => WholeInv'
<1> SUFFICES ASSUME TypeInv, WholeInv, [CaptureStep]_vars PROVE WholeInv'
  OBVIOUS
<1>1. ASSUME NEW s \in Slots, NEW play \in BOOLEAN, Enter(s, play) PROVE WholeInv'
  BY <1>1, WholeEnter
<1>2. ASSUME NEW readable \in BOOLEAN, Leave(readable) PROVE WholeInv'
  BY <1>2, WholeLeave
<1>3. ASSUME NEW s \in Slots, NEW stage \in Stages, NEW readable \in BOOLEAN, Store(s, stage, readable)
      PROVE  WholeInv'
  BY <1>3, StoreProbed, WholeProbe
<1>4. ASSUME NEW s \in Slots, NEW chain \in BOOLEAN, NEW readable \in BOOLEAN, Mark(s, chain, readable)
      PROVE  WholeInv'
  BY <1>4, MarkProbed, WholeProbe
<1>5. ASSUME NEW s \in Slots, NEW readable \in BOOLEAN, Recycle(s, readable) PROVE WholeInv'
  BY <1>5, RecycleProbed, WholeProbe
<1>6. CASE CaptureInitial
  BY <1>6 DEF CaptureInitial, game, capture, files, clock, WholeInv, Numbered, Accounted, Receipted, Alive
<1>12. ASSUME NEW s \in Slots, NEW stage \in Phases, Turn(s, stage) PROVE WholeInv'
  BY <1>12, TurnStep DEF capture, files, clock, WholeInv, Numbered, Accounted, Receipted, Alive
<1>7. CASE BeginCall
  BY <1>7, BeginCallStep, WholeObserve DEF Alive
<1>8. CASE EndCall
  BY <1>8, EndCallStep, WholeObserve DEF Alive
<1>9. CASE WriteEnding
  BY <1>9 DEF WriteEnding, game, capture, files, clock, WholeInv, Numbered, Accounted, Receipted, Alive
<1>10. CASE Close
  BY <1>10, CloseStep, WholeClose
<1>11. CASE UNCHANGED vars
  BY <1>11 DEF vars, game, capture, files, clock, WholeInv, Numbered, Accounted, Receipted, Alive
<1> QED BY <1>1, <1>2, <1>3, <1>4, <1>5, <1>6, <1>7, <1>8, <1>9, <1>10, <1>11, <1>12 DEF CaptureStep

(* Members of joined sequences. *)
LEMMA Joined ==
    ASSUME NEW S, NEW a \in Seq(S), NEW b \in Seq(S)
    PROVE  /\ a \o b \in Seq(S) /\ Len(a \o b) = Len(a) + Len(b)
           /\ \A i \in 1..Len(a) : (a \o b)[i] = a[i]
           /\ \A i \in 1..Len(b) : (a \o b)[Len(a) + i] = b[i]
           /\ \A i \in 1..Len(a \o b) :
                 \/ i \in 1..Len(a) /\ (a \o b)[i] = a[i]
                 \/ i - Len(a) \in 1..Len(b) /\ (a \o b)[i] = b[i - Len(a)]
<1>1. Len(a) \in Nat /\ Len(b) \in Nat
  OBVIOUS
<1>2. a \o b \in Seq(S) /\ Len(a \o b) = Len(a) + Len(b)
      /\ \A i \in 1..Len(a) + Len(b) : (a \o b)[i] = IF i <= Len(a) THEN a[i] ELSE b[i - Len(a)]
  BY ConcatProperties
<1> DEFINE c == a \o b  n == Len(a)  m == Len(b)
<1> HIDE DEF c, n, m
<1>3. /\ n \in Nat /\ m \in Nat /\ Len(c) = n + m
      /\ \A i \in 1..n + m : c[i] = IF i <= n THEN a[i] ELSE b[i - n]
  BY <1>1, <1>2 DEF c, n, m
<1>4. \A i \in 1..n : c[i] = a[i]
  BY <1>3
<1>5. ASSUME NEW i \in 1..m PROVE c[n + i] = b[i]
  <2>1. n + i \in 1..n + m /\ ~(n + i <= n) /\ (n + i) - n = i
    BY <1>3
  <2> QED BY <1>3, <2>1
<1>6. ASSUME NEW i \in 1..Len(c)
      PROVE  \/ i \in 1..n /\ c[i] = a[i]
             \/ i - n \in 1..m /\ c[i] = b[i - n]
  BY <1>3
<1> QED BY <1>2, <1>4, <1>5, <1>6 DEF c, n, m

(* Each member of q is one of p's. *)
From(q, p) == \A j \in 1..Len(q) : \E k \in 1..Len(p) : q[j] = p[k]

(* Two parts of a sequence joined.                                         *)
LEMMA JoinedFrom ==
    ASSUME NEW S, NEW a \in Seq(S), NEW b \in Seq(S), NEW p, From(a, p), From(b, p)
    PROVE  a \o b \in Seq(S) /\ From(a \o b, p)
<1> DEFINE c == a \o b
<1>1. c \in Seq(S) /\ \A i \in 1..Len(c) : \/ i \in 1..Len(a) /\ c[i] = a[i]
                                           \/ i - Len(a) \in 1..Len(b) /\ c[i] = b[i - Len(a)]
  BY Joined
<1> HIDE DEF c
<1>2. From(c, p)
  <2>1. ASSUME NEW i \in 1..Len(c) PROVE \E k \in 1..Len(p) : c[i] = p[k]
    <3>1. CASE i \in 1..Len(a) /\ c[i] = a[i]
      BY <3>1 DEF From
    <3>2. CASE i - Len(a) \in 1..Len(b) /\ c[i] = b[i - Len(a)]
      BY <3>2 DEF From
    <3> QED BY <1>1, <3>1, <3>2
  <2> QED BY <2>1 DEF From
<1> QED BY <1>1, <1>2 DEF c

(* A part of a sequence.                                                   *)
LEMMA PartFrom ==
    ASSUME NEW S, NEW p \in Seq(S), NEW m \in Nat \ {0}, NEW n \in Nat, n <= Len(p)
    PROVE  SubSeq(p, m, n) \in Seq(S) /\ From(SubSeq(p, m, n), p)
<1> DEFINE q == SubSeq(p, m, n)
<1>1. q \in Seq(S) /\ Len(q) = (IF m <= n THEN n - m + 1 ELSE 0) /\ Len(p) \in Nat
      /\ \A i \in 1..Len(q) : q[i] = p[m + i - 1]
  OBVIOUS
<1> HIDE DEF q
<1>2. ASSUME NEW i \in 1..Len(q) PROVE \E k \in 1..Len(p) : q[i] = p[k]
  <2>1. m + i - 1 \in 1..Len(p) /\ q[i] = p[m + i - 1]
    BY <1>1
  <2> QED BY <2>1
<1>3. From(q, p)
  BY <1>2 DEF From
<1> QED BY <1>1, <1>3 DEF q

(* Every line of a harmed stream is a line of the stream or of another session. *)
LEMMA HarmedLines ==
    ASSUME NEW lines \in Seq(Line), NEW i \in Nat, NEW harm,
           \/ harm = "none"
           \/ harm \in {"lost", "doubled", "swapped", "alien"} /\ i \in 1..Len(lines)
    PROVE  /\ Harmed(lines, harm, i) \in Seq(Line)
           /\ \A j \in 1..Len(Harmed(lines, harm, i)) :
                 \/ Harmed(lines, harm, i)[j].session = Session + 1
                 \/ \E k \in 1..Len(lines) : Harmed(lines, harm, i)[j] = lines[k]
<1>1. CASE harm = "none"
  BY <1>1 DEF Harmed
<1>2. CASE harm = "lost" /\ i \in 1..Len(lines)
  <2> DEFINE a == SubSeq(lines, 1, i - 1)
             b == SubSeq(lines, i + 1, Len(lines))
  <2>1. Harmed(lines, harm, i) = a \o b
    BY <1>2 DEF Harmed
  <2>2. /\ i - 1 \in Nat /\ i + 1 \in Nat \ {0} /\ Len(lines) \in Nat
        /\ i - 1 <= Len(lines) /\ Len(lines) <= Len(lines) /\ 1 \in Nat \ {0}
    BY <1>2
  <2>3. a \in Seq(Line) /\ From(a, lines) /\ b \in Seq(Line) /\ From(b, lines)
    BY <2>2, PartFrom
  <2> HIDE DEF a, b
  <2>4. a \o b \in Seq(Line) /\ From(a \o b, lines)
    BY <2>3, JoinedFrom
  <2> QED BY <2>1, <2>4 DEF From
<1>3. CASE harm = "doubled" /\ i \in 1..Len(lines)
  <2> DEFINE a == SubSeq(lines, 1, i)
             b == SubSeq(lines, i, Len(lines))
  <2>1. Harmed(lines, harm, i) = a \o b
    BY <1>3 DEF Harmed
  <2>2. /\ i \in Nat \ {0} /\ Len(lines) \in Nat
        /\ i <= Len(lines) /\ Len(lines) <= Len(lines) /\ 1 \in Nat \ {0}
    BY <1>3
  <2>3. a \in Seq(Line) /\ From(a, lines) /\ b \in Seq(Line) /\ From(b, lines)
    BY <2>2, PartFrom
  <2> HIDE DEF a, b
  <2>4. a \o b \in Seq(Line) /\ From(a \o b, lines)
    BY <2>3, JoinedFrom
  <2> QED BY <2>1, <2>4 DEF From
<1>4. CASE harm = "swapped" /\ i = Len(lines)
  BY <1>4 DEF Harmed
<1>5. CASE harm = "swapped" /\ i \in 1..Len(lines) /\ i # Len(lines)
  <2> DEFINE a == SubSeq(lines, 1, i - 1)
             b == <<lines[i + 1], lines[i]>>
             c == SubSeq(lines, i + 2, Len(lines))
             d == a \o b
  <2>1. Harmed(lines, harm, i) = d \o c
    BY <1>5 DEF Harmed
  <2>2. /\ i - 1 \in Nat /\ i + 2 \in Nat \ {0} /\ Len(lines) \in Nat
        /\ i - 1 <= Len(lines) /\ Len(lines) <= Len(lines) /\ 1 \in Nat \ {0}
    BY <1>5
  <2>3. a \in Seq(Line) /\ From(a, lines) /\ c \in Seq(Line) /\ From(c, lines)
    BY <2>2, PartFrom
  <2>4. b \in Seq(Line) /\ From(b, lines)
    <3>1. i + 1 \in 1..Len(lines) /\ i \in 1..Len(lines)
      BY <1>5
    <3>2. lines[i + 1] \in Line /\ lines[i] \in Line
      BY <3>1
    <3>3. b \in Seq(Line) /\ Len(b) = 2 /\ b[1] = lines[i + 1] /\ b[2] = lines[i]
      BY <3>2
    <3> HIDE DEF b
    <3>4. \A j \in 1..Len(b) : j = 1 \/ j = 2
      BY <3>3
    <3> QED BY <3>1, <3>3, <3>4 DEF From
  <2> HIDE DEF a, b, c
  <2>5. d \in Seq(Line) /\ From(d, lines)
    BY <2>3, <2>4, JoinedFrom
  <2> HIDE DEF d
  <2>6. d \o c \in Seq(Line) /\ From(d \o c, lines)
    BY <2>3, <2>5, JoinedFrom
  <2> QED BY <2>1, <2>6 DEF From
<1>6. CASE harm = "alien" /\ i \in 1..Len(lines)
  <2> DEFINE alien == [lines[i] EXCEPT !.session = Session + 1]
             q == [lines EXCEPT ![i] = alien]
  <2>1. Harmed(lines, harm, i) = q
    BY <1>6 DEF Harmed
  <2>2. alien \in Line /\ alien.session = Session + 1
    <3>1. lines[i] \in Line /\ Session + 1 \in Nat
      BY <1>6 DEF Session
    <3> QED BY <3>1 DEF Line
  <2> HIDE DEF alien
  <2>3. q \in Seq(Line) /\ Len(q) = Len(lines)
        /\ \A j \in 1..Len(lines) : q[j] = IF j = i THEN alien ELSE lines[j]
    BY <1>6, <2>2
  <2> HIDE DEF q
  <2> QED BY <2>1, <2>2, <2>3
<1> QED BY <1>1, <1>2, <1>3, <1>4, <1>5, <1>6

(* What a reader has checked when it does not refuse.                      *)
LEMMA Verdicts ==
    ASSUME NEW read, NEW close \in BOOLEAN
    PROVE  /\ Validate(View(read, FALSE), close) \in {"open", "valid"} =>
                 /\ EnvelopesFit(read, Session)
                 /\ ReceiptFits(View(read, FALSE))
           /\ Validate(View(read, FALSE), close) = "valid" => receipt # {}
<1> DEFINE v == View(read, FALSE)
<1>1. v.declared /\ v.enabled /\ v.session = Session /\ v.records = read /\ v.receipt = receipt
  BY DEF View
<1> HIDE DEF v
<1>2. MaybeMode(v) = "enabled"
  BY <1>1 DEF MaybeMode
<1>3. Validate(v, close) = ReadValidation(v, close)
  BY <1>2 DEF Validate
<1>4. ReadValidation(v, close) \in {"open", "valid"} => EnvelopesFit(read, Session) /\ ReceiptFits(v)
  BY <1>1 DEF ReadValidation
<1>5. ReadValidation(v, close) = "valid" => receipt # {}
  BY <1>1 DEF ReadValidation
<1> QED BY <1>3, <1>4, <1>5 DEF v

(* The lines a reader accepts are the first ones that were written. *)
LEMMA AcceptedPrefix ==
    ASSUME TypeInv, Numbered, NEW read \in Seq(Line), EnvelopesFit(read, Session), NEW n \in 0..Len(written),
           \A j \in 1..Len(read) : read[j].session = Session + 1 \/ \E k \in 1..n : read[j] = written[k]
    PROVE  IsPrefix(read, written)
<1>1. ASSUME NEW j \in 1..Len(read) PROVE j \in 1..Len(written) /\ read[j] = written[j]
  <2>1. read[j].fileSeq = j - 1 /\ read[j].session = Session
    BY DEF EnvelopesFit
  <2>2. PICK k \in 1..n : read[j] = written[k]
    BY <2>1 DEF Session
  <2>3. k \in 1..Len(written) /\ written[k].fileSeq = k - 1
    BY DEF Numbered, TypeInv, FilesType
  <2>4. k = j
    BY <2>1, <2>2, <2>3
  <2> QED BY <2>2, <2>3, <2>4
<1>2. written \in Seq(Line) /\ Len(read) \in Nat /\ Len(written) \in Nat
  BY DEF TypeInv, FilesType
<1>3. Len(read) <= Len(written)
  <2>1. CASE Len(read) = 0
    BY <1>2, <2>1
  <2>2. CASE Len(read) > 0
    <3>1. Len(read) \in 1..Len(read)
      BY <1>2, <2>2
    <3> QED BY <1>1, <1>2, <3>1
  <2> QED BY <1>2, <2>1, <2>2
<1>4. SubSeq(read, 1, Len(read)) = SubSeq(written, 1, Len(read))
  <2>1. SubSeq(read, 1, Len(read)) = [j \in 1..Len(read) |-> read[j]]
    BY <1>2
  <2>2. SubSeq(written, 1, Len(read)) = [j \in 1..Len(read) |-> written[j]]
    BY <1>2, <1>3
  <2> QED BY <1>1, <2>1, <2>2
<1> QED BY <1>3, <1>4 DEF IsPrefix

(* The account is what makes a verdict true.                               *)
LEMMA WholeHolds == TypeInv /\ WholeInv => EvidenceWhole
<1> SUFFICES ASSUME TypeInv, WholeInv,
                    NEW lines \in Seen, NEW harm \in {"none", "lost", "doubled", "swapped", "alien"},
                    NEW i \in IF harm = "none" THEN {1} ELSE 1..Len(lines)
             PROVE  LET read == Harmed(lines, harm, i)
                        status == Validate(View(read, FALSE), FALSE)
                    IN  /\ status = "open" => IsPrefix(read, written)
                        /\ status = "valid" => read = written /\ Len(written) = due
  BY DEF EvidenceWhole
<1> DEFINE read == Harmed(lines, harm, i)
           status == Validate(View(read, FALSE), FALSE)
<1>1. PICK n \in 0..Len(written) : /\ lines \in Seq(Line) /\ Len(lines) = n
                                   /\ \A k \in 1..n : lines[k] = written[k]
  <2>1. written \in Seq(Line) /\ Len(written) \in Nat
    BY DEF TypeInv, FilesType
  <2>2. CASE receipt # {}
    BY <2>1, <2>2 DEF Seen
  <2>3. CASE receipt = {}
    <3>1. PICK n \in 0..Len(written) : lines = SubSeq(written, 1, n)
      BY <2>3 DEF Seen
    <3> QED BY <2>1, <3>1, PrefixOf
  <2> QED BY <2>2, <2>3
<1>2. /\ i \in Nat
      /\ \/ harm = "none"
         \/ harm \in {"lost", "doubled", "swapped", "alien"} /\ i \in 1..Len(lines)
  <2>1. Len(lines) \in Nat
    BY <1>1
  <2>2. CASE harm = "none"
    <3>1. i \in {1}
      BY <2>2
    <3> QED BY <2>2, <3>1
  <2>3. CASE harm # "none"
    <3>1. i \in 1..Len(lines)
      BY <2>3
    <3> QED BY <2>1, <2>3, <3>1
  <2> QED BY <2>2, <2>3
<1>3. /\ read \in Seq(Line)
      /\ \A j \in 1..Len(read) : read[j].session = Session + 1 \/ \E k \in 1..Len(lines) : read[j] = lines[k]
  BY <1>1, <1>2, HarmedLines
<1> HIDE DEF read
<1>4. \A j \in 1..Len(read) : read[j].session = Session + 1 \/ \E k \in 1..n : read[j] = written[k]
  BY <1>1, <1>3
<1>5. status = "open" => IsPrefix(read, written)
  <2>1. SUFFICES ASSUME status = "open" PROVE IsPrefix(read, written)
    OBVIOUS
  <2>2. EnvelopesFit(read, Session)
    BY <2>1, Verdicts
  <2> QED BY <1>3, <1>4, <2>2, AcceptedPrefix DEF WholeInv
<1>6. status = "valid" => read = written /\ Len(written) = due
  <2>1. SUFFICES ASSUME status = "valid" PROVE read = written /\ Len(written) = due
    OBVIOUS
  <2>2. receipt # {} /\ ReceiptFits(View(read, FALSE))
    BY <2>1, Verdicts
  <2>3. PICK r \in receipt : TRUE
    BY <2>2
  <2>4. r.records = View(read, FALSE).records
    BY <2>2, <2>3 DEF ReceiptFits, ProbeReceiptBinds, ReceiptBinds, View
  <2>5. r.records = read
    BY <2>4 DEF View
  <2>6. r.records = written /\ Len(written) = due
    BY <2>3 DEF WholeInv, Receipted
  <2> QED BY <2>5, <2>6
<1> QED BY <1>5, <1>6 DEF read

(* Whole evidence: whatever one line of the stream suffers, the validator calls *)
(* it open only when what is read is a prefix of what was recorded, and valid   *)
(* only when it is every record of every hooked store and birth.                *)
THEOREM Whole == Spec => []EvidenceWhole
<1>1. Init => TypeInv /\ WholeInv
  BY TypeInit, WholeInit
<1>2. TypeInv /\ WholeInv /\ [CaptureStep]_vars => (TypeInv /\ WholeInv)'
  BY TypeNext, WholeNext
<1>3. TypeInv /\ WholeInv => EvidenceWhole
  BY WholeHolds
<1> QED BY <1>1, <1>2, <1>3, PTL DEF Spec
----------------------------------------------------------------------------
(* What time does to the pool *)

(* Zombie q of a slot is what zombie p of it may become. *)
Later(p, q) ==
    /\ p.gen <= q.gen
    /\ p.gen = q.gen /\ p.used =>
         /\ q.used /\ q.play = p.play
         /\ p.stage \in Death => q.stage \in Death
         /\ p.gone => q.gone
Follows(p, q) == \A s \in Slots : Later(p[s], q[s])

(* Later is an order.                                                      *)
LEMMA LaterOrder ==
    ASSUME NEW p \in Creature, NEW q \in Creature, NEW r \in Creature
    PROVE  Later(p, p) /\ (Later(p, q) /\ Later(q, r) => Later(p, r))
<1>1. p.gen \in Nat /\ q.gen \in Nat /\ r.gen \in Nat
  BY DEF Creature
<1> QED BY <1>1 DEF Later

(* So is the order of pools.                                               *)
LEMMA FollowsOrder ==
    ASSUME NEW p \in Pool, NEW q \in Pool, NEW r \in Pool
    PROVE  Follows(p, p) /\ (Follows(p, q) /\ Follows(q, r) => Follows(p, r))
<1>1. \A s \in Slots : p[s] \in Creature /\ q[s] \in Creature /\ r[s] \in Creature
  BY DEF Pool
<1> QED BY <1>1, LaterOrder DEF Follows

(* What a happening does to its slot: a birth, a turn, a blow or a recycling. *)
Birth(s) ==
    /\ ~pool[s].used /\ pool'[s].used
    /\ pool'[s].gen = pool[s].gen /\ pool'[s].stage = pool[s].stage /\ pool'[s].gone = pool[s].gone
    /\ truth' = truth
Blow(s) ==
    /\ pool[s].used /\ ~pool[s].gone
    /\ pool'[s].used /\ pool'[s].gen = pool[s].gen /\ pool'[s].play = pool[s].play
    /\ \/ /\ pool'[s].stage \in Death /\ ~pool'[s].gone
          /\ TruthStep(s, TRUE)
       \/ /\ pool'[s].gone /\ pool'[s].stage = pool[s].stage
          /\ \E kill \in BOOLEAN : TruthStep(s, kill)
Turning(s) ==
    /\ pool[s].used /\ ~pool[s].gone /\ pool[s].stage \notin Death
    /\ pool'[s].used /\ pool'[s].gen = pool[s].gen /\ pool'[s].play = pool[s].play
    /\ pool'[s].stage \notin Death /\ ~pool'[s].gone
    /\ truth' = truth
Recycling(s) ==
    /\ pool[s].used /\ pool[s].gone
    /\ ~pool'[s].used /\ ~pool'[s].gone /\ pool'[s].stage = 0 /\ pool'[s].gen = pool[s].gen + 1
    /\ truth' = truth
SlotStep(s) == Elsewhere(s) /\ (Birth(s) \/ Turning(s) \/ Blow(s) \/ Recycling(s))

(* Every step is a happening in one slot, an audited observation, or leaves *)
(* the game, its history and the frames alone.                              *)
Framed ==
    /\ \E v \in Nat \ {0} : frames' = Append(frames, [ver |-> v, pool |-> pool])
    /\ pool' = pool /\ truth' = truth
Moving == \E s \in Slots : SlotStep(s) /\ frames' = frames
Idle == UNCHANGED <<pool, truth, frames>>

(* An observation adds a frame, or nothing.                                *)
LEMMA ObservedFrame ==
    ASSUME NEW v \in Nat \ {0}, NEW b, NEW p, Observed(v, b, p)
    PROVE  Framed \/ Idle
<1>1. pool' = pool /\ truth' = truth
  BY DEF Observed, Recorded, game
<1>2. frames' = Append(frames, [ver |-> v, pool |-> pool]) \/ frames' = frames
  BY DEF Observed
<1> QED BY <1>1, <1>2 DEF Framed, Idle

(* Every step adds a frame, moves one slot, or does nothing to either.     *)
LEMMA StepKinds ==
    ASSUME TypeInv, [CaptureStep]_vars
    PROVE  Framed \/ Moving \/ Idle
<1>1. ASSUME NEW s \in Slots, NEW play \in BOOLEAN, Enter(s, play) PROVE Moving
  <2>1. truth' = truth /\ frames' = frames
    BY <1>1 DEF Enter, run
  <2>2. SlotStep(s)
    BY <1>1, <2>1, EnterPool DEF TypeInv, SlotStep, Birth
  <2> QED BY <2>1, <2>2 DEF Moving
<1>2. ASSUME NEW readable \in BOOLEAN, Leave(readable) PROVE Idle
  BY <1>2 DEF Leave, Idle, game, run
<1>3. ASSUME NEW s \in Slots, NEW stage \in Stages, NEW readable \in BOOLEAN, Store(s, stage, readable)
      PROVE  Moving
  <2>1. TruthStep(s, TRUE) /\ frames' = frames
    BY <1>3, StoreStep DEF run
  <2>2. stage \in Death
    BY CaptureAssumption DEF Death
  <2>3. SlotStep(s)
    BY <1>3, <2>1, <2>2, StorePool DEF TypeInv, SlotStep, Blow
  <2> QED BY <2>1, <2>3 DEF Moving
<1>4. ASSUME NEW s \in Slots, NEW chain \in BOOLEAN, NEW readable \in BOOLEAN, Mark(s, chain, readable)
      PROVE  Moving
  <2>1. TruthStep(s, chain) /\ frames' = frames
    BY <1>4, MarkStep DEF run
  <2>2. SlotStep(s)
    BY <1>4, <2>1, MarkPool DEF TypeInv, SlotStep, Blow
  <2> QED BY <2>1, <2>2 DEF Moving
<1>5. ASSUME NEW s \in Slots, NEW readable \in BOOLEAN, Recycle(s, readable) PROVE Moving
  <2>1. truth' = truth /\ frames' = frames
    BY <1>5, RecycleStep DEF run
  <2>2. SlotStep(s)
    BY <1>5, <2>1, RecyclePool DEF TypeInv, SlotStep, Recycling
  <2> QED BY <2>1, <2>2 DEF Moving
<1>0. version \in Nat \ {0} /\ version + 1 \in Nat \ {0}
  BY DEF TypeInv, RunType
<1>6. CASE CaptureInitial
  BY <1>6 DEF CaptureInitial, game, Idle
<1>12. ASSUME NEW s \in Slots, NEW stage \in Phases, Turn(s, stage) PROVE Moving
  <2>1. truth' = truth /\ frames' = frames
    BY <1>12, TurnStep DEF run
  <2>2. SlotStep(s)
    BY <1>12, <2>1, TurnPool DEF TypeInv, SlotStep, Turning
  <2> QED BY <2>1, <2>2 DEF Moving
<1>7. CASE BeginCall
  BY <1>0, <1>7, BeginCallStep, ObservedFrame
<1>8. CASE EndCall
  BY <1>0, <1>8, EndCallStep, ObservedFrame
<1>9. CASE WriteEnding
  BY <1>9 DEF WriteEnding, game, Idle
<1>10. CASE Close
  BY <1>10 DEF Close, game, run, Idle
<1>11. CASE UNCHANGED vars
  BY <1>11 DEF vars, game, run, Idle
<1> QED BY <1>1, <1>2, <1>3, <1>4, <1>5, <1>6, <1>7, <1>8, <1>9, <1>10, <1>11, <1>12 DEF CaptureStep

(* A step of a slot goes on in the order of pools.                         *)
LEMMA SlotStepFollows ==
    ASSUME GameType, NEW s \in Slots, SlotStep(s)
    PROVE  pool \in Pool /\ pool' \in Pool /\ Follows(pool, pool')
<1>1. pool \in Pool /\ pool' \in Pool
  BY DEF GameType, SlotStep, Elsewhere
<1>2. \A t \in Slots : pool[t] \in Creature /\ pool'[t] \in Creature
  BY <1>1 DEF Pool
<1>3. ASSUME NEW t \in Slots, t # s PROVE Later(pool[t], pool'[t])
  BY <1>2, <1>3, LaterOrder DEF SlotStep, Elsewhere
<1>4. Later(pool[s], pool'[s])
  <2>1. pool[s].gen \in Nat /\ pool'[s].gen \in Nat
    BY <1>2 DEF Creature
  <2>2. CASE Birth(s)
    BY <2>1, <2>2 DEF Birth, Later
  <2>3. CASE Blow(s)
    <3>1. /\ ~pool[s].gone /\ pool'[s].used /\ pool'[s].gen = pool[s].gen /\ pool'[s].play = pool[s].play
          /\ pool'[s].stage \in Death \/ pool'[s].stage = pool[s].stage
      BY <2>3 DEF Blow
    <3> QED BY <2>1, <3>1 DEF Later
  <2>4. CASE Recycling(s)
    BY <2>1, <2>4 DEF Recycling, Later
  <2>5. CASE Turning(s)
    BY <2>1, <2>5 DEF Turning, Later
  <2> QED BY <2>2, <2>3, <2>4, <2>5 DEF SlotStep
<1> QED BY <1>1, <1>3, <1>4 DEF Follows
----------------------------------------------------------------------------
(* What the boundaries saw *)

(* The pool at boundary j, the game's own after the last one. *)
Reached(j) == IF j <= Len(frames) THEN frames[j].pool ELSE pool

(* Each boundary's pool follows the ones before it. *)
InTime ==
    \A i \in 1..Len(frames) : \A j \in i..(Len(frames) + 1) : Follows(Reached(i), Reached(j))

(* A zombie that is dying at a boundary, and was not at the one before, died *)
(* of a kill between them.                                                   *)
Died(p, q) == p.gen = q.gen /\ p.used /\ p.stage \notin Death /\ ~p.gone /\ q.stage \in Death
KilledAt(loss, s, p, at) ==
    loss.kill /\ loss.z = <<s, p.gen>> /\ loss.play = p.play /\ loss.at = at
DeathsTold ==
    \A j \in 1..Len(frames), k \in 2..(Len(frames) + 1), s \in Slots :
        k = j + 1 /\ Died(Reached(j)[s], Reached(k)[s])
            => \E i \in 1..Len(truth) : KilledAt(truth[i], s, Reached(j)[s], j)

(* A loss happened to a zombie that the boundary before it saw, if at all, alive, *)
(* and the boundary after it sees, if at all, dying or gone.                      *)
AliveFor(p, loss) ==
    /\ p.gen <= loss.z[2]
    /\ p.gen = loss.z[2] /\ p.used => p.stage \notin Death /\ ~p.gone /\ p.play = loss.play
LostFor(q, loss) ==
    /\ q.gen >= loss.z[2]
    /\ q.gen = loss.z[2] => q.used /\ (q.stage \in Death \/ q.gone)
LossesTrue ==
    \A i \in 1..Len(truth) :
        /\ truth[i].at <= Len(frames)
        /\ \A j \in 1..(Len(frames) + 1) :
             /\ j = truth[i].at => AliveFor(Reached(j)[truth[i].z[1]], truth[i])
             /\ j = truth[i].at + 1 => LostFor(Reached(j)[truth[i].z[1]], truth[i])

HistoryInv == InTime /\ DeathsTold /\ LossesTrue

(* The boundaries reached are typed.                                       *)
LEMMA ReachedType ==
    ASSUME GameType, RunType
    PROVE  /\ Len(frames) \in Nat
           /\ \A j \in 1..(Len(frames) + 1) : Reached(j) \in Pool
           /\ \A j \in 1..Len(frames) : Reached(j) = frames[j].pool
           /\ Reached(Len(frames) + 1) = pool
<1>1. Len(frames) \in Nat /\ frames \in Seq(Frame) /\ pool \in Pool
  BY DEF RunType, GameType
<1>2. ASSUME NEW j \in 1..Len(frames) PROVE frames[j].pool \in Pool
  <2>1. frames[j] \in Frame
    BY <1>1
  <2> QED BY <2>1 DEF Frame
<1> QED BY <1>1, <1>2 DEF Reached

(* A loss and its fields.                                                  *)
LEMMA LossParts ==
    ASSUME GameType, NEW i \in 1..Len(truth)
    PROVE  /\ truth[i] \in Loss
           /\ truth[i].z \in Zombies /\ truth[i].z[1] \in Slots /\ truth[i].z[2] \in Nat \ {0}
           /\ truth[i].at \in Nat /\ truth[i].seq \in Nat /\ truth[i].play \in BOOLEAN /\ truth[i].kill \in BOOLEAN
<1>1. truth[i] \in Loss
  BY DEF GameType
<1>2. truth[i].z \in Zombies
  BY <1>1 DEF Loss
<1> QED BY <1>1, <1>2 DEF Loss, Zombies

(* A new boundary sees the game as it is. *)
LEMMA FramedReached ==
    ASSUME TypeInv, Framed
    PROVE  /\ Len(frames') = Len(frames) + 1
           /\ \A j \in 1..(Len(frames) + 1) : Reached(j)' = Reached(j)
           /\ \A j : j = Len(frames) + 2 => Reached(j)' = pool
           /\ pool' = pool
<1>1. PICK v \in Nat \ {0} : frames' = Append(frames, [ver |-> v, pool |-> pool])
  BY DEF Framed
<1> DEFINE f == [ver |-> v, pool |-> pool]
<1>2. frames \in Seq(Frame) /\ Len(frames) \in Nat /\ f.pool = pool
  BY DEF TypeInv, RunType
<1>3. f \in Frame
  BY DEF TypeInv, GameType, Frame
<1> HIDE DEF f
<1>4. /\ Len(frames') = Len(frames) + 1
      /\ \A j \in 1..Len(frames) : frames'[j] = frames[j]
      /\ frames'[Len(frames) + 1] = f
  BY <1>1, <1>2, <1>3 DEF f
<1>5. pool' = pool
  BY DEF Framed
<1> DEFINE n == Len(frames)
<1>6. ASSUME NEW j \in 1..(n + 1) PROVE Reached(j)' = Reached(j)
  BY <1>2, <1>4, <1>5 DEF Reached
<1>7. \A j : j = n + 2 => Reached(j)' = pool
  BY <1>2, <1>4, <1>5 DEF Reached
<1> QED BY <1>4, <1>5, <1>6, <1>7

(* A step of a slot changes the last boundary only.                        *)
LEMMA MovingReached ==
    ASSUME TypeInv, NEW s \in Slots, SlotStep(s), frames' = frames
    PROVE  /\ \A j \in 1..Len(frames) : Reached(j)' = Reached(j)
           /\ \A j : j = Len(frames) + 1 => Reached(j)' = pool'
<1>1. Len(frames) \in Nat
  BY DEF TypeInv, RunType
<1> QED BY <1>1 DEF Reached

(* An idle step changes none.                                              *)
LEMMA IdleReached ==
    ASSUME Idle
    PROVE  \A j : Reached(j)' = Reached(j)
BY DEF Idle, Reached

(* Losses stay in time.                                                    *)
LEMMA InTimeStep ==
    ASSUME TypeInv, TypeInv', InTime, Framed \/ Moving \/ Idle
    PROVE  InTime'
<1>0. GameType /\ RunType /\ GameType' /\ RunType'
  BY DEF TypeInv
<1> DEFINE n == Len(frames)
<1>1. n \in Nat /\ Len(frames') \in Nat /\ \A j \in 1..(n + 1) : Reached(j) \in Pool
  BY <1>0, ReachedType DEF RunType
<1>2. CASE Framed
  <2>1. /\ Len(frames') = n + 1 /\ \A j \in 1..(n + 1) : Reached(j)' = Reached(j)
        /\ (\A j : j = n + 2 => Reached(j)' = pool) /\ pool' = pool
    BY <1>2, FramedReached
  <2>2. Reached(n + 1) = pool /\ pool \in Pool
    BY <1>0, ReachedType DEF GameType
  <2>3. SUFFICES ASSUME NEW i \in 1..(n + 1), NEW j \in i..(n + 2)
                 PROVE  Follows(Reached(i)', Reached(j)')
    BY <1>1, <2>1 DEF InTime
  <2> HIDE DEF n
  <2>4. ASSUME NEW k \in i..(n + 1) PROVE Follows(Reached(i), Reached(k))
    <3>1. CASE i \in 1..n
      BY <3>1 DEF InTime, n
    <3>2. CASE i = n + 1
      BY <1>1, <2>2, <3>2, FollowsOrder
    <3> QED BY <1>1, <3>1, <3>2
  <2>5. CASE j <= n + 1
    BY <1>1, <2>1, <2>4, <2>5
  <2>6. CASE j = n + 2
    <3>1. Reached(j)' = Reached(n + 1) /\ n + 1 \in i..(n + 1)
      BY <1>1, <2>1, <2>2, <2>6
    <3> QED BY <1>1, <2>1, <2>4, <3>1
  <2> QED BY <1>1, <2>5, <2>6
<1>3. CASE Moving
  <2>1. PICK s \in Slots : SlotStep(s) /\ frames' = frames
    BY <1>3 DEF Moving
  <2>2. pool \in Pool /\ pool' \in Pool /\ Follows(pool, pool')
    BY <1>0, <2>1, SlotStepFollows
  <2>3. (\A j \in 1..n : Reached(j)' = Reached(j)) /\ Reached(n + 1) = pool
        /\ \A j : j = n + 1 => Reached(j)' = pool'
    BY <1>0, <2>1, MovingReached, ReachedType
  <2>4. SUFFICES ASSUME NEW i \in 1..n, NEW j \in i..(n + 1) PROVE Follows(Reached(i)', Reached(j)')
    BY <2>1 DEF InTime
  <2>5. Follows(Reached(i), Reached(j)) /\ Follows(Reached(i), Reached(n + 1))
    BY <1>1 DEF InTime
  <2> HIDE DEF n
  <2>6. CASE j \in 1..n
    BY <2>3, <2>5, <2>6
  <2>7. CASE j = n + 1
    <3>1. Reached(i) \in Pool /\ Follows(Reached(i), pool)
      BY <1>1, <2>3, <2>5
    <3>2. Follows(Reached(i), pool')
      BY <2>2, <3>1, FollowsOrder
    <3> QED BY <2>3, <2>7, <3>2
  <2> QED BY <1>1, <2>6, <2>7
<1>4. CASE Idle
  <2>1. \A j : Reached(j)' = Reached(j)
    BY <1>4, IdleReached
  <2>2. frames' = frames
    BY <1>4 DEF Idle
  <2> QED BY <2>1, <2>2 DEF InTime
<1> QED BY <1>2, <1>3, <1>4
(* The losses recorded stay recorded; a blow to a living zombie adds one. *)
LEMMA LossKept ==
    ASSUME TypeInv, NEW s \in Slots, NEW kill \in BOOLEAN, TruthStep(s, kill)
    PROVE  /\ truth' \in Seq(Loss) /\ Len(truth) \in Nat
           /\ \A i \in 1..Len(truth) : i \in 1..Len(truth') /\ truth'[i] = truth[i]
           /\ pool[s].stage \in Death => truth' = truth
           /\ pool[s].stage \notin Death => Len(truth') = Len(truth) + 1 /\ truth'[Len(truth) + 1] = LossAt(s, kill)
<1>1. truth' \in Seq(Loss) /\ LossAt(s, kill) \in Loss
  BY TruthType
<1>2. truth \in Seq(Loss) /\ Len(truth) \in Nat
  BY DEF TypeInv, GameType
<1>3. truth' = IF pool[s].stage \in Death THEN truth ELSE Append(truth, LossAt(s, kill))
  BY DEF TruthStep
<1> DEFINE loss == LossAt(s, kill)
<1> HIDE DEF loss
<1>4. \A i \in 1..Len(truth) : i \in 1..(Len(truth) + 1) /\ Append(truth, loss)[i] = truth[i]
  BY <1>2
<1>5. Len(Append(truth, loss)) = Len(truth) + 1 /\ Append(truth, loss)[Len(truth) + 1] = loss
  BY <1>2
<1>6. CASE pool[s].stage \in Death
  BY <1>1, <1>2, <1>3, <1>6
<1>7. CASE pool[s].stage \notin Death
  <2>1. truth' = Append(truth, loss)
    BY <1>3, <1>7 DEF loss
  <2> QED BY <1>1, <1>2, <1>4, <1>5, <1>7, <2>1 DEF loss
<1> QED BY <1>6, <1>7

(* A step of a slot keeps the history.                                     *)
LEMMA SlotTruth ==
    ASSUME TypeInv, NEW s \in Slots, SlotStep(s)
    PROVE  \A i \in 1..Len(truth) : i \in 1..Len(truth') /\ truth'[i] = truth[i]
<1>1. CASE Birth(s) \/ Turning(s) \/ Recycling(s)
  <2>1. truth' = truth
    BY <1>1 DEF Birth, Turning, Recycling
  <2> QED BY <2>1
<1>2. CASE Blow(s)
  <2>1. PICK kill \in BOOLEAN : TruthStep(s, kill)
    BY <1>2 DEF Blow
  <2> QED BY <2>1, LossKept
<1> QED BY <1>1, <1>2 DEF SlotStep

(* A zombie that died since the last boundary died in a recorded kill. *)
LEMMA DeathTold ==
    ASSUME TypeInv, NEW s \in Slots, SlotStep(s), Len(frames) >= 1, NEW at, at = Len(frames),
           NEW t \in Slots, NEW p \in Creature, Later(p, pool[t]),
           Died(p, pool[t]) => \E i \in 1..Len(truth) : KilledAt(truth[i], t, p, at),
           Died(p, pool'[t])
    PROVE  \E i \in 1..Len(truth') : KilledAt(truth'[i], t, p, at)
<1>0. pool[t] \in Creature /\ pool'[t] \in Creature
  BY SlotStepFollows DEF TypeInv, Pool
<1>1. p.gen \in Nat /\ pool[t].gen \in Nat /\ pool'[t].gen \in Nat
  BY <1>0 DEF Creature
<1>2. CASE Died(p, pool[t])
  <2>1. PICK i \in 1..Len(truth) : KilledAt(truth[i], t, p, at)
    BY <1>2
  <2>2. i \in 1..Len(truth') /\ truth'[i] = truth[i]
    BY SlotTruth
  <2> QED BY <2>1, <2>2
<1>3. CASE ~Died(p, pool[t])
  <2>1. t = s
    BY <1>3 DEF SlotStep, Elsewhere
  <2>2. Later(pool[s], pool'[s])
    BY SlotStepFollows DEF TypeInv, Follows
  <2>3. /\ p.gen = pool[s].gen /\ pool[s].used /\ pool[s].play = p.play
        /\ pool[s].stage \notin Death /\ pool'[s].stage \in Death /\ pool'[s].gen = pool[s].gen
    BY <1>1, <1>3, <2>1, <2>2 DEF Died, Later
  <2>4. TruthStep(s, TRUE)
    <3>1. ~Birth(s) /\ ~Turning(s) /\ ~Recycling(s)
      BY <1>1, <2>3 DEF Birth, Turning, Recycling, Death
    <3>2. Blow(s)
      BY <3>1 DEF SlotStep
    <3> QED BY <2>3, <3>2 DEF Blow
  <2>5. Len(truth') = Len(truth) + 1 /\ truth'[Len(truth) + 1] = LossAt(s, TRUE) /\ Len(truth) \in Nat
    BY <2>3, <2>4, LossKept
  <2>6. KilledAt(LossAt(s, TRUE), t, p, at)
    BY <2>1, <2>3 DEF LossAt, Id, KilledAt
  <2> DEFINE i == Len(truth) + 1
  <2>7. i \in 1..Len(truth') /\ truth'[i] = LossAt(s, TRUE)
    BY <2>5
  <2> HIDE DEF i
  <2> QED BY <2>6, <2>7
<1> QED BY <1>2, <1>3

(* A death stays told by a loss.                                           *)
LEMMA DeathsToldStep ==
    ASSUME TypeInv, TypeInv', InTime, DeathsTold, Framed \/ Moving \/ Idle
    PROVE  DeathsTold'
<1>0. GameType /\ RunType /\ GameType' /\ RunType'
  BY DEF TypeInv
<1> DEFINE n == Len(frames)
<1>1. n \in Nat /\ Len(frames') \in Nat /\ (\A j \in 1..(n + 1) : Reached(j) \in Pool) /\ Reached(n + 1) = pool
  BY <1>0, ReachedType DEF RunType
<1>2. CASE Framed
  <2>1. /\ Len(frames') = n + 1 /\ \A j \in 1..(n + 1) : Reached(j)' = Reached(j)
        /\ (\A j : j = n + 2 => Reached(j)' = pool) /\ pool' = pool
    BY <1>2, FramedReached
  <2>2. truth' = truth
    BY <1>2 DEF Framed
  <2>3. SUFFICES ASSUME NEW j \in 1..(n + 1), NEW k \in 2..(n + 2), NEW s \in Slots, k = j + 1,
                        Died(Reached(j)'[s], Reached(k)'[s])
                 PROVE  \E i \in 1..Len(truth) : KilledAt(truth[i], s, Reached(j)'[s], j)
    BY <1>1, <2>1, <2>2 DEF DeathsTold
  <2> HIDE DEF n
  <2>4. CASE j \in 1..n
    <3>1. k \in 1..(n + 1) /\ k \in 2..(n + 1)
      BY <1>1, <2>3, <2>4
    <3>2. Reached(j)' = Reached(j) /\ Reached(k)' = Reached(k)
      BY <2>1, <3>1
    <3> QED BY <2>3, <2>4, <3>1, <3>2 DEF DeathsTold, n
  <2>5. CASE j = n + 1
    <3>1. k = n + 2
      BY <1>1, <2>3, <2>5
    <3>2. Reached(j)' = pool /\ Reached(k)' = pool
      BY <1>1, <2>1, <2>5, <3>1
    <3> QED BY <2>3, <3>2 DEF Died
  <2> QED BY <1>1, <2>4, <2>5
<1>3. CASE Moving
  <2>1. PICK s \in Slots : SlotStep(s) /\ frames' = frames
    BY <1>3 DEF Moving
  <2>2. (\A j \in 1..n : Reached(j)' = Reached(j)) /\ \A j : j = n + 1 => Reached(j)' = pool'
    BY <2>1, MovingReached
  <2>3. SUFFICES ASSUME NEW j \in 1..n, NEW k \in 2..(n + 1), NEW t \in Slots, k = j + 1,
                        Died(Reached(j)'[t], Reached(k)'[t])
                 PROVE  \E i \in 1..Len(truth') : KilledAt(truth'[i], t, Reached(j)'[t], j)
    BY <2>1 DEF DeathsTold
  <2>4. Reached(j)' = Reached(j)
    BY <2>2
  <2> DEFINE p == Reached(j)[t]
  <2>5. p \in Creature /\ Died(p, Reached(k)'[t])
    BY <1>1, <2>3, <2>4 DEF Pool
  <2>6. Died(p, Reached(k)[t]) => \E i \in 1..Len(truth) : KilledAt(truth[i], t, p, j)
    BY <2>3 DEF DeathsTold
  <2> HIDE DEF n
  <2>7. CASE k \in 1..n
    <3>1. Died(p, Reached(k)[t])
      BY <2>2, <2>5, <2>7
    <3>2. PICK i \in 1..Len(truth) : KilledAt(truth[i], t, p, j)
      BY <2>6, <3>1
    <3>3. i \in 1..Len(truth') /\ truth'[i] = truth[i]
      BY <2>1, SlotTruth
    <3> QED BY <2>4, <3>2, <3>3
  <2>8. CASE k = n + 1
    <3>1. Reached(k)' = pool' /\ Reached(k) = pool /\ j = Len(frames) /\ Len(frames) >= 1
      BY <1>1, <2>2, <2>3, <2>8 DEF n
    <3>2. Follows(Reached(j), Reached(k))
      <4>1. j \in 1..Len(frames) /\ k \in j..(Len(frames) + 1)
        BY <1>1, <2>3 DEF n
      <4> QED BY <4>1 DEF InTime
    <3>3. Later(p, pool[t])
      BY <3>1, <3>2 DEF Follows
    <3> HIDE DEF p
    <3>4. Died(p, pool'[t]) /\ (Died(p, pool[t]) => \E i \in 1..Len(truth) : KilledAt(truth[i], t, p, j))
      BY <2>5, <2>6, <3>1
    <3>5. \E i \in 1..Len(truth') : KilledAt(truth'[i], t, p, j)
      BY <2>1, <2>5, <3>1, <3>3, <3>4, DeathTold
    <3> QED BY <2>4, <3>5 DEF p
  <2> QED BY <1>1, <2>3, <2>7, <2>8
<1>4. CASE Idle
  <2>1. \A j : Reached(j)' = Reached(j)
    BY <1>4, IdleReached
  <2>2. frames' = frames /\ truth' = truth
    BY <1>4 DEF Idle
  <2> QED BY <2>1, <2>2 DEF DeathsTold
<1> QED BY <1>2, <1>3, <1>4
(* A lost zombie stays lost while its slot is not recycled. *)
LEMMA StaysLost ==
    ASSUME NEW p \in Creature, NEW q \in Creature, Later(p, q), NEW loss, loss.z[2] \in Nat, LostFor(p, loss)
    PROVE  LostFor(q, loss)
<1>1. p.gen \in Nat /\ q.gen \in Nat
  BY DEF Creature
<1> QED BY <1>1 DEF Later, LostFor

(* The loss a blow records. *)
LEMMA NewLoss ==
    ASSUME TypeInv, NEW s \in Slots, SlotStep(s), Blow(s), pool[s].stage \notin Death, NEW kill \in BOOLEAN,
           NEW loss, loss = LossAt(s, kill)
    PROVE  /\ loss.at = Len(frames) /\ loss.z[1] = s /\ loss.z[2] = pool[s].gen
           /\ LostFor(pool'[s], loss)
           /\ \A p \in Creature : Later(p, pool[s]) => AliveFor(p, loss)
<1>1. loss.at = Len(frames) /\ loss.z[1] = s /\ loss.z[2] = pool[s].gen /\ loss.play = pool[s].play
  BY DEF LossAt, Id
<1>2. pool[s] \in Creature /\ pool[s].gen \in Nat
  <2>1. pool[s] \in Creature
    BY DEF TypeInv, GameType, Pool
  <2> QED BY <2>1 DEF Creature
<1>3. LostFor(pool'[s], loss)
  <2>1. /\ pool'[s].used /\ pool'[s].gen = pool[s].gen
        /\ pool'[s].stage \in Death \/ pool'[s].gone
    BY DEF Blow
  <2> QED BY <1>1, <1>2, <2>1 DEF LostFor
<1>4. ASSUME NEW p \in Creature, Later(p, pool[s]) PROVE AliveFor(p, loss)
  BY <1>1, <1>2, <1>4 DEF Blow, Later, AliveFor
<1> QED BY <1>1, <1>3, <1>4

(* A loss stays true of its zombie.                                        *)
LEMMA LossesTrueStep ==
    ASSUME TypeInv, TypeInv', InTime, LossesTrue, Framed \/ Moving \/ Idle
    PROVE  LossesTrue'
<1>0. GameType /\ RunType /\ GameType' /\ RunType'
  BY DEF TypeInv
<1> DEFINE n == Len(frames)
<1>1. n \in Nat /\ Len(frames') \in Nat /\ (\A j \in 1..(n + 1) : Reached(j) \in Pool) /\ Reached(n + 1) = pool
  BY <1>0, ReachedType DEF RunType
<1>2. CASE Framed
  <2>1. /\ Len(frames') = n + 1 /\ \A j \in 1..(n + 1) : Reached(j)' = Reached(j)
        /\ (\A j : j = n + 2 => Reached(j)' = pool) /\ pool' = pool
    BY <1>2, FramedReached
  <2>2. truth' = truth
    BY <1>2 DEF Framed
  <2>3. SUFFICES ASSUME NEW i \in 1..Len(truth)
                 PROVE  /\ truth[i].at <= n + 1
                        /\ \A j \in 1..(n + 2) :
                             /\ j = truth[i].at => AliveFor(Reached(j)'[truth[i].z[1]], truth[i])
                             /\ j = truth[i].at + 1 => LostFor(Reached(j)'[truth[i].z[1]], truth[i])
    BY <1>1, <2>1, <2>2 DEF LossesTrue
  <2>4. /\ truth[i].at <= n /\ truth[i].at \in Nat
        /\ \A j \in 1..(n + 1) :
             /\ j = truth[i].at => AliveFor(Reached(j)[truth[i].z[1]], truth[i])
             /\ j = truth[i].at + 1 => LostFor(Reached(j)[truth[i].z[1]], truth[i])
    BY <1>0, LossParts DEF LossesTrue
  <2> HIDE DEF n
  <2>5. \A j \in 1..(n + 2) : j = truth[i].at \/ j = truth[i].at + 1 => j \in 1..(n + 1)
    BY <1>1, <2>4
  <2>6. truth[i].at <= n + 1
    BY <1>1, <2>4
  <2> QED BY <2>1, <2>4, <2>5, <2>6
<1>3. CASE Moving
  <2>1. PICK s \in Slots : SlotStep(s) /\ frames' = frames
    BY <1>3 DEF Moving
  <2>2. (\A j \in 1..n : Reached(j)' = Reached(j)) /\ \A j : j = n + 1 => Reached(j)' = pool'
    BY <2>1, MovingReached
  <2>3. SUFFICES ASSUME NEW i \in 1..Len(truth')
                 PROVE  /\ truth'[i].at <= n
                        /\ \A j \in 1..(n + 1) :
                             /\ j = truth'[i].at => AliveFor(Reached(j)'[truth'[i].z[1]], truth'[i])
                             /\ j = truth'[i].at + 1 => LostFor(Reached(j)'[truth'[i].z[1]], truth'[i])
    BY <2>1 DEF LossesTrue
  <2>4. pool \in Pool /\ pool' \in Pool /\ Follows(pool, pool')
    BY <1>0, <2>1, SlotStepFollows
  <2> DEFINE loss == truth'[i]
  <2>5. CASE i \in 1..Len(truth)
    <3>1. loss = truth[i] /\ loss.z[1] \in Slots /\ loss.z[2] \in Nat /\ loss.at \in Nat
      BY <1>0, <2>1, <2>5, SlotTruth, LossParts
    <3>2. /\ loss.at <= n
          /\ \A j \in 1..(n + 1) :
               /\ j = loss.at => AliveFor(Reached(j)[loss.z[1]], loss)
               /\ j = loss.at + 1 => LostFor(Reached(j)[loss.z[1]], loss)
      BY <2>5, <3>1 DEF LossesTrue
    <3> HIDE DEF loss, n
    <3>3. ASSUME NEW j \in 1..(n + 1), j = loss.at PROVE AliveFor(Reached(j)'[loss.z[1]], loss)
      <4>1. j \in 1..n
        BY <1>1, <3>1, <3>2, <3>3
      <4>2. Reached(j)' = Reached(j)
        BY <2>2, <4>1
      <4> QED BY <3>2, <3>3, <4>2
    <3>4. ASSUME NEW j \in 1..(n + 1), j = loss.at + 1 PROVE LostFor(Reached(j)'[loss.z[1]], loss)
      <4>1. LostFor(Reached(j)[loss.z[1]], loss)
        BY <3>2, <3>4
      <4>2. CASE j \in 1..n
        BY <2>2, <4>1, <4>2
      <4>3. CASE j = n + 1
        <5>1. Reached(j)' = pool' /\ Reached(j) = pool
          BY <1>1, <2>2, <4>3
        <5> DEFINE t == loss.z[1]
        <5>2. pool[t] \in Creature /\ pool'[t] \in Creature /\ Later(pool[t], pool'[t]) /\ LostFor(pool[t], loss)
          BY <2>4, <3>1, <4>1, <5>1 DEF Pool, Follows
        <5> HIDE DEF t
        <5>3. LostFor(pool'[t], loss)
          BY <3>1, <5>2, StaysLost
        <5> QED BY <5>1, <5>3 DEF t
      <4> QED BY <1>1, <4>2, <4>3
    <3>5. loss.at <= n
      BY <3>2
    <3> QED BY <3>3, <3>4, <3>5 DEF loss
  <2>6. CASE i \notin 1..Len(truth)
    <3>1. Blow(s)
      <4>1. truth' # truth
        BY <2>3, <2>6
      <4> QED BY <2>1, <4>1 DEF SlotStep, Birth, Turning, Recycling
    <3>2. PICK kill \in BOOLEAN : TruthStep(s, kill)
      BY <3>1 DEF Blow
    <3>3. pool[s].stage \notin Death /\ loss = LossAt(s, kill)
      <4>1. pool[s].stage \notin Death
        BY <2>3, <2>6, <3>2, LossKept
      <4>2. Len(truth') = Len(truth) + 1 /\ Len(truth) \in Nat /\ truth'[Len(truth) + 1] = LossAt(s, kill)
        BY <3>2, <4>1, LossKept
      <4>3. i = Len(truth) + 1
        BY <2>3, <2>6, <4>2
      <4> QED BY <4>1, <4>2, <4>3
    <3> HIDE DEF loss
    <3>4. /\ loss.at = Len(frames) /\ loss.z[1] = s /\ loss.z[2] = pool[s].gen
          /\ LostFor(pool'[s], loss)
          /\ \A p \in Creature : Later(p, pool[s]) => AliveFor(p, loss)
      BY <2>1, <3>1, <3>3, NewLoss
    <3>5. ASSUME NEW j \in 1..(n + 1), j = loss.at PROVE AliveFor(Reached(j)'[loss.z[1]], loss)
      <4>1. j \in 1..Len(frames) /\ n + 1 \in j..(Len(frames) + 1)
        BY <1>1, <3>4, <3>5
      <4>2. Follows(Reached(j), Reached(n + 1))
        BY <4>1 DEF InTime
      <4>3. Reached(j)' = Reached(j) /\ Reached(j)[s] \in Creature /\ Later(Reached(j)[s], pool[s])
        BY <1>1, <2>2, <4>1, <4>2 DEF Follows, Pool
      <4> QED BY <3>4, <4>3
    <3>6. ASSUME NEW j \in 1..(n + 1), j = loss.at + 1 PROVE LostFor(Reached(j)'[loss.z[1]], loss)
      <4>1. j = n + 1
        BY <3>4, <3>6
      <4> QED BY <2>2, <3>4, <4>1
    <3>7. loss.at <= n
      BY <1>1, <3>4
    <3> QED BY <3>5, <3>6, <3>7 DEF loss
  <2> QED BY <2>5, <2>6
<1>4. CASE Idle
  <2>1. \A j : Reached(j)' = Reached(j)
    BY <1>4, IdleReached
  <2>2. frames' = frames /\ truth' = truth
    BY <1>4 DEF Idle
  <2> QED BY <2>1, <2>2 DEF LossesTrue
<1> QED BY <1>2, <1>3, <1>4

(* The history holds at the start.                                         *)
LEMMA HistoryInit == Init => HistoryInv
BY DEF Init, HistoryInv, InTime, DeathsTold, LossesTrue

(* Every step keeps it.                                                    *)
LEMMA HistoryNext == TypeInv /\ TypeInv' /\ HistoryInv /\ [CaptureStep]_vars => HistoryInv'
<1> SUFFICES ASSUME TypeInv, TypeInv', HistoryInv, [CaptureStep]_vars PROVE HistoryInv'
  OBVIOUS
<1>1. Framed \/ Moving \/ Idle
  BY StepKinds
<1>2. InTime' /\ DeathsTold' /\ LossesTrue'
  BY <1>1, InTimeStep, DeathsToldStep, LossesTrueStep DEF HistoryInv
<1> QED BY <1>2 DEF HistoryInv
----------------------------------------------------------------------------
(* Folds over a sequence *)

(* What is reached from a base by n steps exists. *)
Reaches(n, D, base, step) ==
    \E f \in [0..n -> D] : f[0] = base /\ \A i \in 1..n : f[i] = step[i][f[i - 1]]

(* A function defined by going on from the place before exists.            *)
LEMMA Recursion ==
    ASSUME NEW n \in Nat, NEW D, NEW base \in D, NEW step \in [1..n -> [D -> D]]
    PROVE  Reaches(n, D, base, step)
<1> DEFINE Fits(k, f) == f[0] = base /\ \A i \in 1..k : f[i] = step[i][f[i - 1]]
           S == {k \in 0..n : \E f \in [0..k -> D] : Fits(k, f)}
<1>1. 0 \in S
  <2> DEFINE g == [i \in 0..0 |-> base]
  <2>1. g \in [0..0 -> D] /\ Fits(0, g)
    OBVIOUS
  <2> HIDE DEF g, Fits
  <2>2. 0 \in 0..n
    OBVIOUS
  <2> QED BY <2>1, <2>2
<1>2. ASSUME NEW k \in 0..(n - 1), k \in S PROVE k + 1 \in S
  <2>1. PICK f \in [0..k -> D] : Fits(k, f)
    BY <1>2
  <2>2. k + 1 \in 0..n /\ k + 1 \in 1..n /\ k \in 0..k
    OBVIOUS
  <2>3. f[k] \in D /\ step[k + 1] \in [D -> D]
    BY <2>2
  <2> DEFINE last == step[k + 1][f[k]]
             g == [i \in 0..(k + 1) |-> IF i = k + 1 THEN last ELSE f[i]]
  <2>4. last \in D
    BY <2>3
  <2> HIDE DEF last
  <2>5. g \in [0..(k + 1) -> D]
    BY <2>4
  <2>6. g[0] = f[0] /\ \A i \in 0..k : g[i] = f[i]
    OBVIOUS
  <2>7. g[k + 1] = last
    OBVIOUS
  <2> HIDE DEF g
  <2>8. ASSUME NEW i \in 1..(k + 1) PROVE g[i] = step[i][g[i - 1]]
    <3>1. CASE i = k + 1
      <4>1. i - 1 = k
        BY <3>1
      <4> QED BY <2>2, <2>6, <2>7, <3>1, <4>1 DEF last
    <3>2. CASE i # k + 1
      <4>1. i \in 1..k /\ i \in 0..k /\ i - 1 \in 0..k
        BY <3>2
      <4> QED BY <2>1, <2>6, <4>1
    <3> QED BY <3>1, <3>2
  <2>9. Fits(k + 1, g)
    BY <2>1, <2>6, <2>8
  <2> HIDE DEF Fits
  <2> QED BY <2>2, <2>5, <2>9
<1>3. n \in S
  <2> HIDE DEF S
  <2>1. \A k \in 0..(n - 1) : k \in S => (k + 1) \in S
    BY <1>2
  <2>2. \A k \in 0..n : k \in S
    BY <1>1, <2>1, UpTo
  <2> QED BY <2>2
<1> QED BY <1>3 DEF Reaches

----------------------------------------------------------------------------
(* The boundary report's fold *)

Found ==
    [residue : SUBSET Zombies, deaths : SUBSET Zombies, confirmed : SUBSET Zombies,
     removed : SUBSET Zombies, flagged : SUBSET Zombies,
     unknown : SUBSET Zombies, retired : SUBSET Zombies, reused : SUBSET Zombies, problem : BOOLEAN]

(* The zombies of a boundary, and what it shows of them. *)
LEMMA SnapshotIs ==
    ASSUME NEW f, f.pool \in Pool
    PROVE  /\ DOMAIN Snapshot(f) \subseteq Zombies
           /\ \A s \in Slots : \A g : <<s, g>> \in DOMAIN Snapshot(f) <=> f.pool[s].used /\ f.pool[s].gen = g
           /\ \A s \in Slots : \A g : <<s, g>> \in DOMAIN Snapshot(f) => Snapshot(f)[<<s, g>>] = f.pool[s]
<1> DEFINE held == {s \in DOMAIN f.pool : f.pool[s].used}
           ids == {<<s, f.pool[s].gen>> : s \in held}
<1>1. DOMAIN f.pool = Slots /\ \A s \in Slots : f.pool[s] \in Creature
  BY DEF Pool
<1>2. Snapshot(f) = [z \in ids |-> f.pool[z[1]]]
  BY DEF Snapshot
<1>3. \A s \in Slots : f.pool[s].gen \in Nat \ {0}
  BY <1>1 DEF Creature
<1>4. ids \subseteq Zombies
  BY <1>1, <1>3 DEF Zombies
<1>5. \A s \in Slots : \A g : <<s, g>> \in ids <=> f.pool[s].used /\ f.pool[s].gen = g
  BY <1>1
<1> HIDE DEF ids
<1> QED BY <1>2, <1>4, <1>5

(* What was seen before boundary i of the window. *)
Before(window, i) == IF i = 1 THEN <<>> ELSE Snapshot(window[i - 1])

(* A boundary's findings are typed.                                        *)
LEMMA BoundaryType ==
    ASSUME NEW found \in Found, NEW before, NEW now, DOMAIN before \subseteq Zombies, DOMAIN now \subseteq Zombies,
           NEW first \in BOOLEAN
    PROVE  Boundary(found, before, now, first) \in Found
BY DEF Boundary, Found

(* What is found after each boundary, from what was found before it.       *)
LEMMA FindingsFold ==
    ASSUME NEW window \in Seq(Frame)
    PROVE  /\ Findings(window)[0] = NothingFound
           /\ \A i \in 1..Len(window) :
                 Findings(window)[i] = Boundary(Findings(window)[i - 1], Before(window, i), Snapshot(window[i]), i = 1)
<1> DEFINE n == Len(window)
           step == [i \in 1..n |-> [found \in Found |-> Boundary(found, Before(window, i), Snapshot(window[i]), i = 1)]]
<1>1. n \in Nat
  OBVIOUS
<1>2. NothingFound \in Found
  BY DEF NothingFound, Found
<1>3. ASSUME NEW i \in 1..n
      PROVE  DOMAIN Before(window, i) \subseteq Zombies /\ DOMAIN Snapshot(window[i]) \subseteq Zombies
  <2>1. \A j \in 1..n : window[j] \in Frame
    OBVIOUS
  <2>2. \A j \in 1..n : DOMAIN Snapshot(window[j]) \subseteq Zombies
    BY <2>1, SnapshotIs DEF Frame
  <2>3. CASE i = 1
    <3>1. DOMAIN <<>> = {}
      OBVIOUS
    <3> QED BY <2>2, <2>3, <3>1 DEF Before
  <2>4. CASE i # 1
    <3>1. i - 1 \in 1..n
      BY <2>4
    <3> QED BY <2>2, <2>4, <3>1 DEF Before
  <2> QED BY <2>3, <2>4
<1>4. ASSUME NEW i \in 1..n, NEW found \in Found
      PROVE  Boundary(found, Before(window, i), Snapshot(window[i]), i = 1) \in Found
  <2>1. (i = 1) \in BOOLEAN
    OBVIOUS
  <2> QED BY <1>3, <2>1, BoundaryType
<1>5. step \in [1..n -> [Found -> Found]]
  BY <1>4
<1>6. PICK f \in [0..n -> Found] : f[0] = NothingFound /\ \A i \in 1..n : f[i] = step[i][f[i - 1]]
  <2> HIDE DEF step, n
  <2>1. Reaches(n, Found, NothingFound, step)
    BY <1>1, <1>2, <1>5, Recursion
  <2> QED BY <2>1 DEF Reaches
<1>7. ASSUME NEW i \in 1..n
      PROVE  f[i] = Boundary(f[i - 1], Before(window, i), Snapshot(window[i]), i = 1)
  <2>1. i - 1 \in 0..n
    BY <1>1
  <2>2. f[i - 1] \in Found
    BY <1>6, <2>1
  <2> QED BY <1>6, <2>2
<1> HIDE DEF step
<1> DEFINE Body(g) == [i \in 0..n |->
               IF i = 0 THEN NothingFound
               ELSE Boundary(g[i - 1], IF i = 1 THEN <<>> ELSE Snapshot(window[i - 1]), Snapshot(window[i]), i = 1)]
<1>8. f = Body(f)
  <2>1. ASSUME NEW i \in 0..n
        PROVE  f[i] = IF i = 0 THEN NothingFound
                      ELSE Boundary(f[i - 1], IF i = 1 THEN <<>> ELSE Snapshot(window[i - 1]),
                                    Snapshot(window[i]), i = 1)
    <3>1. CASE i = 0
      BY <1>6, <3>1
    <3>2. CASE i # 0
      <4>1. i \in 1..n
        BY <3>2
      <4> QED BY <1>7, <3>2, <4>1 DEF Before
    <3> QED BY <3>1, <3>2
  <2> QED BY <1>6, <2>1
<1>9. Findings(window) = Body(Findings(window))
  <2>1. \E g : g = Body(g)
    BY <1>8
  <2> QED BY <2>1 DEF Findings
<1> QED BY <1>1, <1>9 DEF Before
(* A snapshot, by identities.                                              *)
LEMMA SnapshotOf ==
    ASSUME NEW f, f.pool \in Pool
    PROVE  /\ DOMAIN Snapshot(f) \subseteq Zombies
           /\ \A z \in Zombies : z \in DOMAIN Snapshot(f) <=> f.pool[z[1]].used /\ f.pool[z[1]].gen = z[2]
           /\ \A z \in DOMAIN Snapshot(f) : Snapshot(f)[z] = f.pool[z[1]]
<1> DEFINE m == Snapshot(f)
<1>1. /\ DOMAIN m \subseteq Zombies
      /\ \A s \in Slots : \A g : <<s, g>> \in DOMAIN m <=> f.pool[s].used /\ f.pool[s].gen = g
      /\ \A s \in Slots : \A g : <<s, g>> \in DOMAIN m => m[<<s, g>>] = f.pool[s]
  BY SnapshotIs
<1> HIDE DEF m
<1>2. ASSUME NEW z \in Zombies
      PROVE  /\ z \in DOMAIN m <=> f.pool[z[1]].used /\ f.pool[z[1]].gen = z[2]
             /\ z \in DOMAIN m => m[z] = f.pool[z[1]]
  <2>1. z = <<z[1], z[2]>> /\ z[1] \in Slots
    BY DEF Zombies
  <2> DEFINE s == z[1]  g == z[2]
  <2> HIDE DEF s, g
  <2>2. z = <<s, g>> /\ s \in Slots
    BY <2>1 DEF s, g
  <2>3. /\ z \in DOMAIN m <=> f.pool[s].used /\ f.pool[s].gen = g
        /\ z \in DOMAIN m => m[z] = f.pool[s]
    BY <1>1, <2>2
  <2> QED BY <2>3 DEF s, g
<1> QED BY <1>1, <1>2 DEF m

(* The window: the frames from a to b. *)
Framing(window, a, b) ==
    /\ a \in 1..Len(frames) /\ b \in a..Len(frames)
    /\ window \in Seq(Frame) /\ Len(window) = b - a + 1
    /\ \A k \in 1..Len(window) : window[k] = frames[a + k - 1]

(* A zombie the window's first boundary shows gone, dying or off the board. *)
Residue(window) ==
    LET first == Snapshot(window[1])
    IN  {z \in DOMAIN first : first[z].gone \/ first[z].stage \in Death \/ ~first[z].play}

(* What the report has found at the window's boundary i. *)
LossAtIn(t, a, e) == truth[t].play /\ truth[t].at \in a..e
Tells(window, a, found, i) ==
    /\ found \in Found
    /\ found.residue = Residue(window)
    /\ found.confirmed \subseteq found.deaths
    /\ \A z \in found.confirmed : \E t \in 1..Len(truth) :
           LossAtIn(t, a, a + i - 2) /\ truth[t].z = z /\ truth[t].kill
    /\ \A t \in 1..Len(truth) :
           LossAtIn(t, a, a + i - 2) /\ truth[t].z \in DOMAIN Snapshot(window[1]) \ Residue(window)
               => Noted(found, t)
    /\ \A k \in 1..i : DOMAIN Snapshot(window[k]) \ DOMAIN Snapshot(window[i]) \subseteq found.removed \cup found.residue
    /\ ~found.problem
    /\ \A z \in found.retired : z[2] < window[i].pool[z[1]].gen

(* The window's frames are the audited ones from its anchor on.            *)
LEMMA WindowFacts ==
    ASSUME TypeInv, HistoryInv, NEW window, NEW a, NEW b, Framing(window, a, b)
    PROVE  /\ a \in Nat /\ b \in Nat /\ Len(window) \in Nat
           /\ \A k \in 1..Len(window) :
                 /\ window[k] \in Frame /\ window[k].pool \in Pool
                 /\ a + k - 1 \in 1..Len(frames) /\ window[k].pool = Reached(a + k - 1)
           /\ \A i, j \in 1..Len(window) : i <= j => Follows(window[i].pool, window[j].pool)
<1>0. Len(frames) \in Nat /\ \A j \in 1..Len(frames) : Reached(j) = frames[j].pool /\ Reached(j) \in Pool
  BY ReachedType DEF TypeInv
<1>1. a \in Nat /\ b \in Nat /\ a >= 1 /\ b <= Len(frames) /\ Len(window) = b - a + 1
      /\ Len(window) \in Nat /\ window \in Seq(Frame)
  BY <1>0 DEF Framing
<1>2. ASSUME NEW k \in 1..Len(window)
      PROVE  /\ window[k] \in Frame /\ window[k].pool \in Pool
             /\ a + k - 1 \in 1..Len(frames) /\ window[k].pool = Reached(a + k - 1)
  <2>1. a + k - 1 \in 1..Len(frames)
    BY <1>0, <1>1
  <2>2. window[k] = frames[a + k - 1] /\ window[k] \in Frame
    BY <1>1 DEF Framing
  <2> QED BY <1>0, <2>1, <2>2
<1>3. ASSUME NEW i \in 1..Len(window), NEW j \in 1..Len(window), i <= j
      PROVE  Follows(window[i].pool, window[j].pool)
  <2>1. a + i - 1 \in 1..Len(frames) /\ a + j - 1 \in (a + i - 1)..(Len(frames) + 1)
    <3>1. a + i - 1 \in 1..Len(frames) /\ a + j - 1 \in 1..Len(frames)
      BY <1>2
    <3> QED BY <1>0, <1>1, <1>3, <3>1
  <2>2. Follows(Reached(a + i - 1), Reached(a + j - 1))
    BY <2>1 DEF HistoryInv, InTime
  <2> QED BY <1>2, <2>2
<1> QED BY <1>1, <1>2, <1>3
(* What the first boundary tells.                                          *)
LEMMA FirstBoundary ==
    ASSUME TypeInv, HistoryInv, NEW window, NEW a, NEW b, Framing(window, a, b)
    PROVE  Tells(window, a, Boundary(NothingFound, <<>>, Snapshot(window[1]), TRUE), 1)
<1> DEFINE now == Snapshot(window[1])
           found == Boundary(NothingFound, <<>>, now, TRUE)
<1>1. a \in Nat /\ 1 \in 1..Len(window) /\ window[1].pool \in Pool
  <2>1. 1 \in 1..Len(window)
    BY WindowFacts DEF Framing
  <2> QED BY <2>1, WindowFacts
<1>2. DOMAIN now \subseteq Zombies
  BY <1>1, SnapshotOf
<1> HIDE DEF now
<1>3. DOMAIN <<>> = {}
  OBVIOUS
<1>4. found \in Found
  <2>1. NothingFound \in Found
    BY DEF NothingFound, Found
  <2>2. DOMAIN <<>> \subseteq Zombies /\ TRUE \in BOOLEAN
    BY <1>3
  <2> QED BY <1>2, <2>1, <2>2, BoundaryType
<1>5. /\ found.residue = {z \in DOMAIN now : now[z].gone \/ now[z].stage \in Death \/ ~now[z].play}
      /\ found.confirmed = {} /\ found.retired = {} /\ ~found.problem
  BY <1>3 DEF Boundary, NothingFound, DeathStages, Death
<1> HIDE DEF found
<1>6. found.residue = Residue(window)
  BY <1>5 DEF Residue, now
<1>7. ~\E x : x \in a..(a + 1 - 2)
  BY <1>1
<1>8. \A t \in 1..Len(truth) : ~LossAtIn(t, a, a + 1 - 2)
  BY <1>7 DEF LossAtIn
<1>9. \A k \in 1..1 : DOMAIN Snapshot(window[k]) \ DOMAIN Snapshot(window[1]) \subseteq found.removed \cup found.residue
  OBVIOUS
<1> QED BY <1>4, <1>5, <1>6, <1>8, <1>9 DEF Tells, found, now

(* What a later boundary adds. *)
Adds(new, found, before, now) ==
    /\ new.residue = found.residue
    /\ new.confirmed = found.confirmed \cup
         {z \in DOMAIN now \cap DOMAIN before :
             /\ now[z].stage \in Death /\ before[z].stage \notin Death
             /\ before[z].stage \in KnownNonDead /\ ~before[z].gone
             /\ before[z].play /\ now[z].play}
    /\ found.deaths \subseteq new.deaths
    /\ {z \in DOMAIN now \cap DOMAIN before : now[z].stage \in Death /\ before[z].stage \notin Death}
         \subseteq new.deaths
    /\ new.removed = found.removed \cup ((DOMAIN before \ DOMAIN now) \ found.residue)
    /\ found.unknown \subseteq new.unknown
    /\ {z \in DOMAIN now \cap DOMAIN before : ~before[z].gone /\ now[z].gone} \subseteq new.confirmed \cup new.unknown
    /\ (DOMAIN before \ DOMAIN now) \ found.residue \subseteq new.confirmed \cup new.unknown
    /\ new.retired = found.retired \cup (DOMAIN before \ DOMAIN now)
    /\ new.problem <=> (found.problem \/ DOMAIN now \cap found.retired # {})

(* What a boundary adds to the findings.                                   *)
LEMMA BoundaryAdds ==
    ASSUME NEW found \in Found, NEW before, NEW now
    PROVE  Adds(Boundary(found, before, now, FALSE), found, before, now)
<1> DEFINE new == Boundary(found, before, now, FALSE)
           here == DOMAIN now
           known == DOMAIN before
           deaths == {z \in here : now[z].stage \in Death /\ (z \in known => ~(before[z].stage \in Death))}
           confirmed == {z \in deaths \cap known :
                           /\ before[z].stage \in KnownNonDead /\ ~before[z].gone
                           /\ before[z].play /\ now[z].play}
           flagged == {z \in here \cap known : ~before[z].gone /\ now[z].gone}
           released == (known \ here) \ found.residue
<1>1. new = [residue |-> found.residue,
             deaths |-> found.deaths \cup deaths,
             confirmed |-> found.confirmed \cup confirmed,
             removed |-> found.removed \cup released,
             flagged |-> found.flagged \cup flagged,
             unknown |-> found.unknown \cup ((flagged \cup released) \ (found.confirmed \cup confirmed)),
             retired |-> found.retired \cup (known \ here),
             reused |-> found.reused \cup {z \in here : \E y \in known : y[1] = z[1] /\ y # z},
             problem |-> found.problem \/ here \cap found.retired # {}]
  BY DEF Boundary, DeathStages, Death
<1> HIDE DEF new, here, known, deaths, confirmed, flagged, released
<1>2. /\ new.residue = found.residue
      /\ new.deaths = found.deaths \cup deaths
      /\ new.confirmed = found.confirmed \cup confirmed
      /\ new.removed = found.removed \cup released
      /\ new.unknown = found.unknown \cup ((flagged \cup released) \ (found.confirmed \cup confirmed))
      /\ new.retired = found.retired \cup (known \ here)
  BY <1>1
<1>4. new.problem <=> (found.problem \/ here \cap found.retired # {})
  <2>1. found.problem \in BOOLEAN
    BY DEF Found
  <2>2. new.problem = (found.problem \/ here \cap found.retired # {})
    BY <1>1
  <2> QED BY <2>1, <2>2
<1>3. /\ found.unknown \subseteq new.unknown
      /\ flagged \subseteq new.confirmed \cup new.unknown
      /\ released \subseteq new.confirmed \cup new.unknown
  BY <1>2
<1>5. /\ {z \in here \cap known : now[z].stage \in Death /\ before[z].stage \notin Death} \subseteq deaths
      /\ confirmed = {z \in here \cap known :
                        /\ now[z].stage \in Death /\ before[z].stage \notin Death
                        /\ before[z].stage \in KnownNonDead /\ ~before[z].gone
                        /\ before[z].play /\ now[z].play}
  BY DEF deaths, confirmed
<1> QED BY <1>2, <1>3, <1>4, <1>5 DEF Adds, new, here, known, flagged, released

(* A zombie alive on the board that is lost is seen dying, gone, or not at all. *)
LEMMA LossSeen ==
    ASSUME NEW f \in Creature, NEW p \in Creature, NEW q \in Creature, NEW loss, NEW g \in Nat,
           f.used, f.play, f.gen = g, Later(f, p), Later(p, q),
           loss.z[2] = g, loss.play, AliveFor(p, loss), LostFor(q, loss)
    PROVE  /\ p.gen = g /\ p.used /\ p.stage \notin Death /\ ~p.gone /\ p.play
           /\ q.gen = g => q.used /\ q.play /\ (q.stage \in Death \/ q.gone)
<1>1. p.gen \in Nat /\ q.gen \in Nat
  BY DEF Creature
<1>2. p.gen <= g /\ g <= p.gen
  BY DEF Later, AliveFor
<1>3. p.gen = g
  <2> DEFINE x == p.gen
  <2>1. x \in Nat /\ x <= g /\ g <= x
    BY <1>1, <1>2
  <2> HIDE DEF x
  <2>2. x = g
    BY <2>1
  <2> QED BY <2>2 DEF x
<1>4. p.used /\ p.play
  BY <1>3 DEF Later
<1>5. p.stage \notin Death /\ ~p.gone
  BY <1>3, <1>4 DEF AliveFor
<1>6. q.gen = g => q.used /\ q.play /\ (q.stage \in Death \/ q.gone)
  BY <1>3, <1>4 DEF Later, LostFor
<1> QED BY <1>3, <1>4, <1>5, <1>6

(* And then it is told. *)
LEMMA LossReported ==
    ASSUME NEW new, NEW found, NEW before, NEW now, Adds(new, found, before, now),
           NEW z \in DOMAIN before, before[z].stage \notin Death, ~before[z].gone, before[z].play,
           z \notin found.residue,
           z \in DOMAIN now => now[z].play /\ (now[z].stage \in Death \/ now[z].gone),
           new.confirmed \subseteq new.deaths
    PROVE  z \in new.unknown \cup (IF before[z].stage \in KnownNonDead THEN new.confirmed ELSE new.deaths)
<1>1. CASE z \in DOMAIN now /\ now[z].stage \in Death
  BY <1>1 DEF Adds
<1>2. CASE z \in DOMAIN now /\ now[z].gone
  BY <1>2 DEF Adds
<1>3. CASE z \notin DOMAIN now
  BY <1>3 DEF Adds
<1> QED BY <1>1, <1>2, <1>3

(* What is told at a boundary is told at the next one.                     *)
LEMMA NextBoundary ==
    ASSUME TypeInv, HistoryInv, NEW window, NEW a, NEW b, Framing(window, a, b),
           NEW i \in Nat, NEW j \in Nat, j = i + 1, i \in 1..Len(window), j \in 1..Len(window),
           NEW found, Tells(window, a, found, i),
           NEW new, new = Boundary(found, Snapshot(window[i]), Snapshot(window[j]), FALSE)
    PROVE  Tells(window, a, new, j)
<1> DEFINE before == Snapshot(window[i])
           now == Snapshot(window[j])
           start == Snapshot(window[1])
           p == window[i].pool
           q == window[j].pool
           at == a + i - 1
           Lost(t, e) == LossAtIn(t, a, e)
<1>1. /\ a \in Nat /\ Len(window) \in Nat /\ 1 \in 1..Len(window)
      /\ p \in Pool /\ q \in Pool /\ window[1].pool \in Pool
      /\ Follows(p, q) /\ Follows(window[1].pool, p)
      /\ at \in 1..Len(frames) /\ p = Reached(at) /\ q = Reached(at + 1) /\ at + 1 \in 2..Len(frames)
  <2>1. /\ a \in Nat /\ Len(window) \in Nat
        /\ \A k \in 1..Len(window) :
              /\ window[k].pool \in Pool
              /\ a + k - 1 \in 1..Len(frames) /\ window[k].pool = Reached(a + k - 1)
        /\ \A k, l \in 1..Len(window) : k <= l => Follows(window[k].pool, window[l].pool)
    BY WindowFacts
  <2>2. 1 \in 1..Len(window) /\ i <= j /\ 1 <= i
    BY <2>1
  <2>3. a + j - 1 = at + 1 /\ Len(frames) \in Nat
    BY <2>1, ReachedType DEF TypeInv
  <2>4. a + j - 1 \in 1..Len(frames) /\ q = Reached(a + j - 1)
    BY <2>1
  <2>5. at + 1 \in 2..Len(frames)
    BY <2>1, <2>3, <2>4
  <2> QED BY <2>1, <2>2, <2>3, <2>4, <2>5
<1>2. /\ DOMAIN before \subseteq Zombies /\ DOMAIN now \subseteq Zombies /\ DOMAIN start \subseteq Zombies
      /\ \A z \in Zombies : z \in DOMAIN before <=> p[z[1]].used /\ p[z[1]].gen = z[2]
      /\ \A z \in Zombies : z \in DOMAIN now <=> q[z[1]].used /\ q[z[1]].gen = z[2]
      /\ \A z \in DOMAIN before : before[z] = p[z[1]]
      /\ \A z \in DOMAIN now : now[z] = q[z[1]]
  BY <1>1, SnapshotOf
<1>3. \A z \in Zombies : /\ z[1] \in Slots /\ z[2] \in Nat /\ z = <<z[1], z[2]>>
                         /\ p[z[1]] \in Creature /\ q[z[1]] \in Creature /\ Later(p[z[1]], q[z[1]])
                         /\ p[z[1]].gen \in Nat /\ q[z[1]].gen \in Nat
  <2>1. \A z \in Zombies : z[1] \in Slots /\ z[2] \in Nat /\ z = <<z[1], z[2]>>
    BY DEF Zombies
  <2>2. \A s \in Slots : /\ p[s] \in Creature /\ q[s] \in Creature /\ Later(p[s], q[s])
                         /\ p[s].gen \in Nat /\ q[s].gen \in Nat
    BY <1>1 DEF Pool, Follows, Creature
  <2> QED BY <2>1, <2>2
<1>4. /\ found \in Found
      /\ found.residue = Residue(window)
      /\ found.confirmed \subseteq found.deaths
      /\ \A z \in found.confirmed : \E t \in 1..Len(truth) :
             Lost(t, a + i - 2) /\ truth[t].z = z /\ truth[t].kill
      /\ \A t \in 1..Len(truth) :
             Lost(t, a + i - 2) /\ truth[t].z \in DOMAIN start \ Residue(window)
                 => Noted(found, t)
      /\ \A k \in 1..i : DOMAIN Snapshot(window[k]) \ DOMAIN before \subseteq found.removed \cup found.residue
      /\ ~found.problem
      /\ \A z \in found.retired : z[2] < p[z[1]].gen
  BY DEF Tells
<1>5. /\ new.residue = found.residue
      /\ new.confirmed = found.confirmed \cup
           {z \in DOMAIN now \cap DOMAIN before :
               /\ now[z].stage \in Death /\ before[z].stage \notin Death
               /\ before[z].stage \in KnownNonDead /\ ~before[z].gone
               /\ before[z].play /\ now[z].play}
      /\ found.deaths \subseteq new.deaths
      /\ {z \in DOMAIN now \cap DOMAIN before : now[z].stage \in Death /\ before[z].stage \notin Death}
           \subseteq new.deaths
      /\ new.removed = found.removed \cup ((DOMAIN before \ DOMAIN now) \ found.residue)
      /\ found.unknown \subseteq new.unknown
      /\ {z \in DOMAIN now \cap DOMAIN before : ~before[z].gone /\ now[z].gone} \subseteq new.confirmed \cup new.unknown
      /\ (DOMAIN before \ DOMAIN now) \ found.residue \subseteq new.confirmed \cup new.unknown
      /\ new.retired = found.retired \cup (DOMAIN before \ DOMAIN now)
      /\ new.problem <=> (found.problem \/ DOMAIN now \cap found.retired # {})
  <2> HIDE DEF before, now
  <2>1. new = Boundary(found, before, now, FALSE)
    BY DEF before, now
  <2>3. found \in Found
    BY <1>4
  <2>4. \A was, is : Adds(Boundary(found, was, is, FALSE), found, was, is)
    BY <2>3, BoundaryAdds, ZenonT(40)
  <2>2. Adds(new, found, before, now)
    BY <2>1, <2>4, ZenonT(40)
  <2> QED BY <2>2 DEF Adds
<1>6. new \in Found
  <2> HIDE DEF before, now
  <2>1. new = Boundary(found, before, now, FALSE) /\ FALSE \in BOOLEAN
    BY DEF before, now
  <2>2. found \in Found /\ DOMAIN before \subseteq Zombies /\ DOMAIN now \subseteq Zombies
    BY <1>2, <1>4
  <2>3. Boundary(found, before, now, FALSE) \in Found
    BY <2>1, <2>2, BoundaryType
  <2> QED BY <2>1, <2>3
<1>7. a + j - 2 = at /\ a + i - 2 = at - 1 /\ at \in Nat /\ a <= at
  BY <1>1
<1>8. \A z \in new.retired : z[2] < q[z[1]].gen
  <2>1. SUFFICES ASSUME NEW z \in new.retired PROVE z[2] < q[z[1]].gen
    OBVIOUS
  <2>2. z \in Zombies
    BY <1>2, <1>4, <1>5 DEF Found
  <2>3. CASE z \in found.retired
    BY <1>3, <1>4, <2>2, <2>3 DEF Later
  <2>4. CASE z \in DOMAIN before \ DOMAIN now
    <3>1. p[z[1]].used /\ p[z[1]].gen = z[2] /\ ~(q[z[1]].used /\ q[z[1]].gen = z[2])
      BY <1>2, <2>2, <2>4
    <3>2. Later(p[z[1]], q[z[1]]) /\ z[2] \in Nat /\ q[z[1]].gen \in Nat
      BY <1>3, <2>2
    <3> QED BY <3>1, <3>2 DEF Later
  <2> QED BY <1>5, <2>3, <2>4
<1>9. ~new.problem
  <2>1. ASSUME NEW z \in DOMAIN now, z \in found.retired PROVE FALSE
    <3>1. z \in Zombies /\ q[z[1]].gen = z[2]
      BY <1>2, <2>1
    <3>2. p[z[1]].gen <= q[z[1]].gen /\ z[2] < p[z[1]].gen
      BY <1>3, <1>4, <2>1, <3>1 DEF Later
    <3> QED BY <1>3, <3>1, <3>2
  <2> QED BY <1>4, <1>5, <2>1
<1>10. ASSUME NEW k \in 1..j
       PROVE  DOMAIN Snapshot(window[k]) \ DOMAIN now \subseteq new.removed \cup new.residue
  <2>1. SUFFICES ASSUME NEW z \in DOMAIN Snapshot(window[k]), z \notin DOMAIN now
                 PROVE  z \in new.removed \cup new.residue
    OBVIOUS
  <2>2. k # j
    BY <2>1 DEF now
  <2>3. k \in 1..i
    BY <2>2
  <2>4. CASE z \in DOMAIN before
    BY <1>5, <2>1, <2>4
  <2>5. CASE z \notin DOMAIN before
    BY <1>4, <1>5, <2>1, <2>3, <2>5
  <2> QED BY <2>4, <2>5
<1>16. new.confirmed \subseteq new.deaths
  BY <1>4, <1>5
<1>11. ASSUME NEW z \in new.confirmed
       PROVE  \E t \in 1..Len(truth) : Lost(t, at) /\ truth[t].z = z /\ truth[t].kill
  <2>1. CASE z \in found.confirmed
    <3>1. PICK t \in 1..Len(truth) : Lost(t, a + i - 2) /\ truth[t].z = z /\ truth[t].kill
      BY <1>4, <2>1
    <3>2. truth[t].at \in Nat
      BY LossParts DEF TypeInv
    <3>3. Lost(t, at)
      BY <1>1, <1>7, <3>1, <3>2 DEF LossAtIn
    <3> QED BY <3>1, <3>3
  <2>2. CASE z \notin found.confirmed
    <3>1. /\ z \in DOMAIN now /\ z \in DOMAIN before
          /\ now[z].stage \in Death /\ before[z].stage \notin Death /\ ~before[z].gone
          /\ before[z].play
      BY <1>5, <2>2
    <3>2. /\ z \in Zombies /\ Died(p[z[1]], q[z[1]]) /\ p[z[1]].play /\ p[z[1]].gen = z[2]
      BY <1>2, <3>1 DEF Died
    <3> DEFINE s == z[1]
               k == at + 1
    <3>3. at \in 1..Len(frames) /\ k \in 2..(Len(frames) + 1) /\ s \in Slots
      <4>1. Len(frames) \in Nat
        BY ReachedType DEF TypeInv
      <4> QED BY <1>1, <1>3, <3>2, <4>1
    <3>4. Died(Reached(at)[s], Reached(k)[s])
      BY <1>1, <3>2
    <3>5. k = at + 1
      OBVIOUS
    <3> HIDE DEF at, k, s
    <3>6. PICK t \in 1..Len(truth) : KilledAt(truth[t], s, Reached(at)[s], at)
      BY <3>3, <3>4, <3>5 DEF HistoryInv, DeathsTold
    <3>7. truth[t].kill /\ truth[t].z = z /\ truth[t].play /\ truth[t].at = at
      BY <1>1, <1>3, <3>2, <3>6 DEF KilledAt, s
    <3>8. Lost(t, at)
      BY <1>1, <1>7, <3>7 DEF LossAtIn
    <3> QED BY <3>7, <3>8
  <2> QED BY <2>1, <2>2
<1>12. ASSUME NEW t \in 1..Len(truth), Lost(t, at), truth[t].z \in DOMAIN start, truth[t].z \notin Residue(window)
       PROVE  Noted(new, t)
  <2> DEFINE z == truth[t].z
             s == z[1]
  <2>1. truth[t].at \in Nat /\ truth[t].play /\ truth[t].at \in a..at /\ z \in Zombies /\ s \in Slots /\ z[2] \in Nat
    BY <1>3, <1>12, LossParts DEF TypeInv, LossAtIn
  <2>2. CASE truth[t].at # at
    <3>0. truth[t].at \in a..(a + i - 2)
      <4> DEFINE x == truth[t].at
      <4>1. x \in Nat /\ x \in a..at /\ x # at
        BY <2>1, <2>2
      <4> HIDE DEF x
      <4>2. x \in a..(a + i - 2)
        BY <1>1, <4>1
      <4> QED BY <4>2 DEF x
    <3>1. Lost(t, a + i - 2)
      BY <2>1, <3>0 DEF LossAtIn
    <3>2. Noted(found, t)
      BY <1>4, <1>12, <3>1
    <3>3. found.unknown \subseteq new.unknown /\ found.deaths \subseteq new.deaths /\ found.confirmed \subseteq new.confirmed
      BY <1>5
    <3> QED BY <3>2, <3>3 DEF Noted
  <2>3. CASE truth[t].at = at
    <3> DEFINE first == window[1].pool  loss == truth[t]
    <3>1. AliveFor(p[s], loss) /\ LostFor(q[s], loss)
      <4>1. Len(frames) \in Nat
        BY ReachedType DEF TypeInv
      <4>2. \A k \in 1..(Len(frames) + 1) : /\ k = at => AliveFor(Reached(k)[s], truth[t])
                                            /\ k = at + 1 => LostFor(Reached(k)[s], truth[t])
        BY <2>3 DEF HistoryInv, LossesTrue
      <4>3. at \in 1..(Len(frames) + 1) /\ at + 1 \in 1..(Len(frames) + 1)
        BY <1>1, <4>1
      <4>4. AliveFor(Reached(at)[s], truth[t]) /\ LostFor(Reached(at + 1)[s], truth[t])
        BY <4>2, <4>3
      <4> QED BY <1>1, <4>4
    <3>2. /\ z \in Zombies /\ s = z[1] /\ s \in Slots /\ z[2] \in Nat /\ loss.z = z /\ loss.play
          /\ z \in DOMAIN start /\ z \notin Residue(window)
      BY <1>12, <2>1
    <3>3. first \in Pool /\ p \in Pool /\ q \in Pool /\ Follows(first, p) /\ Follows(p, q)
      BY <1>1
    <3>4. Residue(window) = {y \in DOMAIN start : start[y].gone \/ start[y].stage \in Death \/ ~start[y].play}
      BY DEF Residue
    <3>5. /\ \A y \in Zombies : y \in DOMAIN start <=> first[y[1]].used /\ first[y[1]].gen = y[2]
          /\ \A y \in DOMAIN start : start[y] = first[y[1]]
      BY <1>1, SnapshotOf
    <3>6. /\ z \in DOMAIN before <=> p[s].used /\ p[s].gen = z[2]
          /\ z \in DOMAIN now <=> q[s].used /\ q[s].gen = z[2]
          /\ z \in DOMAIN before => before[z] = p[s]
          /\ z \in DOMAIN now => now[z] = q[s]
      BY <1>2, <2>1
    <3>7. z \notin found.residue
      BY <1>4, <3>2
    <3>8. Adds(new, found, before, now) /\ new.confirmed \subseteq new.deaths
      BY <1>5, <1>16 DEF Adds
    <3>14. frames[truth[t].at].pool = p
      <4>1. at \in 1..Len(frames) /\ Reached(at) = frames[at].pool
        BY <1>1, ReachedType DEF TypeInv
      <4> QED BY <1>1, <2>3, <4>1
    <3>15. frames[truth[t].at].pool[truth[t].z[1]].stage = p[s].stage
      BY <3>14
    <3> HIDE DEF first, loss, p, q, s, z, before, now, start, at
    <3>9. first[s].used /\ first[s].gen = z[2] /\ first[s].play
      BY <3>2, <3>4, <3>5
    <3>10. /\ first[s] \in Creature /\ p[s] \in Creature /\ q[s] \in Creature
           /\ Later(first[s], p[s]) /\ Later(p[s], q[s])
      BY <3>2, <3>3 DEF Pool, Follows
    <3>11. /\ p[s].gen = z[2] /\ p[s].used /\ p[s].stage \notin Death /\ ~p[s].gone /\ p[s].play
           /\ q[s].gen = z[2] => q[s].used /\ q[s].play /\ (q[s].stage \in Death \/ q[s].gone)
      <4> DEFINE f == first[s]  pc == p[s]  qc == q[s]  g == z[2]
      <4>1. f \in Creature /\ pc \in Creature /\ qc \in Creature /\ g \in Nat
        BY <3>2, <3>10
      <4>2. f.used /\ f.play /\ f.gen = g /\ Later(f, pc) /\ Later(pc, qc)
        BY <3>9, <3>10
      <4>3. loss.z[2] = g /\ loss.play /\ AliveFor(pc, loss) /\ LostFor(qc, loss)
        BY <3>1, <3>2
      <4> HIDE DEF f, pc, qc, g
      <4>4. /\ pc.gen = g /\ pc.used /\ pc.stage \notin Death /\ ~pc.gone /\ pc.play
            /\ qc.gen = g => qc.used /\ qc.play /\ (qc.stage \in Death \/ qc.gone)
        BY <4>1, <4>2, <4>3, LossSeen
      <4> QED BY <4>4 DEF pc, qc, g
    <3>12. z \in DOMAIN before /\ before[z] = p[s] /\ (z \in DOMAIN now => now[z] = q[s] /\ q[s].gen = z[2])
      BY <3>6, <3>11
    <3>13. z \in new.unknown \cup (IF before[z].stage \in KnownNonDead THEN new.confirmed ELSE new.deaths)
      <4> DEFINE pc == before[z]  qc == now[z]
      <4>1. pc.stage \notin Death /\ ~pc.gone /\ pc.play
            /\ (z \in DOMAIN now => qc.play /\ (qc.stage \in Death \/ qc.gone))
        BY <3>11, <3>12
      <4> QED BY <3>7, <3>8, <3>12, <4>1, LossReported
    <3> QED BY <3>12, <3>13, <3>15 DEF Noted, z
  <2> QED BY <2>2, <2>3
<1>13. new.residue = Residue(window)
  BY <1>4, <1>5
<1>14. \A t \in 1..Len(truth) :
          LossAtIn(t, a, a + j - 2) /\ truth[t].z \in DOMAIN Snapshot(window[1]) \ Residue(window)
              => Noted(new, t)
  BY <1>7, <1>12
<1>15. \A z \in new.confirmed : \E t \in 1..Len(truth) :
          LossAtIn(t, a, a + j - 2) /\ truth[t].z = z /\ truth[t].kill
  BY <1>7, <1>11
<1> QED BY <1>6, <1>8, <1>9, <1>10, <1>13, <1>14, <1>15, <1>16 DEF Tells
(* What the whole report tells.                                            *)
LEMMA ReportTells ==
    ASSUME TypeInv, HistoryInv, NEW window, NEW a, NEW b, Framing(window, a, b)
    PROVE  Tells(window, a, AnalyzeSnapshots(window), Len(window))
<1> DEFINE n == Len(window)
           F == Findings(window)
           S == {i \in 0..n : i = 0 \/ Tells(window, a, F[i], i)}
<1>1. n \in Nat /\ 1 \in 1..n /\ window \in Seq(Frame)
  BY WindowFacts DEF Framing
<1>2. /\ F[0] = NothingFound
      /\ \A i \in 1..n : F[i] = Boundary(F[i - 1], Before(window, i), Snapshot(window[i]), i = 1)
  BY <1>1, FindingsFold
<1> HIDE DEF F
<1>3. ASSUME NEW k \in 0..(n - 1), k \in S PROVE k + 1 \in S
  <2>1. k + 1 \in 1..n /\ k + 1 \in 0..n
    BY <1>1
  <2>2. CASE k = 0
    <3>1. F[1] = Boundary(NothingFound, <<>>, Snapshot(window[1]), TRUE)
      <4>1. F[1] = Boundary(F[1 - 1], Before(window, 1), Snapshot(window[1]), 1 = 1)
        BY <1>1, <1>2
      <4>2. 1 - 1 = 0 /\ (1 = 1) = TRUE /\ Before(window, 1) = <<>>
        BY DEF Before
      <4> QED BY <1>2, <4>1, <4>2
    <3>2. Tells(window, a, F[1], 1)
      BY <3>1, FirstBoundary
    <3> QED BY <2>1, <2>2, <3>2
  <2>3. CASE k # 0
    <3> DEFINE j == k + 1
    <3>1. k \in 1..n /\ k \in Nat /\ j \in Nat /\ j \in 1..n /\ j = k + 1 /\ j # 1 /\ j - 1 = k
      BY <1>1, <2>3
    <3>2. Tells(window, a, F[k], k)
      BY <1>3, <2>3
    <3> HIDE DEF j, n, S
    <3>3. F[j] = Boundary(F[k], Snapshot(window[k]), Snapshot(window[j]), FALSE)
      <4>1. F[j] = Boundary(F[j - 1], Before(window, j), Snapshot(window[j]), j = 1)
        BY <1>2, <3>1
      <4>2. (j = 1) = FALSE /\ Before(window, j) = Snapshot(window[k])
        BY <3>1 DEF Before
      <4> QED BY <3>1, <4>1, <4>2
    <3> DEFINE found == F[k]  new == F[j]
    <3> HIDE DEF found, new
    <3>4. Tells(window, a, found, k) /\ new = Boundary(found, Snapshot(window[k]), Snapshot(window[j]), FALSE)
      BY <3>2, <3>3 DEF found, new
    <3>5. Tells(window, a, new, j)
      BY <3>1, <3>4, NextBoundary DEF n
    <3> QED BY <2>1, <3>5 DEF new, j, S
  <2> QED BY <2>2, <2>3
<1>4. 0 \in S
  BY <1>1
<1>5. n \in S
  <2> HIDE DEF S, n
  <2>1. \A k \in 0..(n - 1) : k \in S => (k + 1) \in S
    BY <1>3
  <2>2. \A k \in 0..n : k \in S
    BY <1>1, <1>4, <2>1, UpTo
  <2> QED BY <1>1, <2>2
<1>6. Tells(window, a, F[n], n)
  BY <1>1, <1>5
<1> QED BY <1>6 DEF AnalyzeSnapshots, F

(* The frozen window, if its end was audited. *)
LEMMA WindowFramed ==
    ASSUME TypeInv, End # {}
    PROVE  \E a, b \in 1..Len(frames) :
               /\ Anchor = {a} /\ End = {b} /\ a <= b
               /\ Framing(WindowFrames(frames, Anchor, End), a, b)
<1>1. frames \in Seq(Frame) /\ Len(frames) \in Nat
  BY DEF TypeInv, RunType
<1> DEFINE fits == {i \in 1..Len(frames) : initial = {frames[i]}}
           ends == {i \in 1..Len(frames) : frames[i].ver = ending /\ \E a \in Anchor : i >= a}
<1>2. Anchor = {i \in fits : \A j \in fits : i <= j}
  BY DEF Anchor, InitialAnchor
<1>3. End = {i \in ends : \A j \in ends : i >= j}
  BY DEF End, WindowEnd
<1>4. PICK b \in ends : b \in End
  BY <1>3
<1>5. PICK a \in Anchor : b >= a
  BY <1>4
<1>6. a \in 1..Len(frames) /\ b \in 1..Len(frames) /\ a <= b
  BY <1>1, <1>2, <1>4, <1>5
<1>7. Anchor = {a}
  <2>1. \A i \in Anchor : i \in Nat /\ i <= a /\ a <= i /\ a \in Nat
    BY <1>1, <1>2, <1>5
  <2>2. \A i \in Anchor : i = a
    BY <2>1
  <2> QED BY <1>5, <2>2
<1>8. End = {b}
  <2>1. \A i \in End : i \in Nat /\ i >= b /\ b >= i /\ b \in Nat
    BY <1>1, <1>3, <1>4
  <2>2. \A i \in End : i = b
    BY <2>1
  <2> QED BY <1>4, <2>2
<1> DEFINE window == WindowFrames(frames, Anchor, End)
<1>9. window = SubSeq(frames, a, b)
  <2>1. (CHOOSE x \in {a} : TRUE) = a /\ (CHOOSE x \in {b} : TRUE) = b
    OBVIOUS
  <2>2. {a} # {} /\ {b} # {}
    OBVIOUS
  <2> QED BY <1>7, <1>8, <2>1, <2>2 DEF WindowFrames
<1>10. Framing(window, a, b)
  <2>1. /\ SubSeq(frames, a, b) \in Seq(Frame) /\ Len(SubSeq(frames, a, b)) = b - a + 1
        /\ \A k \in 1..(b - a + 1) : SubSeq(frames, a, b)[k] = frames[a + k - 1]
    BY <1>1, <1>6
  <2>2. b \in a..Len(frames)
    BY <1>1, <1>6
  <2> HIDE DEF window
  <2> QED BY <1>6, <1>9, <2>1, <2>2 DEF Framing
<1> QED BY <1>6, <1>7, <1>8, <1>10

(* What the report tells is what happened.                                 *)
LEMMA BoundaryHolds == TypeInv /\ HistoryInv => BoundaryTold
<1> SUFFICES ASSUME TypeInv, HistoryInv, End # {} PROVE BoundaryTold
  BY DEF BoundaryTold
<1> DEFINE window == WindowFrames(frames, Anchor, End)
           r == AnalyzeSnapshots(window)
<1>1. PICK a, b \in 1..Len(frames) : Anchor = {a} /\ End = {b} /\ a <= b /\ Framing(window, a, b)
  BY WindowFramed
<1>2. Tells(window, a, r, Len(window))
  <2> HIDE DEF window
  <2> QED BY <1>1, ReportTells
<1>3. /\ a \in Nat /\ b \in Nat /\ a + Len(window) - 2 = b - 1 /\ window \in Seq(Frame) /\ Len(window) \in 1..Len(window)
  <2> HIDE DEF window
  <2>1. Framing(window, a, b)
    BY <1>1 DEF window
  <2>2. a \in Nat /\ b \in Nat /\ Len(window) \in Nat
    BY <2>1, WindowFacts
  <2>3. Len(window) = b - a + 1 /\ window \in Seq(Frame) /\ a <= b
    BY <1>1, <2>1 DEF Framing
  <2> QED BY <2>2, <2>3
<1>4. \A t \in 1..Len(truth) : InWindow(t) <=> LossAtIn(t, a, b - 1)
  BY <1>1 DEF InWindow, LossAtIn
<1>5. Last(window) = window[Len(window)]
  BY DEF Last
<1> HIDE DEF window
<1>6. /\ r.residue = Residue(window)
      /\ r.confirmed \subseteq r.deaths
      /\ \A z \in r.confirmed : \E t \in 1..Len(truth) : InWindow(t) /\ truth[t].z = z /\ truth[t].kill
      /\ \A t \in 1..Len(truth) :
             InWindow(t) /\ truth[t].z \in DOMAIN Snapshot(window[1]) \ Residue(window)
                 => Noted(r, t)
      /\ \A k \in 1..Len(window) :
             DOMAIN Snapshot(window[k]) \ DOMAIN Snapshot(Last(window)) \subseteq r.removed \cup r.residue
      /\ ~r.problem
  BY <1>2, <1>3, <1>4, <1>5 DEF Tells
<1> HIDE DEF r
<1>7. (UNION {DOMAIN Snapshot(window[k]) : k \in 1..Len(window)}) \ DOMAIN Snapshot(Last(window))
        \subseteq r.removed \cup r.residue
  BY <1>6
<1> QED BY <1>6, <1>7 DEF BoundaryTold, window, r

(* The boundary report tells the truth: it confirms only kills in the window; *)
(* it tells every zombie alive on the board at the window's start that died or *)
(* was removed in it, as an unknown removal or an observed death, confirmed if *)
(* the frame before shows a known phase; and it accounts for all that left the *)
(* pool.                                                                      *)
THEOREM Told == Spec => []BoundaryTold
<1>1. Init => TypeInv /\ HistoryInv
  BY TypeInit, HistoryInit
<1>2. TypeInv /\ HistoryInv /\ [CaptureStep]_vars => (TypeInv /\ HistoryInv)'
  BY TypeNext, HistoryNext
<1>3. TypeInv /\ HistoryInv => BoundaryTold
  BY BoundaryHolds
<1> QED BY <1>1, <1>2, <1>3, PTL DEF Spec
----------------------------------------------------------------------------
(* What an undisturbed capture holds *)

Members(q) == {q[i] : i \in 1..Len(q)}
Cap == Members(Events(written)) \cup Members(spawnQueue) \cup Members(probeQueue)
Rises(q) == \A i, j \in 1..Len(q) : i < j => q[i].seq < q[j].seq
Below(q, r) == \A i \in 1..Len(q), j \in 1..Len(r) : q[i].seq < r[j].seq

(* What is written rises, and so does each queue, above it. *)
Ordered ==
    /\ Rises(Events(written)) /\ Rises(spawnQueue) /\ Rises(probeQueue)
    /\ Below(Events(written), spawnQueue) /\ Below(Events(written), probeQueue)
    /\ \A i \in 1..Len(spawnQueue), j \in 1..Len(probeQueue) : spawnQueue[i].seq # probeQueue[j].seq
    /\ \A e \in Cap : e.seq < nextSequence
    /\ \A i \in 1..Len(spawnQueue) : spawnQueue[i].kind = "init"
    /\ \A i \in 1..Len(probeQueue) : probeQueue[i].kind # "init"
    /\ ~probes => \A e \in Cap : e.kind = "init"

(* The running initializers are numbered as they nest. *)
Nesting ==
    /\ \A k \in 1..Len(stack) :
         /\ stack[k].inv > 0 /\ stack[k].inv < nextInvocation
         /\ stack[k].depth = k - 1
         /\ k = 1 => stack[k].parent = 0
         /\ \A j \in 1..(k - 1) : stack[j].inv < stack[k].inv /\ (j = k - 1 => stack[k].parent = stack[j].inv)

(* Every initializer was captured once or is running. *)
Entered ==
    /\ \A e \in Cap : e.kind = "init" =>
         /\ e.inv > 0 /\ e.inv < nextInvocation
         /\ \A k \in 1..Len(stack) : stack[k].inv # e.inv
         /\ \A f \in Cap : f.kind = "init" /\ f.inv = e.inv => f = e
    /\ \A n \in 1..(nextInvocation - 1) :
         (\E e \in Cap : e.kind = "init" /\ e.inv = n) \/ \E k \in 1..Len(stack) : stack[k].inv = n

(* The validator's open initializers are the running ones it has heard of. *)
Popped(q) == Nested(q)[Len(q)]
Owed(end, running, next) ==
    /\ end.ok /\ end.next > 0 /\ end.next <= next
    /\ Len(running) = Len(end.open) + (next - end.next)
    /\ \A k \in 1..Len(running) :
         running[k].inv = IF k <= Len(end.open) THEN end.open[k] ELSE end.next + (k - Len(end.open)) - 1
NestOwed == Owed(Popped(Events(written) \o spawnQueue), stack, nextInvocation)

(* A recycled slot's candidate and commit come together. *)
Paired ==
    /\ \A c \in Cap : c.kind = "commit" =>
         c.ref = c.seq - 1 /\ \E d \in Cap : d.kind = "candidate" /\ d.seq = c.ref /\ d.z = c.z
    /\ \A d \in Cap : d.kind = "candidate" => \E c \in Cap : c.kind = "commit" /\ c.ref = d.seq

(* A close without a fault tells that it is healthy and gives its receipt. *)
Announced ==
    /\ phase # "stopped"
    /\ notes \subseteq {"probes_closed"}
    /\ block.enabled <=> probes
    /\ phase # "closed" => receipt = {}
    /\ phase = "closed" =>
         /\ receipt = {[session |-> Session, records |-> written, block |-> block, healthy |-> TRUE]}
         /\ spawnQueue = <<>> /\ probeQueue = <<>> /\ stack = <<>>
         /\ probes => block.final /\ block.healthy /\ "probes_closed" \in notes

Sound == /\ Ordered /\ Nesting /\ Entered /\ NestOwed /\ Paired
         /\ \A e \in Cap : EventFits(e)
SoundInv == faults = {} => Sound /\ Announced

(* Members of joined queues, and of a longer one. *)
LEMMA MembersJoined ==
    ASSUME NEW S, NEW a \in Seq(S), NEW b \in Seq(S)
    PROVE  Members(a \o b) = Members(a) \cup Members(b)
<1> DEFINE c == a \o b
<1>1. /\ Len(c) = Len(a) + Len(b) /\ Len(a) \in Nat /\ Len(b) \in Nat
      /\ \A i \in 1..Len(a) : c[i] = a[i]
      /\ \A i \in 1..Len(b) : c[Len(a) + i] = b[i]
      /\ \A i \in 1..Len(c) : \/ i \in 1..Len(a) /\ c[i] = a[i]
                              \/ i - Len(a) \in 1..Len(b) /\ c[i] = b[i - Len(a)]
  BY Joined
<1> HIDE DEF c
<1>2. ASSUME NEW x \in Members(c) PROVE x \in Members(a) \cup Members(b)
  <2>1. PICK i \in 1..Len(c) : x = c[i]
    BY DEF Members
  <2>2. CASE i \in 1..Len(a) /\ c[i] = a[i]
    BY <2>1, <2>2 DEF Members
  <2>3. CASE i - Len(a) \in 1..Len(b) /\ c[i] = b[i - Len(a)]
    BY <2>1, <2>3 DEF Members
  <2> QED BY <1>1, <2>2, <2>3
<1>3. ASSUME NEW x \in Members(a) PROVE x \in Members(c)
  <2>1. PICK i \in 1..Len(a) : x = a[i]
    BY DEF Members
  <2>2. i \in 1..Len(c)
    BY <1>1
  <2> QED BY <1>1, <2>1, <2>2 DEF Members
<1>4. ASSUME NEW x \in Members(b) PROVE x \in Members(c)
  <2>1. PICK i \in 1..Len(b) : x = b[i]
    BY DEF Members
  <2>2. Len(a) + i \in 1..Len(c)
    BY <1>1
  <2> QED BY <1>1, <2>1, <2>2 DEF Members
<1> QED BY <1>2, <1>3, <1>4 DEF c

(* Joined queues rise when both rise and one is below the other. *)
LEMMA RisesJoined ==
    ASSUME NEW S, NEW a \in Seq(S), NEW b \in Seq(S), Rises(a), Rises(b), Below(a, b)
    PROVE  Rises(a \o b)
<1> DEFINE c == a \o b  n == Len(a)
<1>1. /\ Len(c) = n + Len(b) /\ n \in Nat /\ Len(b) \in Nat
      /\ \A i \in 1..Len(c) : \/ i \in 1..n /\ c[i] = a[i]
                              \/ i - n \in 1..Len(b) /\ c[i] = b[i - n]
  BY Joined
<1>2. SUFFICES ASSUME NEW i \in 1..Len(c), NEW j \in 1..Len(c), i < j PROVE c[i].seq < c[j].seq
  BY DEF Rises
<1>0. n = Len(a)
  OBVIOUS
<1> HIDE DEF c, n
<1>3. CASE i \in 1..n /\ c[i] = a[i] /\ j \in 1..n /\ c[j] = a[j]
  BY <1>0, <1>2, <1>3 DEF Rises
<1>4. CASE i \in 1..n /\ c[i] = a[i] /\ j - n \in 1..Len(b) /\ c[j] = b[j - n]
  BY <1>0, <1>4 DEF Below
<1>5. CASE i - n \in 1..Len(b) /\ c[i] = b[i - n] /\ j - n \in 1..Len(b) /\ c[j] = b[j - n]
  <2>1. i - n < j - n
    BY <1>1, <1>2
  <2> QED BY <1>5, <2>1 DEF Rises
<1>6. ~(i - n \in 1..Len(b) /\ j \in 1..n)
  BY <1>1, <1>2
<1> QED BY <1>1, <1>3, <1>4, <1>5, <1>6

----------------------------------------------------------------------------
(* The validator's stack *)

States == [open : Seq(Nat), next : Nat, ok : BOOLEAN]
NothingOpen == [open |-> <<>>, next |-> 1, ok |-> TRUE]
Behind(was, x) == IF x.inv >= was.next THEN x.inv - was.next + 1 ELSE 0
Opened(was, x) == was.open \o [k \in 1..Behind(was, x) |-> was.next + k - 1]
Fitting(was, x) ==
    /\ was.ok
    /\ Opened(was, x) # <<>> /\ Len(Opened(was, x)) <= DepthLimit
    /\ Last(Opened(was, x)) = x.inv
    /\ x.depth = Len(Opened(was, x)) - 1
    /\ x.parent = (IF Len(Opened(was, x)) > 1 THEN Opened(was, x)[Len(Opened(was, x)) - 1] ELSE 0)

(* The open initializers when an exit is read. *)
LEMMA OpenedType ==
    ASSUME NEW was \in States, NEW x \in Event
    PROVE  /\ Behind(was, x) \in Nat
           /\ Opened(was, x) \in Seq(Nat) /\ Len(Opened(was, x)) = Len(was.open) + Behind(was, x)
           /\ \A k \in 1..Len(was.open) : Opened(was, x)[k] = was.open[k]
           /\ \A k \in 1..Behind(was, x) : Opened(was, x)[Len(was.open) + k] = was.next + k - 1
<1>1. was.open \in Seq(Nat) /\ was.next \in Nat /\ x.inv \in Nat
  BY DEF States, Event
<1>2. Behind(was, x) \in Nat
  BY <1>1 DEF Behind
<1> DEFINE m == Behind(was, x)
           more == [k \in 1..m |-> was.next + k - 1]
<1>3. more \in Seq(Nat) /\ Len(more) = m /\ \A k \in 1..m : more[k] = was.next + k - 1
  <2>1. m \in Nat
    BY <1>2
  <2> HIDE DEF m
  <2>2. \A k \in 1..m : was.next + k - 1 \in Nat
    BY <1>1, <2>1
  <2> QED BY <2>1, <2>2
<1>4. Opened(was, x) = was.open \o more
  BY DEF Opened
<1>5. m = Behind(was, x) /\ m \in Nat
  BY <1>2
<1> HIDE DEF more, m
<1>6. /\ was.open \o more \in Seq(Nat) /\ Len(was.open \o more) = Len(was.open) + Len(more)
      /\ \A k \in 1..Len(was.open) : (was.open \o more)[k] = was.open[k]
      /\ \A k \in 1..Len(more) : (was.open \o more)[Len(was.open) + k] = more[k]
  <2> DEFINE D == Nat  a == was.open
  <2>1. a \in Seq(D) /\ more \in Seq(D)
    BY <1>1, <1>3
  <2> HIDE DEF D, a
  <2>2. /\ a \o more \in Seq(D) /\ Len(a \o more) = Len(a) + Len(more)
        /\ \A k \in 1..Len(a) : (a \o more)[k] = a[k]
        /\ \A k \in 1..Len(more) : (a \o more)[Len(a) + k] = more[k]
    BY <2>1, Joined
  <2> QED BY <2>2 DEF D, a
<1> QED BY <1>3, <1>4, <1>5, <1>6

(* What an exit leaves open. *)
LEMMA ExitedIs ==
    ASSUME NEW was \in States, NEW x \in Event
    PROVE  /\ Exited(was, x) \in States
           /\ Fitting(was, x) => /\ Exited(was, x).ok
                                 /\ Exited(was, x).open = Front(Opened(was, x))
                                 /\ Exited(was, x).next = was.next + Behind(was, x)
           /\ Exited(was, x).ok => was.ok
<1> DEFINE entered == [k \in 1..Behind(was, x) |-> was.next + k - 1]
           good == [open |-> Front(Opened(was, x)), next |-> was.next + Len(entered), ok |-> TRUE]
           bad == [was EXCEPT !.ok = FALSE]
<1>1. Exited(was, x) = IF Fitting(was, x) THEN good ELSE bad
  BY DEF Exited, Fitting, Opened, Behind
<1>2. /\ Behind(was, x) \in Nat /\ Opened(was, x) \in Seq(Nat) /\ was.next \in Nat /\ was.open \in Seq(Nat)
      /\ was.ok \in BOOLEAN
  BY OpenedType DEF States
<1>3. Len(entered) = Behind(was, x)
  <2> DEFINE m == Behind(was, x)
  <2>1. m \in Nat
    BY <1>2
  <2> HIDE DEF m
  <2>2. Len([k \in 1..m |-> was.next + k - 1]) = m
    BY <2>1
  <2> QED BY <2>2 DEF m
<1>4. bad \in States /\ ~bad.ok
  BY DEF States
<1>5. ASSUME Fitting(was, x) PROVE good \in States
  <2> DEFINE o == Opened(was, x)
  <2>1. o # <<>> /\ o \in Seq(Nat)
    BY <1>2, <1>5 DEF Fitting
  <2> HIDE DEF o
  <2>2. Front(o) \in Seq(Nat)
    <3>1. Len(o) - 1 \in 0..Len(o)
      BY <2>1
    <3> QED BY <2>1, <3>1, PrefixOf DEF Front
  <2>3. was.next + Len(entered) \in Nat
    BY <1>2, <1>3
  <2> QED BY <2>2, <2>3 DEF o, States
<1>6. CASE Fitting(was, x)
  <2>1. Exited(was, x) = good
    BY <1>1, <1>6
  <2>2. good.ok /\ good.open = Front(Opened(was, x)) /\ good.next = was.next + Behind(was, x)
    BY <1>3
  <2>3. was.ok
    BY <1>6 DEF Fitting
  <2> QED BY <1>5, <1>6, <2>1, <2>2, <2>3
<1>7. CASE ~Fitting(was, x)
  BY <1>1, <1>4, <1>7
<1> QED BY <1>6, <1>7
Goes(was, x) == IF x.kind = "init" THEN Exited(was, x) ELSE was

(* The fold of the exits, event by event. *)
LEMMA NestedFold ==
    ASSUME NEW events \in Seq(Event)
    PROVE  /\ Nested(events)[0] = NothingOpen
           /\ \A i \in 1..Len(events) : Nested(events)[i] = Goes(Nested(events)[i - 1], events[i])
           /\ \A i \in 0..Len(events) : Nested(events)[i] \in States
<1> DEFINE n == Len(events)
           step == [i \in 1..n |-> [was \in States |-> Goes(was, events[i])]]
<1>1. n \in Nat
  OBVIOUS
<1>2. NothingOpen \in States
  <2>1. <<>> \in Seq(Nat)
    OBVIOUS
  <2> QED BY <2>1 DEF NothingOpen, States
<1>3. ASSUME NEW i \in 1..n, NEW was \in States PROVE Goes(was, events[i]) \in States
  <2>1. events[i] \in Event
    OBVIOUS
  <2> QED BY <2>1, ExitedIs DEF Goes
<1>4. step \in [1..n -> [States -> States]]
  BY <1>3
<1>5. PICK f \in [0..n -> States] : f[0] = NothingOpen /\ \A i \in 1..n : f[i] = step[i][f[i - 1]]
  <2> HIDE DEF step, n
  <2>1. Reaches(n, States, NothingOpen, step)
    BY <1>1, <1>2, <1>4, Recursion
  <2> QED BY <2>1 DEF Reaches
<1>6. ASSUME NEW i \in 1..n PROVE f[i] = Goes(f[i - 1], events[i])
  <2>1. i - 1 \in 0..n
    BY <1>1
  <2>2. f[i - 1] \in States
    BY <1>5, <2>1
  <2> QED BY <1>5, <2>2
<1> HIDE DEF step
<1> DEFINE Body(g) == [i \in 0..n |->
               IF i = 0 THEN [open |-> <<>>, next |-> 1, ok |-> TRUE]
               ELSE IF events[i].kind = "init" THEN Exited(g[i - 1], events[i])
               ELSE g[i - 1]]
<1>7. \A g : g = Body(g) => Nested(events) = Body(Nested(events))
  BY DEF Nested
<1>8. f = Body(f)
  <2>1. ASSUME NEW i \in 0..n
        PROVE  f[i] = IF i = 0 THEN [open |-> <<>>, next |-> 1, ok |-> TRUE]
                      ELSE IF events[i].kind = "init" THEN Exited(f[i - 1], events[i])
                      ELSE f[i - 1]
    <3>1. CASE i = 0
      BY <1>5, <3>1 DEF NothingOpen
    <3>2. CASE i # 0
      <4>1. i \in 1..n
        BY <3>2
      <4> QED BY <1>6, <3>2, <4>1 DEF Goes
    <3> QED BY <3>1, <3>2
  <2> QED BY <1>5, <2>1
<1>9. Nested(events) = Body(Nested(events))
  BY <1>7, <1>8
<1>10. Nested(events)[0] = NothingOpen
  BY <1>1, <1>9 DEF NothingOpen
<1>11. ASSUME NEW i \in 1..n PROVE Nested(events)[i] = Goes(Nested(events)[i - 1], events[i])
  <2>1. i \in 0..n /\ i # 0
    BY <1>1
  <2> HIDE DEF n
  <2> QED BY <1>9, <2>1 DEF Goes
<1>12. \A i \in 0..n : Nested(events)[i] \in States
  <2> DEFINE T == {i \in 0..n : Nested(events)[i] \in States}
  <2>1. 0 \in T
    BY <1>1, <1>2, <1>10
  <2>2. ASSUME NEW i \in 0..(n - 1), i \in T PROVE i + 1 \in T
    <3>1. i + 1 \in 1..n /\ (i + 1) - 1 = i
      BY <1>1
    <3> HIDE DEF n
    <3>2. Nested(events)[i + 1] = Goes(Nested(events)[i], events[i + 1])
      BY <1>11, <3>1
    <3> QED BY <1>3, <2>2, <3>1, <3>2
  <2> HIDE DEF T
  <2>3. \A i \in 0..n : i \in T
    BY <1>1, <2>1, <2>2, UpTo
  <2> QED BY <2>3 DEF T
<1> QED BY <1>10, <1>11, <1>12

(* What follows does not change what was open. *)
LEMMA NestedPrefix ==
    ASSUME NEW a \in Seq(Event), NEW b \in Seq(Event), NEW n \in Nat, n <= Len(a), n <= Len(b),
           \A i \in 1..n : a[i] = b[i]
    PROVE  Nested(a)[n] = Nested(b)[n]
<1> DEFINE T == {i \in 0..n : Nested(a)[i] = Nested(b)[i]}
<1>1. 0 \in T
  BY NestedFold
<1>2. ASSUME NEW i \in 0..(n - 1), i \in T PROVE i + 1 \in T
  <2>1. i + 1 \in 1..n /\ (i + 1) - 1 = i /\ i + 1 \in 1..Len(a) /\ i + 1 \in 1..Len(b)
    OBVIOUS
  <2>2. /\ Nested(a)[i + 1] = Goes(Nested(a)[i], a[i + 1])
        /\ Nested(b)[i + 1] = Goes(Nested(b)[i], b[i + 1])
    BY <2>1, NestedFold
  <2> QED BY <1>2, <2>1, <2>2
<1> HIDE DEF T
<1>3. \A i \in 0..n : i \in T
  BY <1>1, <1>2, UpTo
<1> QED BY <1>3 DEF T

(* One misfit spoils all that follows. *)
LEMMA NestedOk ==
    ASSUME NEW a \in Seq(Event), NEW n \in Nat, n <= Len(a), Nested(a)[Len(a)].ok
    PROVE  Nested(a)[n].ok
<1> DEFINE m == Len(a) - n
           T == {i \in 0..m : Nested(a)[Len(a) - i].ok}
<1>0. m \in Nat /\ Len(a) \in Nat
  OBVIOUS
<1>1. 0 \in T
  OBVIOUS
<1>2. ASSUME NEW i \in 0..(m - 1), i \in T PROVE i + 1 \in T
  <2> DEFINE k == Len(a) - i
  <2>1. k \in 1..Len(a) /\ k - 1 = Len(a) - (i + 1) /\ k - 1 \in 0..Len(a) /\ i + 1 \in 0..m
    BY <1>0
  <2>2. Nested(a)[k].ok
    BY <1>2
  <2> HIDE DEF k, m
  <2>3. Nested(a)[k] = Goes(Nested(a)[k - 1], a[k]) /\ Nested(a)[k - 1] \in States /\ a[k] \in Event
    BY <2>1, NestedFold
  <2>4. Nested(a)[k - 1].ok
    BY <2>2, <2>3, ExitedIs DEF Goes
  <2> QED BY <2>1, <2>4
<1> HIDE DEF T
<1>3. \A i \in 0..m : i \in T
  <2> HIDE DEF m
  <2> QED BY <1>0, <1>1, <1>2, UpTo
<1>4. m \in 0..m /\ Len(a) - m = n
  BY <1>0
<1> HIDE DEF m
<1> QED BY <1>3, <1>4 DEF T
----------------------------------------------------------------------------
(* A drain of an undisturbed capture *)

(* How the merged queue takes its records from the two. *)
Sorting(p, es) ==
    /\ p \in [1..Len(es) -> 1..Len(es)]
    /\ Len(Merged) = Len(es)
    /\ \A k \in 1..Len(es) : Merged[k] = es[p[k]]
    /\ \A i \in 1..Len(es) : \E k \in 1..Len(es) : p[k] = i
    /\ \A k, l \in 1..Len(es) : k < l => es[p[k]].seq < es[p[l]].seq

(* Facts of the two queues have different sequences, which sort them. *)
LEMMA MergedSorts ==
    ASSUME CaptureType, Ordered
    PROVE  \E p : Sorting(p, spawnQueue \o probeQueue)
<1> DEFINE es == spawnQueue \o probeQueue  n == Len(spawnQueue)
<1>1. es \in Seq(Event) /\ Len(Merged) = n + Len(probeQueue) /\ Merged = InOrder(es)
  BY MergedType DEF Merged
<1>2. /\ Len(es) = n + Len(probeQueue) /\ n \in Nat /\ Len(probeQueue) \in Nat
      /\ \A i \in 1..Len(es) : \/ i \in 1..n /\ es[i] = spawnQueue[i]
                               \/ i - n \in 1..Len(probeQueue) /\ es[i] = probeQueue[i - n]
  <2>1. spawnQueue \in Seq(Event) /\ probeQueue \in Seq(Event)
    BY DEF CaptureType
  <2> QED BY <2>1, Joined
<1>0. n = Len(spawnQueue)
  OBVIOUS
<1> HIDE DEF es, n
<1>3. \A i \in 1..Len(es) : es[i].seq \in Nat
  <2>1. \A i \in 1..Len(es) : es[i] \in Event
    BY <1>1
  <2> QED BY <2>1 DEF Event
<1>4. ASSUME NEW i \in 1..Len(es), NEW j \in 1..Len(es), i < j PROVE es[i].seq # es[j].seq
  <2>1. CASE j \in 1..n /\ es[j] = spawnQueue[j]
    <3>1. i \in 1..n /\ es[i] = spawnQueue[i]
      BY <1>2, <1>4, <2>1
    <3>2. es[i].seq < es[j].seq
      BY <1>0, <1>4, <2>1, <3>1 DEF Ordered, Rises
    <3> QED BY <1>3, <3>2
  <2>2. CASE j - n \in 1..Len(probeQueue) /\ es[j] = probeQueue[j - n]
    <3>1. CASE i \in 1..n /\ es[i] = spawnQueue[i]
      BY <1>0, <2>2, <3>1 DEF Ordered
    <3>2. CASE i - n \in 1..Len(probeQueue) /\ es[i] = probeQueue[i - n]
      <4>1. i - n < j - n
        BY <1>2, <1>4
      <4>2. es[i].seq < es[j].seq
        BY <2>2, <3>2, <4>1 DEF Ordered, Rises
      <4> QED BY <1>3, <4>2
    <3> QED BY <1>2, <3>1, <3>2
  <2> QED BY <1>2, <2>1, <2>2
<1>5. PICK p \in [1..Len(es) -> 1..Len(es)] :
          /\ InOrder(es) = [k \in 1..Len(es) |-> es[p[k]]]
          /\ \A i \in 1..Len(es) : \E k \in 1..Len(es) : p[k] = i
          /\ \A k, l \in 1..Len(es) : k < l => Precedes(es, p[k], p[l])
  BY <1>1, <1>3, InOrderSorts
<1>6. ASSUME NEW k \in 1..Len(es), NEW l \in 1..Len(es), k < l PROVE es[p[k]].seq < es[p[l]].seq
  <2>1. es[p[k]].seq < es[p[l]].seq \/ (es[p[k]].seq = es[p[l]].seq /\ p[k] < p[l])
    BY <1>5, <1>6 DEF Precedes
  <2>2. p[k] \in 1..Len(es) /\ p[l] \in 1..Len(es)
    BY <1>5
  <2> QED BY <1>4, <2>1, <2>2
<1>7. Sorting(p, es)
  BY <1>1, <1>2, <1>5, <1>6 DEF Sorting
<1> QED BY <1>7 DEF es

(* The merged queue rises above what is written, and holds both queues. *)
LEMMA MergedRises ==
    ASSUME TypeInv, Ordered
    PROVE  /\ Merged \in Seq(Event) /\ Events(written) \in Seq(Event)
           /\ Members(Merged) = Members(spawnQueue) \cup Members(probeQueue)
           /\ Rises(Events(written) \o Merged)
<1> DEFINE es == spawnQueue \o probeQueue  W == Events(written)
<1>1. /\ spawnQueue \in Seq(Event) /\ probeQueue \in Seq(Event) /\ written \in Seq(Line) /\ CaptureType
  BY DEF TypeInv, CaptureType, FilesType
<1>2. es \in Seq(Event) /\ Merged \in Seq(Event) /\ W \in Seq(Event)
  BY <1>1, MergedType, EventsOf
<1>3. Members(es) = Members(spawnQueue) \cup Members(probeQueue)
  BY <1>1, MembersJoined
<1>4. PICK p : Sorting(p, es)
  BY <1>1, MergedSorts
<1> HIDE DEF es, W
<1>5. Members(Merged) = Members(es)
  <2>1. ASSUME NEW x \in Members(Merged) PROVE x \in Members(es)
    <3>1. PICK k \in 1..Len(Merged) : x = Merged[k]
      BY DEF Members
    <3>2. p[k] \in 1..Len(es) /\ x = es[p[k]]
      BY <1>4, <3>1 DEF Sorting
    <3> QED BY <3>2 DEF Members
  <2>2. ASSUME NEW x \in Members(es) PROVE x \in Members(Merged)
    <3>1. PICK i \in 1..Len(es) : x = es[i]
      BY DEF Members
    <3>2. PICK k \in 1..Len(es) : p[k] = i
      BY <1>4 DEF Sorting
    <3>3. k \in 1..Len(Merged) /\ x = Merged[k]
      BY <1>4, <3>1, <3>2 DEF Sorting
    <3> QED BY <3>3 DEF Members
  <2> QED BY <2>1, <2>2
<1>6. Rises(Merged)
  <2>1. SUFFICES ASSUME NEW k \in 1..Len(Merged), NEW l \in 1..Len(Merged), k < l
                 PROVE  Merged[k].seq < Merged[l].seq
    BY DEF Rises
  <2>2. k \in 1..Len(es) /\ l \in 1..Len(es)
    BY <1>4 DEF Sorting
  <2>3. Merged[k] = es[p[k]] /\ Merged[l] = es[p[l]] /\ es[p[k]].seq < es[p[l]].seq
    BY <1>4, <2>1, <2>2 DEF Sorting
  <2> QED BY <2>3
<1>7. Below(W, Merged)
  <2>1. SUFFICES ASSUME NEW i \in 1..Len(W), NEW j \in 1..Len(Merged) PROVE W[i].seq < Merged[j].seq
    BY DEF Below
  <2>2. Merged[j] \in Members(Merged)
    BY DEF Members
  <2>3. Merged[j] \in Members(spawnQueue) \/ Merged[j] \in Members(probeQueue)
    BY <1>3, <1>5, <2>2
  <2>4. CASE Merged[j] \in Members(spawnQueue)
    <3>1. PICK l \in 1..Len(spawnQueue) : Merged[j] = spawnQueue[l]
      BY <2>4 DEF Members
    <3> QED BY <3>1 DEF Ordered, Below, W
  <2>5. CASE Merged[j] \in Members(probeQueue)
    <3>1. PICK l \in 1..Len(probeQueue) : Merged[j] = probeQueue[l]
      BY <2>5 DEF Members
    <3> QED BY <3>1 DEF Ordered, Below, W
  <2> QED BY <2>3, <2>4, <2>5
<1>8. Rises(W)
  BY DEF Ordered, W
<1>9. Rises(W \o Merged)
  BY <1>2, <1>6, <1>7, <1>8, RisesJoined
<1> QED BY <1>2, <1>3, <1>5, <1>9 DEF W

(* A drain then writes all, and forgets nothing. *)
LEMMA DrainKeeps ==
    ASSUME TypeInv, Ordered, Recorded
    PROVE  /\ Rising(Merged)
           /\ Events(written)' = Events(written) \o Merged
           /\ Cap' = Cap /\ Ordered'
<1> DEFINE W == Events(written)  all == W \o Merged
<1>1. /\ Merged \in Seq(Event) /\ W \in Seq(Event) /\ Rises(all)
      /\ Members(Merged) = Members(spawnQueue) \cup Members(probeQueue)
  BY MergedRises
<1>2. all \in Seq(Event) /\ Len(all) = Len(W) + Len(Merged)
  BY <1>1
<1>3. Rising(Merged)
  <2> HIDE DEF all
  <2>1. ASSUME NEW i \in 1..(Len(all) - 1) PROVE all[i].seq < all[i + 1].seq
    <3>1. i \in 1..Len(all) /\ i + 1 \in 1..Len(all) /\ i < i + 1
      BY <1>2
    <3> QED BY <1>1, <3>1 DEF Rises
  <2> QED BY <2>1 DEF Rising, all
<1>4. written' = written \o Enveloped(Merged)
  BY <1>3 DEF Recorded
<1>5. Events(written)' = all
  <2> DEFINE more == Enveloped(Merged)  later == written \o more
  <2>0. FilesType /\ written \in Seq(Line)
    BY DEF TypeInv, FilesType
  <2>1. /\ more \in Seq(Line) /\ Len(more) = Len(Merged)
        /\ \A i \in 1..Len(Merged) : more[i].event = Merged[i]
    BY <1>1, <2>0, EnvelopedType
  <2>2. written' = later
    BY <1>4
  <2> HIDE DEF more
  <2>3. /\ later \in Seq(Line) /\ Len(later) = Len(written) + Len(more)
        /\ \A i \in 1..Len(later) : \/ i \in 1..Len(written) /\ later[i] = written[i]
                                    \/ i - Len(written) \in 1..Len(more) /\ later[i] = more[i - Len(written)]
    <3> DEFINE a == written
    <3>1. a \in Seq(Line) /\ more \in Seq(Line) /\ later = a \o more
      BY <2>0, <2>1
    <3> HIDE DEF a, later
    <3>2. /\ a \o more \in Seq(Line) /\ Len(a \o more) = Len(a) + Len(more)
          /\ \A i \in 1..Len(a \o more) :
                \/ i \in 1..Len(a) /\ (a \o more)[i] = a[i]
                \/ i - Len(a) \in 1..Len(more) /\ (a \o more)[i] = more[i - Len(a)]
      BY <3>1, Joined
    <3> QED BY <3>1, <3>2 DEF a
  <2> HIDE DEF later
  <2>4. /\ Events(later) \in Seq(Event) /\ Len(Events(later)) = Len(later)
        /\ \A i \in 1..Len(later) : Events(later)[i] = later[i].event
        /\ Len(W) = Len(written)
        /\ \A i \in 1..Len(written) : W[i] = written[i].event
    BY <2>0, <2>3, EventsOf
  <2>5. /\ Len(all) = Len(W) + Len(Merged) /\ Len(W) \in Nat /\ Len(Merged) \in Nat
        /\ \A i \in 1..Len(W) : all[i] = W[i]
        /\ \A i \in 1..Len(Merged) : all[Len(W) + i] = Merged[i]
    BY <1>1, Joined
  <2> HIDE DEF all, W
  <2>6. ASSUME NEW i \in 1..Len(later) PROVE Events(later)[i] = all[i]
    <3>1. CASE i \in 1..Len(written) /\ later[i] = written[i]
      BY <2>4, <2>5, <3>1
    <3>2. CASE i - Len(written) \in 1..Len(more) /\ later[i] = more[i - Len(written)]
      <4> DEFINE j == i - Len(written)
      <4>1. j \in 1..Len(Merged) /\ later[i] = more[j] /\ i = Len(W) + j
        BY <2>1, <2>4, <2>5, <3>2
      <4> HIDE DEF j
      <4> QED BY <2>1, <2>4, <2>5, <4>1
    <3> QED BY <2>3, <3>1, <3>2
  <2>7. Events(later) = all
    <3>1. Len(Events(later)) = Len(all) /\ all \in Seq(Event)
      BY <1>2, <2>1, <2>3, <2>4, <2>5
    <3> QED BY <2>4, <2>6, <3>1
  <2> QED BY <2>2, <2>7
<1>6. spawnQueue' = <<>> /\ probeQueue' = <<>> /\ UNCHANGED <<nextSequence, probes>>
  BY DEF Recorded
<1>7. Members(all) = Members(W) \cup Members(Merged)
  BY <1>1, MembersJoined
<1>8. Cap' = Cap
  <2>1. Members(<<>>) = {}
    BY DEF Members
  <2>2. Cap' = Members(all)
    BY <1>5, <1>6, <2>1 DEF Cap
  <2> QED BY <1>1, <1>7, <2>2 DEF Cap
<1>9. Ordered'
  <2> HIDE DEF all
  <2>1. Len(<<>>) = 0 /\ Rises(<<>>) /\ Below(all, <<>>)
    BY DEF Rises, Below
  <2>2. Rises(Events(written))' /\ Rises(spawnQueue)' /\ Rises(probeQueue)'
    BY <1>1, <1>5, <1>6, <2>1
  <2>3. Below(Events(written), spawnQueue)' /\ Below(Events(written), probeQueue)'
    BY <1>5, <1>6, <2>1
  <2>4. (\A e \in Cap : e.seq < nextSequence)' /\ (~probes => \A e \in Cap : e.kind = "init")'
    BY <1>6, <1>8 DEF Ordered
  <2>5. 1..Len(spawnQueue') = {} /\ 1..Len(probeQueue') = {}
    BY <1>6, <2>1
  <2> QED BY <2>2, <2>3, <2>4, <2>5 DEF Ordered
<1> QED BY <1>3, <1>5, <1>8, <1>9
(* The first k of the merged records hold the first c initializations. *)
Taken(p, k, c) ==
    \A l \in 1..Len(spawnQueue) : l <= c <=> \E m \in 1..k : p[m] = l

(* The records that are no initializations do not change what is open. *)
LEMMA MergedNests ==
    ASSUME TypeInv, Ordered
    PROVE  Popped(Events(written) \o Merged) = Popped(Events(written) \o spawnQueue)
<1> DEFINE W == Events(written)  n == Len(W)  q == Len(spawnQueue)
           es == spawnQueue \o probeQueue
           x == W \o Merged  y == W \o spawnQueue
<1>1. /\ spawnQueue \in Seq(Event) /\ probeQueue \in Seq(Event) /\ CaptureType
      /\ W \in Seq(Event) /\ Merged \in Seq(Event)
  BY MergedRises DEF TypeInv, CaptureType
<1>2. /\ x \in Seq(Event) /\ Len(x) = n + Len(Merged)
      /\ \A i \in 1..n : x[i] = W[i]
      /\ \A i \in 1..Len(Merged) : x[n + i] = Merged[i]
  BY <1>1, Joined
<1>3. /\ y \in Seq(Event) /\ Len(y) = n + q
      /\ \A i \in 1..n : y[i] = W[i]
      /\ \A i \in 1..q : y[n + i] = spawnQueue[i]
  BY <1>1, Joined
<1>4. /\ Len(es) = q + Len(probeQueue) /\ q \in Nat /\ Len(probeQueue) \in Nat /\ n \in Nat
      /\ \A i \in 1..q : es[i] = spawnQueue[i]
      /\ \A i \in 1..Len(es) : \/ i \in 1..q /\ es[i] = spawnQueue[i]
                               \/ i - q \in 1..Len(probeQueue) /\ es[i] = probeQueue[i - q]
  BY <1>1, Joined
<1>5. PICK p : Sorting(p, es)
  BY <1>1, MergedSorts
<1>6. /\ \A i \in 1..q : spawnQueue[i].kind = "init"
      /\ \A i \in 1..Len(probeQueue) : probeQueue[i].kind # "init"
  BY DEF Ordered
<1>7. /\ p \in [1..Len(es) -> 1..Len(es)] /\ Len(Merged) = Len(es)
      /\ \A k \in 1..Len(es) : Merged[k] = es[p[k]]
      /\ \A i \in 1..Len(es) : \E k \in 1..Len(es) : p[k] = i
      /\ \A k, l \in 1..Len(es) : k < l => es[p[k]].seq < es[p[l]].seq
  BY <1>5 DEF Sorting
<1>8. \A i \in 1..Len(es) : es[i].seq \in Nat
  <2>1. \A i \in 1..Len(spawnQueue) : spawnQueue[i] \in Event
    BY <1>1
  <2>2. \A i \in 1..Len(probeQueue) : probeQueue[i] \in Event
    BY <1>1
  <2> QED BY <1>4, <2>1, <2>2 DEF Event
<1> DEFINE N == Len(es)
           T == {k \in 0..N : \E c \in 0..q : Taken(p, k, c) /\ Nested(x)[n + k] = Nested(y)[n + c]}
<1>9. N \in Nat
  BY <1>4
<1>10. 0 \in T
  <2>1. Nested(x)[n] = Nested(y)[n]
    <3>1. n <= Len(x) /\ n <= Len(y) /\ \A i \in 1..n : x[i] = y[i]
      <4> HIDE DEF x, y, n, q
      <4> QED BY <1>2, <1>3, <1>4, <1>7
    <3> HIDE DEF x, y, n
    <3> QED BY <1>2, <1>3, <1>4, <3>1, NestedPrefix
  <2>2. Taken(p, 0, 0)
    BY <1>4 DEF Taken
  <2>3. n + 0 = n /\ 0 \in 0..q /\ 0 \in 0..N
    BY <1>4, <1>9
  <2> HIDE DEF x, y, n, q, N
  <2> QED BY <2>1, <2>2, <2>3
<1>11. ASSUME NEW k \in 0..(N - 1), k \in T PROVE k + 1 \in T
  <2>1. PICK c \in 0..q : Taken(p, k, c) /\ Nested(x)[n + k] = Nested(y)[n + c]
    BY <1>11
  <2>2. /\ k + 1 \in 1..Len(es) /\ k + 1 \in 0..N /\ k + 1 \in 1..Len(Merged)
        /\ n + k + 1 \in 1..Len(x) /\ (n + k + 1) - 1 = n + k /\ n + (k + 1) = n + k + 1
    BY <1>2, <1>4, <1>7, <1>9, SMTT(30)
  <2> DEFINE e == Merged[k + 1]  l == p[k + 1]
  <2>3. e = es[l] /\ l \in 1..Len(es) /\ x[n + k + 1] = e
    <3>1. e = es[l] /\ l \in 1..Len(es)
      BY <1>7, <2>2
    <3>2. x[n + (k + 1)] = e
      BY <1>2, <2>2
    <3>3. n + (k + 1) = n + k + 1
      BY <2>2
    <3> HIDE DEF x, n, e, l
    <3> QED BY <3>1, <3>2, <3>3
  <2>4. Nested(x)[n + (k + 1)] = Goes(Nested(x)[n + k], e)
    <3> HIDE DEF x, n, e
    <3> QED BY <1>2, <2>2, <2>3, NestedFold
  <2> HIDE DEF e, x
  <2>5. CASE l \in 1..q /\ es[l] = spawnQueue[l]
    <3>1. ~(l <= c)
      <4>1. SUFFICES ASSUME l <= c PROVE FALSE
        OBVIOUS
      <4>2. PICK m \in 1..k : p[m] = l
        BY <2>1, <2>5, <4>1 DEF Taken
      <4>3. m \in 1..Len(es) /\ m < k + 1
        BY <2>2
      <4>4. es[l].seq < es[l].seq
        BY <1>7, <2>2, <4>2, <4>3
      <4> QED BY <1>8, <2>3, <4>4
    <3>2. c + 1 \in 1..q /\ c + 1 \in 0..q
      BY <1>4, <2>5, <3>1
    <3>3. l = c + 1
      <4>1. SUFFICES ASSUME l # c + 1 PROVE FALSE
        OBVIOUS
      <4>2. c + 1 < l /\ c + 1 \in 1..Len(es)
        BY <1>4, <2>5, <3>1, <3>2, <4>1
      <4>3. PICK m \in 1..Len(es) : p[m] = c + 1
        BY <1>7, <4>2
      <4>4. ~(m \in 1..k)
        <5>1. SUFFICES ASSUME m \in 1..k PROVE FALSE
          OBVIOUS
        <5>2. c + 1 <= c
          BY <2>1, <3>2, <4>3, <5>1 DEF Taken
        <5> QED BY <5>2
      <4>5. m # k + 1
        BY <4>1, <4>3
      <4>6. k + 1 < m
        BY <4>4, <4>5, <2>2
      <4>7. es[l].seq < es[c + 1].seq
        BY <1>7, <2>2, <4>3, <4>6
      <4>8. spawnQueue[c + 1].seq < spawnQueue[l].seq
        BY <2>5, <3>2, <4>2 DEF Ordered, Rises
      <4>9. es[c + 1] = spawnQueue[c + 1] /\ es[c + 1].seq \in Nat /\ es[l].seq \in Nat
        BY <1>4, <1>8, <2>3, <3>2, <4>2
      <4> QED BY <2>5, <4>7, <4>8, <4>9
    <3>4. Taken(p, k + 1, c + 1)
      <4>1. SUFFICES ASSUME NEW j \in 1..Len(spawnQueue)
                     PROVE  j <= c + 1 <=> \E m \in 1..(k + 1) : p[m] = j
        BY DEF Taken
      <4>2. j <= c <=> \E m \in 1..k : p[m] = j
        BY <2>1 DEF Taken
      <4>3. j <= c + 1 <=> j <= c \/ j = c + 1
        BY <1>4
      <4>4. (\E m \in 1..(k + 1) : p[m] = j) <=> (\E m \in 1..k : p[m] = j) \/ p[k + 1] = j
        <5>1. \A m : m \in 1..(k + 1) <=> m \in 1..k \/ m = k + 1
          BY <2>2
        <5> QED BY <5>1
      <4> QED BY <3>3, <4>2, <4>3, <4>4
    <3>5. Nested(y)[n + (c + 1)] = Goes(Nested(y)[n + c], spawnQueue[c + 1])
      <4>1. n + c + 1 \in 1..Len(y) /\ (n + c + 1) - 1 = n + c /\ n + (c + 1) = n + c + 1
            /\ y[n + c + 1] = spawnQueue[c + 1]
        BY <1>3, <1>4, <3>2
      <4> HIDE DEF y, n
      <4> QED BY <1>3, <4>1, NestedFold
    <3>6. Nested(x)[n + (k + 1)] = Nested(y)[n + (c + 1)]
      BY <2>1, <2>3, <2>4, <2>5, <3>3, <3>5
    <3> HIDE DEF y, n, q, N
    <3> QED BY <2>2, <3>2, <3>4, <3>6
  <2>6. CASE l - q \in 1..Len(probeQueue) /\ es[l] = probeQueue[l - q]
    <3>1. e.kind # "init"
      BY <1>6, <2>3, <2>6
    <3>2. Nested(x)[n + (k + 1)] = Nested(y)[n + c]
      BY <2>1, <2>4, <3>1 DEF Goes
    <3>3. Taken(p, k + 1, c)
      <4>1. SUFFICES ASSUME NEW j \in 1..Len(spawnQueue)
                     PROVE  j <= c <=> \E m \in 1..(k + 1) : p[m] = j
        BY DEF Taken
      <4>2. j <= c <=> \E m \in 1..k : p[m] = j
        BY <2>1 DEF Taken
      <4>3. p[k + 1] # j
        BY <1>4, <2>6
      <4>4. (\E m \in 1..(k + 1) : p[m] = j) <=> (\E m \in 1..k : p[m] = j) \/ p[k + 1] = j
        <5>1. \A m : m \in 1..(k + 1) <=> m \in 1..k \/ m = k + 1
          BY <2>2
        <5> QED BY <5>1
      <4> QED BY <4>2, <4>3, <4>4
    <3> HIDE DEF y, n, q, N
    <3> QED BY <2>2, <3>2, <3>3
  <2> QED BY <1>4, <2>3, <2>5, <2>6
<1>12. N \in T
  <2> HIDE DEF T, N
  <2>1. \A k \in 0..N : k \in T
    BY <1>9, <1>10, <1>11, UpTo
  <2> QED BY <1>9, <2>1
<1>13. PICK c \in 0..q : Taken(p, N, c) /\ Nested(x)[n + N] = Nested(y)[n + c]
  BY <1>12
<1>14. c = q
  <2>1. SUFFICES ASSUME c # q PROVE FALSE
    OBVIOUS
  <2>2. q \in 1..Len(spawnQueue) /\ q \in 1..Len(es) /\ ~(q <= c)
    BY <1>4, <2>1
  <2>3. \E m \in 1..N : p[m] = q
    BY <1>7, <2>2
  <2> QED BY <1>13, <2>2, <2>3 DEF Taken
<1>15. Len(x) = n + N /\ Len(y) = n + q
  BY <1>2, <1>3, <1>7
<1> HIDE DEF x, y, n, q, N
<1> QED BY <1>13, <1>14, <1>15 DEF Popped, x, y
(* What was captured, and how it nests, when a queue is drained. *)
LEMMA SoundDrain ==
    ASSUME TypeInv, Sound, Recorded
    PROVE  Rising(Merged) /\ Sound'
<1>1. /\ Rising(Merged) /\ Cap' = Cap /\ Ordered'
      /\ Events(written)' = Events(written) \o Merged
  BY DrainKeeps DEF Sound
<1>2. UNCHANGED <<stack, nextInvocation>> /\ spawnQueue' = <<>>
  BY DEF Recorded
<1>3. Nesting' /\ Entered' /\ Paired' /\ (\A e \in Cap : EventFits(e))'
  <2>1. Nesting'
    BY <1>2 DEF Sound, Nesting
  <2>2. Entered'
    BY <1>1, <1>2 DEF Sound, Entered
  <2>3. Paired'
    BY <1>1 DEF Sound, Paired
  <2>4. (\A e \in Cap : EventFits(e))'
    BY <1>1 DEF Sound
  <2> QED BY <2>1, <2>2, <2>3, <2>4
<1>4. NestOwed'
  <2> DEFINE x == Events(written) \o Merged
  <2>1. Popped(x) = Popped(Events(written) \o spawnQueue)
    BY MergedNests DEF Sound
  <2>2. x \in Seq(Event) /\ x \o <<>> = x
    <3>1. x \in Seq(Event)
      BY MergedRises DEF Sound
    <3> HIDE DEF x
    <3> QED BY <3>1
  <2>3. Events(written)' \o spawnQueue' = x
    BY <1>1, <1>2, <2>2
  <2> DEFINE end == Popped(x)
  <2>4. Owed(end, stack, nextInvocation)
    BY <2>1 DEF Sound, NestOwed
  <2>5. Popped(Events(written) \o spawnQueue)' = end
    BY <2>3 DEF Popped
  <2> HIDE DEF end, x
  <2> QED BY <1>2, <2>4, <2>5 DEF NestOwed
<1> QED BY <1>1, <1>3, <1>4 DEF Sound

(* An entry opens the next initializer in the running ones. *)
LEMMA SoundEnter ==
    ASSUME TypeInv, Sound, NEW s \in Slots, NEW play \in BOOLEAN, Enter(s, play), faults' = {}
    PROVE  Sound'
<1> DEFINE L == Len(stack)
           item == [inv |-> IF L < NestLimit THEN nextInvocation ELSE 0, depth |-> L,
                    parent |-> IF stack = <<>> THEN 0 ELSE Last(stack).inv,
                    ver |-> boundary, z |-> Id(s), play |-> play]
<1>1. /\ stack \in Seq(Invocation) /\ L \in Nat /\ nextInvocation \in Nat \ {0}
      /\ stack' \in Seq(Invocation)
  BY EnterType DEF TypeInv, CaptureType
<1>2. /\ UNCHANGED <<written, spawnQueue, probeQueue, nextSequence, probes>>
      /\ stack' = Append(stack, item)
      /\ nextInvocation' = IF L < NestLimit THEN nextInvocation + 1 ELSE nextInvocation
      /\ faults' = IF L < NestLimit THEN faults ELSE faults \cup {"spawn"}
  BY DEF Enter, files
<1>3. L < NestLimit
  <2>1. CASE ~(L < NestLimit)
    BY <1>2, <2>1
  <2> QED BY <2>1
<1>4. nextInvocation' = nextInvocation + 1 /\ item.inv = nextInvocation /\ item.depth = L
      /\ item.parent = IF stack = <<>> THEN 0 ELSE Last(stack).inv
  BY <1>2, <1>3
<1> HIDE DEF item
<1>5. /\ Len(stack') = L + 1 /\ stack'[L + 1] = item
      /\ \A k \in 1..L : stack'[k] = stack[k]
  BY <1>1, <1>2
<1>6. \A k \in 1..Len(stack') : k \in 1..L \/ k = L + 1
  BY <1>1, <1>5
<1>7. Cap' = Cap /\ Events(written)' = Events(written) /\ Ordered'
  <2>1. Cap' = Cap /\ Events(written)' = Events(written)
    BY <1>2 DEF Cap
  <2> QED BY <1>2, <2>1 DEF Sound, Ordered
<1>8. /\ \A k \in 1..L :
            /\ stack[k].inv > 0 /\ stack[k].inv < nextInvocation /\ stack[k].inv \in Nat
            /\ stack[k].depth = k - 1
            /\ k = 1 => stack[k].parent = 0
            /\ \A j \in 1..(k - 1) : stack[j].inv < stack[k].inv /\ (j = k - 1 => stack[k].parent = stack[j].inv)
  <2>1. \A k \in 1..L : stack[k] \in Invocation
    BY <1>1
  <2> QED BY <2>1 DEF Sound, Nesting, Invocation
<1>9. item.parent = IF L = 0 THEN 0 ELSE stack[L].inv
  <2>1. stack = <<>> <=> L = 0
    BY <1>1
  <2> QED BY <1>4, <2>1 DEF Last
<1> HIDE DEF L
<1>10. Nesting'
  <2>1. ASSUME NEW k \in 1..Len(stack')
        PROVE  /\ stack'[k].inv > 0 /\ stack'[k].inv < nextInvocation'
               /\ stack'[k].depth = k - 1
               /\ k = 1 => stack'[k].parent = 0
               /\ \A j \in 1..(k - 1) :
                     stack'[j].inv < stack'[k].inv /\ (j = k - 1 => stack'[k].parent = stack'[j].inv)
    <3>1. CASE k \in 1..L
      <4>1. stack'[k] = stack[k] /\ \A j \in 1..(k - 1) : stack'[j] = stack[j]
        BY <1>1, <1>5, <3>1
      <4>2. /\ stack[k].inv > 0 /\ stack[k].inv < nextInvocation /\ stack[k].inv \in Nat
            /\ stack[k].depth = k - 1
            /\ k = 1 => stack[k].parent = 0
            /\ \A j \in 1..(k - 1) : stack[j].inv < stack[k].inv /\ (j = k - 1 => stack[k].parent = stack[j].inv)
        BY <1>8, <3>1
      <4>3. stack[k].inv < nextInvocation'
        BY <1>1, <1>4, <4>2
      <4> QED BY <4>1, <4>2, <4>3
    <3>2. CASE k = L + 1
      <4>1. k - 1 = L
        BY <1>1, <3>2
      <4>2. \A j \in 1..L : stack'[j] = stack[j] /\ stack[j].inv < nextInvocation
        BY <1>5, <1>8
      <4>3. \A j \in 1..L : j = L => item.parent = stack[j].inv
        BY <1>9, <1>1
      <4>4. k = 1 => item.parent = 0
        BY <1>1, <1>9, <3>2
      <4> QED BY <1>1, <1>4, <1>5, <3>2, <4>1, <4>2, <4>3, <4>4
    <3> QED BY <1>6, <3>1, <3>2
  <2> QED BY <2>1 DEF Nesting
<1>11. Entered'
  <2>1. ASSUME NEW e \in Cap, e.kind = "init"
        PROVE  /\ e.inv > 0 /\ e.inv < nextInvocation'
               /\ \A k \in 1..Len(stack') : stack'[k].inv # e.inv
               /\ \A f \in Cap : f.kind = "init" /\ f.inv = e.inv => f = e
    <3>1. /\ e.inv > 0 /\ e.inv < nextInvocation
          /\ \A k \in 1..L : stack[k].inv # e.inv
          /\ \A f \in Cap : f.kind = "init" /\ f.inv = e.inv => f = e
      BY <2>1 DEF Sound, Entered, L
    <3>2. e.inv \in Nat
      <4>1. e \in Event
        BY EventsOf DEF Cap, Members, TypeInv, CaptureType, FilesType
      <4> QED BY <4>1 DEF Event
    <3>3. e.inv < nextInvocation' /\ e.inv # nextInvocation
      BY <1>1, <1>4, <3>1, <3>2
    <3>4. \A k \in 1..Len(stack') : stack'[k].inv # e.inv
      BY <1>4, <1>5, <1>6, <3>1, <3>3
    <3> QED BY <3>1, <3>3, <3>4
  <2>2. ASSUME NEW n \in 1..(nextInvocation' - 1)
        PROVE  (\E e \in Cap : e.kind = "init" /\ e.inv = n) \/ \E k \in 1..Len(stack') : stack'[k].inv = n
    <3>1. CASE n = nextInvocation
      <4>1. L + 1 \in 1..Len(stack')
        BY <1>1, <1>5
      <4> QED BY <1>4, <1>5, <3>1, <4>1
    <3>2. CASE n # nextInvocation
      <4>1. n \in 1..(nextInvocation - 1)
        BY <1>1, <1>4, <3>2
      <4>2. (\E e \in Cap : e.kind = "init" /\ e.inv = n) \/ \E k \in 1..L : stack[k].inv = n
        BY <4>1 DEF Sound, Entered, L
      <4>3. \A k \in 1..L : k \in 1..Len(stack')
        BY <1>1, <1>5
      <4> QED BY <1>5, <4>2, <4>3
    <3> QED BY <3>1, <3>2
  <2> QED BY <1>7, <2>1, <2>2 DEF Entered
<1>12. NestOwed'
  <2> DEFINE end == Popped(Events(written) \o spawnQueue)
  <2>1. Owed(end, stack, nextInvocation)
    BY DEF Sound, NestOwed
  <2>2. Popped(Events(written) \o spawnQueue)' = end
    BY <1>2, <1>7 DEF Popped
  <2>3. end.next \in Nat /\ Len(end.open) \in Nat
    <3>1. end \in States
      <4> DEFINE y == Events(written) \o spawnQueue
      <4>1. y \in Seq(Event)
        <5>1. Events(written) \in Seq(Event) /\ spawnQueue \in Seq(Event)
          BY EventsOf DEF TypeInv, CaptureType, FilesType
        <5> QED BY <5>1
      <4> HIDE DEF y
      <4>2. Len(y) \in 0..Len(y)
        BY <4>1
      <4>3. Popped(y) \in States
        BY <4>1, <4>2, NestedFold DEF Popped
      <4> QED BY <4>3 DEF y
    <3> HIDE DEF end
    <3> QED BY <3>1 DEF States
  <2> HIDE DEF end
  <2>4. /\ end.ok /\ end.next > 0 /\ end.next <= nextInvocation
        /\ L = Len(end.open) + (nextInvocation - end.next)
        /\ \A k \in 1..L : stack[k].inv = IF k <= Len(end.open) THEN end.open[k] ELSE end.next + (k - Len(end.open)) - 1
    BY <2>1 DEF Owed, L
  <2> DEFINE m == Len(end.open)  b == end.next
  <2>5. m \in Nat /\ b \in Nat /\ b <= nextInvocation /\ L = m + (nextInvocation - b)
    BY <2>3, <2>4
  <2>6. \A k \in 1..L : stack[k].inv = IF k <= m THEN end.open[k] ELSE b + (k - m) - 1
    BY <2>4
  <2>7. end.ok /\ b > 0
    BY <2>4
  <2>8. /\ end.ok /\ b > 0 /\ b <= nextInvocation'
        /\ Len(stack') = m + (nextInvocation' - b)
        /\ \A k \in 1..Len(stack') : stack'[k].inv = IF k <= m THEN end.open[k] ELSE b + (k - m) - 1
        => Owed(end, stack', nextInvocation')
    BY DEF Owed
  <2> HIDE DEF m, b
  <2>9. b <= nextInvocation' /\ Len(stack') = m + (nextInvocation' - b)
    BY <1>1, <1>4, <1>5, <2>5
  <2>10. ASSUME NEW k \in 1..Len(stack')
         PROVE  stack'[k].inv = IF k <= m THEN end.open[k] ELSE b + (k - m) - 1
    <3>1. CASE k \in 1..L
      BY <1>5, <2>6, <3>1
    <3>2. CASE k = L + 1
      <4>1. ~(k <= m) /\ b + (k - m) - 1 = nextInvocation
        BY <1>1, <2>5, <3>2
      <4> QED BY <1>4, <1>5, <3>2, <4>1
    <3> QED BY <1>6, <3>1, <3>2
  <2>11. Owed(end, stack', nextInvocation')
    BY <2>7, <2>8, <2>9, <2>10
  <2> QED BY <2>2, <2>11 DEF NestOwed
<1>13. Paired' /\ (\A e \in Cap : EventFits(e))'
  BY <1>7 DEF Sound, Paired
<1> QED BY <1>7, <1>10, <1>11, <1>12, <1>13 DEF Sound
(* Every captured fact is an event. *)
LEMMA CapEvents ==
    ASSUME TypeInv
    PROVE  /\ \A e \in Cap : e \in Event /\ e.seq \in Nat \ {0} /\ e.inv \in Nat
           /\ Events(written) \in Seq(Event) /\ spawnQueue \in Seq(Event) /\ probeQueue \in Seq(Event)
           /\ Popped(Events(written) \o spawnQueue) \in States
<1>1. Events(written) \in Seq(Event) /\ spawnQueue \in Seq(Event) /\ probeQueue \in Seq(Event)
  BY EventsOf DEF TypeInv, CaptureType, FilesType
<1>2. \A q \in Seq(Event) : Members(q) \subseteq Event
  BY DEF Members
<1>3. Cap \subseteq Event
  BY <1>1, <1>2 DEF Cap
<1>4. \A e \in Event : e.seq \in Nat \ {0} /\ e.inv \in Nat
  BY DEF Event
<1>5. Popped(Events(written) \o spawnQueue) \in States
  <2> DEFINE y == Events(written) \o spawnQueue
  <2>1. y \in Seq(Event)
    BY <1>1
  <2> HIDE DEF y
  <2>2. Len(y) \in 0..Len(y)
    BY <2>1
  <2>3. Popped(y) \in States
    BY <2>1, <2>2, NestedFold DEF Popped
  <2> QED BY <2>3 DEF y
<1> QED BY <1>1, <1>3, <1>4, <1>5

(* The validator finds the innermost initializer open when its exit is read. *)
LEMMA ExitFits ==
    ASSUME NEW end \in States, NEW running \in Seq(Invocation), NEW next \in Nat, Owed(end, running, next),
           Len(running) > 0, Len(running) <= NestLimit,
           \A k \in 1..Len(running) :
               /\ running[k].inv > 0 /\ running[k].inv < next
               /\ running[k].depth = k - 1
               /\ k = 1 => running[k].parent = 0
               /\ \A j \in 1..(k - 1) : j = k - 1 => running[k].parent = running[j].inv,
           NEW x \in Event, NEW top, top = running[Len(running)],
           x.inv = top.inv, x.depth = top.depth, x.parent = top.parent,
           NEW left \in Seq(Invocation), Len(left) = Len(running) - 1,
           \A k \in 1..Len(left) : left[k] = running[k]
    PROVE  Fitting(end, x) /\ Owed(Exited(end, x), left, next)
<1> DEFINE L == Len(running)  m == Len(end.open)  b == end.next  o == Opened(end, x)
           more == Behind(end, x)
<1>1. /\ end.ok /\ b > 0 /\ b <= next /\ L = m + (next - b)
      /\ \A k \in 1..L : running[k].inv = IF k <= m THEN end.open[k] ELSE b + (k - m) - 1
  BY DEF Owed
<1>2. end.open \in Seq(Nat) /\ b \in Nat /\ m \in Nat /\ L \in Nat /\ L > 0 /\ NestLimit \in Nat
  BY CaptureAssumption DEF States
<1>3. /\ more \in Nat /\ o \in Seq(Nat) /\ Len(o) = m + more
      /\ \A k \in 1..m : o[k] = end.open[k]
      /\ \A k \in 1..more : o[m + k] = b + k - 1
  BY OpenedType
<1>4. x.inv \in Nat /\ x.inv = running[L].inv /\ L \in 1..L
  <2>1. L \in 1..L
    BY <1>2
  <2>2. x.inv \in Nat
    BY DEF Event
  <2> QED BY <2>1, <2>2
<1>5. more = IF x.inv >= b THEN x.inv - b + 1 ELSE 0
  BY DEF Behind
<1>6. x.inv < next
  BY <1>4
<1> HIDE DEF o, m, b, more
<1>7. b + more = next
  <2>1. CASE L <= m
    <3>1. L = m /\ b = next
      BY <1>1, <1>2, <2>1
    <3> QED BY <1>2, <1>4, <1>5, <1>6, <3>1
  <2>2. CASE ~(L <= m)
    <3>1. x.inv = b + (L - m) - 1
      BY <1>1, <1>4, <2>2
    <3>2. x.inv = next - 1 /\ x.inv >= b
      BY <1>1, <1>2, <2>2, <3>1
    <3> QED BY <1>2, <1>5, <3>2
  <2> QED BY <2>1, <2>2
<1>8. Len(o) = L
  BY <1>1, <1>2, <1>3, <1>7
<1>9. ASSUME NEW k \in 1..L PROVE o[k] = running[k].inv
  <2>1. CASE k <= m
    <3>1. k \in 1..m
      BY <1>2, <2>1
    <3> QED BY <1>1, <1>3, <2>1, <3>1
  <2>2. CASE ~(k <= m)
    <3> DEFINE j == k - m
    <3>1. j \in 1..more /\ m + j = k
      BY <1>2, <1>3, <1>8, <2>2
    <3>2. running[k].inv = b + j - 1
      BY <1>1, <2>2
    <3> HIDE DEF j
    <3> QED BY <1>3, <3>1, <3>2
  <2> QED BY <2>1, <2>2
<1>10. Fitting(end, x)
  <2>1. o # <<>> /\ Last(o) = x.inv
    BY <1>2, <1>3, <1>4, <1>8, <1>9 DEF Last
  <2>2. Len(o) <= DepthLimit
    BY <1>2, <1>8, DepthAssumption
  <2>3. x.depth = Len(o) - 1
    BY <1>4, <1>8
  <2>4. x.parent = (IF Len(o) > 1 THEN o[Len(o) - 1] ELSE 0)
    <3>1. CASE L = 1
      BY <1>4, <1>8, <3>1
    <3>2. CASE L # 1
      <4> DEFINE j == L - 1
      <4>1. j \in 1..(L - 1) /\ j \in 1..L /\ L > 1
        BY <1>2, <3>2
      <4>2. x.parent = running[j].inv
        <5>1. \A i \in 1..(L - 1) : i = L - 1 => running[L].parent = running[i].inv
          BY <1>4
        <5>2. x.parent = running[L].parent
          OBVIOUS
        <5> HIDE DEF L
        <5> QED BY <4>1, <5>1, <5>2
      <4>3. o[j] = running[j].inv
        BY <1>9, <4>1
      <4> QED BY <1>8, <4>1, <4>2, <4>3
    <3> QED BY <3>1, <3>2
  <2> QED BY <1>1, <2>1, <2>2, <2>3, <2>4 DEF Fitting, o
<1>11. Exited(end, x).ok /\ Exited(end, x).open = Front(o) /\ Exited(end, x).next = next
  BY <1>7, <1>10, ExitedIs DEF o, b, more
<1>12. Len(Front(o)) = L - 1 /\ \A k \in 1..(L - 1) : Front(o)[k] = o[k]
  <2> DEFINE D == Nat
  <2>1. o \in Seq(D) /\ L - 1 \in 0..Len(o) /\ Len(o) = L
    BY <1>2, <1>3, <1>8
  <2> HIDE DEF D, L
  <2>2. Front(o) = SubSeq(o, 1, L - 1)
    BY <2>1 DEF Front
  <2> QED BY <2>1, <2>2, PrefixOf
<1>13. Owed(Exited(end, x), left, next)
  <2> DEFINE f == Exited(end, x)
  <2>1. f.ok /\ f.next = next /\ Len(f.open) = L - 1 /\ \A k \in 1..(L - 1) : f.open[k] = running[k].inv
    <3>1. \A k \in 1..(L - 1) : k \in 1..L
      BY <1>2
    <3> QED BY <1>9, <1>11, <1>12, <3>1
  <2> HIDE DEF f
  <2>2. Len(left) = L - 1
    OBVIOUS
  <2>3. \A k \in 1..Len(left) : k <= Len(f.open) /\ left[k].inv = f.open[k]
    BY <1>2, <2>1, <2>2
  <2>4. f.next > 0 /\ f.next <= next /\ Len(left) = Len(f.open) + (next - f.next)
    BY <1>1, <1>2, <2>1, <2>2
  <2> QED BY <2>1, <2>3, <2>4 DEF Owed, f
<1> QED BY <1>10, <1>13
(* One more record at the end of a queue. *)
LEMMA RisesFurther ==
    ASSUME NEW q \in Seq(Event), NEW x \in Event, Rises(q), \A i \in 1..Len(q) : q[i].seq < x.seq
    PROVE  /\ Append(q, x) \in Seq(Event) /\ Len(Append(q, x)) = Len(q) + 1
           /\ Rises(Append(q, x)) /\ Members(Append(q, x)) = Members(q) \cup {x}
           /\ \A i \in 1..Len(Append(q, x)) : \/ i \in 1..Len(q) /\ Append(q, x)[i] = q[i]
                                              \/ i = Len(q) + 1 /\ Append(q, x)[i] = x
<1> DEFINE r == Append(q, x)  n == Len(q)
<1>1. r \in Seq(Event) /\ Len(r) = n + 1 /\ n \in Nat /\ r[n + 1] = x /\ \A i \in 1..n : r[i] = q[i]
  OBVIOUS
<1>2. \A i \in 1..n : q[i].seq < x.seq
  OBVIOUS
<1>3. ASSUME NEW i \in 1..n, NEW j \in 1..n, i < j PROVE q[i].seq < q[j].seq
  BY <1>3 DEF Rises
<1>4. Members(q) = {q[i] : i \in 1..n}
  BY DEF Members
<1> HIDE DEF r, n
<1>5. \A i \in 1..Len(r) : (i \in 1..n /\ r[i] = q[i]) \/ (i = n + 1 /\ r[i] = x)
  BY <1>1
<1>6. Rises(r)
  <2>1. SUFFICES ASSUME NEW i \in 1..Len(r), NEW j \in 1..Len(r), i < j PROVE r[i].seq < r[j].seq
    BY DEF Rises
  <2>2. i \in 1..n /\ r[i] = q[i]
    <3>1. i < n + 1 /\ i \in 1..n
      BY <1>1, <2>1
    <3> QED BY <1>5, <3>1, <1>1
  <2> QED BY <1>2, <1>3, <1>5, <2>1, <2>2
<1>7. Members(r) = Members(q) \cup {x}
  <2>1. ASSUME NEW y \in Members(r) PROVE y \in Members(q) \cup {x}
    <3>1. PICK i \in 1..Len(r) : y = r[i]
      BY DEF Members
    <3> QED BY <1>4, <1>5, <3>1
  <2>2. ASSUME NEW y \in Members(q) \cup {x} PROVE y \in Members(r)
    <3>1. CASE y = x
      <4>1. n + 1 \in 1..Len(r)
        BY <1>1
      <4> QED BY <1>1, <3>1, <4>1 DEF Members
    <3>2. CASE y \in Members(q)
      <4>1. PICK i \in 1..n : y = q[i]
        BY <1>4, <3>2
      <4>2. i \in 1..Len(r)
        BY <1>1
      <4> QED BY <1>1, <4>1, <4>2 DEF Members
    <3> QED BY <3>1, <3>2
  <2> QED BY <2>1, <2>2
<1> QED BY <1>1, <1>5, <1>6, <1>7 DEF r, n

(* A return captures the innermost initializer. *)
LEMMA SoundLeave ==
    ASSUME TypeInv, Accounted, Sound, faults = {}, NEW readable, Leave(readable), faults' = {}
    PROVE  Sound'
<1> DEFINE L == Len(stack)  top == Last(stack)  x == InitEvent(top, nextSequence)
<1>0. /\ stack \in Seq(Invocation) /\ nextSequence \in Nat \ {0} /\ nextInvocation \in Nat
      /\ Events(written) \in Seq(Event) /\ spawnQueue \in Seq(Event) /\ probeQueue \in Seq(Event)
      /\ stack' \in Seq(Invocation)
  BY CapEvents, LeaveCapture DEF TypeInv, CaptureType
<1>1. /\ L \in Nat \ {0} /\ top \in Invocation /\ top = stack[L]
      /\ Len(stack') = L - 1 /\ \A k \in 1..Len(stack') : stack'[k] = stack[k]
      /\ L <= NestLimit
      /\ spawnQueue' = Append(spawnQueue, x) /\ nextSequence' = nextSequence + 1
  <2>1. L \in Nat \ {0} /\ top \in Invocation /\ Len(stack') = L - 1 /\ \A k \in 1..Len(stack') : stack'[k] = stack[k]
    BY LeaveCapture DEF TypeInv
  <2>2. L <= NestLimit
    BY <2>1, CaptureAssumption DEF Accounted
  <2>3. spawnQueue' = Append(spawnQueue, x) /\ nextSequence' = nextSequence + 1
    BY <2>2, LeaveCapture DEF TypeInv
  <2>4. top = stack[L]
    BY DEF Last
  <2> QED BY <2>1, <2>2, <2>3, <2>4
<1>2. UNCHANGED <<probes, written, probeQueue, nextInvocation>>
  BY DEF Leave, files
<1>3. /\ x \in Event /\ x.kind = "init" /\ x.seq = nextSequence /\ x.ver = top.ver
      /\ x.when = IF top.ver # Null THEN "controlled_boundary" ELSE "initialization"
      /\ x.inv = top.inv /\ x.depth = top.depth /\ x.parent = top.parent
  <2>1. /\ x \in Event /\ Alike(x, Fact("init", top.z, top.play, nextSequence, top.ver))
        /\ x.inv = top.inv /\ x.depth = top.depth /\ x.parent = top.parent
    BY <1>0, <1>1, InitEventType
  <2>2. LET f == Fact("init", top.z, top.play, nextSequence, top.ver)
        IN  /\ f.kind = "init" /\ f.seq = nextSequence /\ f.ver = top.ver
            /\ f.when = IF top.ver # Null THEN "controlled_boundary" ELSE "initialization"
    BY DEF Fact
  <2> HIDE DEF x, top
  <2> QED BY <2>1, <2>2 DEF Alike
<1> HIDE DEF x, L, top
<1>4. \A k \in 1..L :
         /\ stack[k].inv > 0 /\ stack[k].inv < nextInvocation /\ stack[k].inv \in Nat
         /\ stack[k].depth = k - 1
         /\ k = 1 => stack[k].parent = 0
         /\ \A j \in 1..(k - 1) : stack[j].inv < stack[k].inv /\ (j = k - 1 => stack[k].parent = stack[j].inv)
  <2>1. \A k \in 1..L : stack[k] \in Invocation
    BY <1>0 DEF L
  <2> QED BY <2>1 DEF Sound, Nesting, Invocation, L
<1>5. L \in 1..L /\ \A k \in 1..Len(stack') : k \in 1..L /\ k \in 1..(L - 1) /\ k # L
  BY <1>1
<1>6. \A e \in Cap : e.seq < x.seq
  BY <1>3 DEF Sound, Ordered
<1>7. /\ Rises(spawnQueue') /\ Members(spawnQueue') = Members(spawnQueue) \cup {x}
      /\ \A i \in 1..Len(spawnQueue') : \/ i \in 1..Len(spawnQueue) /\ spawnQueue'[i] = spawnQueue[i]
                                        \/ i = Len(spawnQueue) + 1 /\ spawnQueue'[i] = x
  <2>1. \A i \in 1..Len(spawnQueue) : spawnQueue[i].seq < x.seq
    BY <1>6 DEF Cap, Members
  <2>2. Rises(spawnQueue)
    BY DEF Sound, Ordered
  <2> QED BY <1>0, <1>1, <1>3, <2>1, <2>2, RisesFurther
<1>8. Cap' = Cap \cup {x} /\ Events(written)' = Events(written)
  BY <1>2, <1>7 DEF Cap
<1>9. Ordered'
  <2>1. /\ Rises(Events(written)) /\ Rises(probeQueue)
        /\ Below(Events(written), spawnQueue) /\ Below(Events(written), probeQueue)
        /\ \A i \in 1..Len(spawnQueue), j \in 1..Len(probeQueue) : spawnQueue[i].seq # probeQueue[j].seq
        /\ \A e \in Cap : e.seq < nextSequence
        /\ \A i \in 1..Len(spawnQueue) : spawnQueue[i].kind = "init"
        /\ \A i \in 1..Len(probeQueue) : probeQueue[i].kind # "init"
        /\ ~probes => \A e \in Cap : e.kind = "init"
    BY DEF Sound, Ordered
  <2>2. Below(Events(written), spawnQueue')
    <3>1. SUFFICES ASSUME NEW i \in 1..Len(Events(written)), NEW j \in 1..Len(spawnQueue')
                   PROVE  Events(written)[i].seq < spawnQueue'[j].seq
      BY DEF Below
    <3>2. Events(written)[i].seq < x.seq
      BY <1>6 DEF Cap, Members
    <3> QED BY <1>7, <2>1, <3>2 DEF Below
  <2>3. \A i \in 1..Len(spawnQueue'), j \in 1..Len(probeQueue) : spawnQueue'[i].seq # probeQueue[j].seq
    <3>1. ASSUME NEW j \in 1..Len(probeQueue) PROVE probeQueue[j].seq # x.seq
      <4>1. probeQueue[j] \in Cap
        BY DEF Cap, Members
      <4> QED BY <1>6, <4>1, CapEvents
    <3> QED BY <1>7, <2>1, <3>1
  <2>4. \A e \in Cap' : e.seq < nextSequence'
    <3>1. \A e \in Cap : e.seq \in Nat
      BY CapEvents
    <3> QED BY <1>0, <1>1, <1>3, <1>8, <2>1, <3>1
  <2>5. \A i \in 1..Len(spawnQueue') : spawnQueue'[i].kind = "init"
    BY <1>3, <1>7, <2>1
  <2>6. ~probes' => \A e \in Cap' : e.kind = "init"
    BY <1>2, <1>3, <1>8, <2>1
  <2> QED BY <1>2, <1>7, <1>8, <2>1, <2>2, <2>3, <2>4, <2>5, <2>6 DEF Ordered
<1>10. Nesting'
  <2>1. ASSUME NEW k \in 1..Len(stack')
        PROVE  /\ stack'[k].inv > 0 /\ stack'[k].inv < nextInvocation'
               /\ stack'[k].depth = k - 1
               /\ k = 1 => stack'[k].parent = 0
               /\ \A j \in 1..(k - 1) :
                     stack'[j].inv < stack'[k].inv /\ (j = k - 1 => stack'[k].parent = stack'[j].inv)
    <3>1. stack'[k] = stack[k] /\ \A j \in 1..(k - 1) : stack'[j] = stack[j]
      BY <1>1
    <3>2. /\ stack[k].inv > 0 /\ stack[k].inv < nextInvocation
          /\ stack[k].depth = k - 1
          /\ k = 1 => stack[k].parent = 0
          /\ \A j \in 1..(k - 1) : stack[j].inv < stack[k].inv /\ (j = k - 1 => stack[k].parent = stack[j].inv)
      BY <1>4, <1>5
    <3> QED BY <1>2, <3>1, <3>2
  <2> QED BY <2>1 DEF Nesting
<1>11. Entered'
  <2>1. /\ \A e \in Cap : e.kind = "init" =>
             /\ e.inv > 0 /\ e.inv < nextInvocation
             /\ \A k \in 1..L : stack[k].inv # e.inv
             /\ \A f \in Cap : f.kind = "init" /\ f.inv = e.inv => f = e
        /\ \A n \in 1..(nextInvocation - 1) :
             (\E e \in Cap : e.kind = "init" /\ e.inv = n) \/ \E k \in 1..L : stack[k].inv = n
    BY DEF Sound, Entered, L
  <2>2. x.inv = stack[L].inv /\ x.inv > 0 /\ x.inv < nextInvocation
    BY <1>1, <1>3, <1>4, <1>5
  <2>3. ASSUME NEW e \in Cap', e.kind = "init"
        PROVE  /\ e.inv > 0 /\ e.inv < nextInvocation'
               /\ \A k \in 1..Len(stack') : stack'[k].inv # e.inv
               /\ \A f \in Cap' : f.kind = "init" /\ f.inv = e.inv => f = e
    <3>1. CASE e \in Cap
      <4>1. e.inv # x.inv
        BY <1>5, <2>1, <2>2, <2>3, <3>1
      <4>2. /\ e.inv > 0 /\ e.inv < nextInvocation
            /\ \A k \in 1..L : stack[k].inv # e.inv
            /\ \A f \in Cap : f.kind = "init" /\ f.inv = e.inv => f = e
        BY <2>1, <2>3, <3>1
      <4> QED BY <1>1, <1>2, <1>5, <1>8, <4>1, <4>2
    <3>2. CASE e = x
      <4>1. \A k \in 1..Len(stack') : stack'[k].inv # x.inv
        <5>1. \A j \in 1..(L - 1) : stack[j].inv < stack[L].inv /\ stack[j].inv \in Nat
          <6>1. \A j \in 1..(L - 1) : j \in 1..L
            BY <1>1
          <6> QED BY <1>4, <1>5, <6>1
        <5>2. ASSUME NEW k \in 1..Len(stack') PROVE stack'[k].inv # x.inv
          BY <1>1, <1>5, <2>2, <5>1
        <5> QED BY <5>2
      <4>2. \A f \in Cap : f.kind = "init" => f.inv # x.inv
        BY <1>5, <2>1, <2>2
      <4> QED BY <1>2, <1>8, <2>2, <3>2, <4>1, <4>2
    <3> QED BY <1>8, <3>1, <3>2
  <2>4. ASSUME NEW n \in 1..(nextInvocation - 1)
        PROVE  (\E e \in Cap' : e.kind = "init" /\ e.inv = n) \/ \E k \in 1..Len(stack') : stack'[k].inv = n
    <3>1. CASE \E e \in Cap : e.kind = "init" /\ e.inv = n
      BY <1>8, <3>1
    <3>2. CASE \E k \in 1..L : stack[k].inv = n
      <4>1. PICK k \in 1..L : stack[k].inv = n
        BY <3>2
      <4>2. CASE k = L
        BY <1>3, <1>8, <2>2, <4>1, <4>2
      <4>3. CASE k # L
        <5>1. k \in 1..Len(stack')
          BY <1>1, <4>3
        <5> QED BY <1>1, <4>1, <5>1
      <4> QED BY <4>2, <4>3
    <3> QED BY <2>1, <3>1, <3>2
  <2> QED BY <1>2, <2>3, <2>4 DEF Entered
<1>12. NestOwed'
  <2> DEFINE y == Events(written) \o spawnQueue  end == Popped(y)
  <2>1. Owed(end, stack, nextInvocation) /\ end \in States
    BY CapEvents DEF Sound, NestOwed
  <2>2. Fitting(end, x) /\ Owed(Exited(end, x), stack', nextInvocation)
    <3>1. L > 0
      BY <1>1
    <3>2. /\ \A k \in 1..L :
               /\ stack[k].inv > 0 /\ stack[k].inv < nextInvocation
               /\ stack[k].depth = k - 1
               /\ k = 1 => stack[k].parent = 0
               /\ \A j \in 1..(k - 1) : j = k - 1 => stack[k].parent = stack[j].inv
      BY <1>4
    <3> HIDE DEF end
    <3> QED BY <1>0, <1>1, <1>3, <2>1, <3>1, <3>2, ExitFits DEF L
  <2>3. Events(written)' \o spawnQueue' = Append(y, x)
    <3> DEFINE W == Events(written)
    <3>1. W \in Seq(Event) /\ spawnQueue' = Append(spawnQueue, x) /\ W' = W
      BY <1>0, <1>1, <1>8
    <3> HIDE DEF W
    <3>2. W \o Append(spawnQueue, x) = Append(W \o spawnQueue, x)
      BY <1>0, <1>3, <3>1
    <3> QED BY <3>1, <3>2 DEF W
  <2>4. Popped(Append(y, x)) = Exited(end, x)
    <3>1. y \in Seq(Event)
      BY <1>0
    <3> HIDE DEF y
    <3> DEFINE r == Append(y, x)  n == Len(y)
    <3>2. /\ r \in Seq(Event) /\ Len(r) = n + 1 /\ n \in Nat /\ r[n + 1] = x /\ \A i \in 1..n : r[i] = y[i]
      BY <1>3, <3>1
    <3>3. n = Len(y)
      OBVIOUS
    <3> HIDE DEF r, n
    <3>4. n + 1 \in 1..Len(r) /\ (n + 1) - 1 = n
      BY <3>2
    <3>5. Nested(r)[n + 1] = Goes(Nested(r)[n], x)
      BY <3>2, <3>4, NestedFold
    <3>6. Nested(r)[n] = Nested(y)[n]
      <4>1. n <= Len(r) /\ n <= Len(y)
        BY <3>2, <3>3
      <4> QED BY <3>1, <3>2, <4>1, NestedPrefix
    <3>7. Nested(r)[Len(r)] = Exited(Nested(y)[Len(y)], x)
      BY <1>3, <3>2, <3>3, <3>5, <3>6 DEF Goes
    <3> QED BY <3>7 DEF Popped, r
  <2>5. NestOwed' = Owed(Popped(Append(y, x)), stack', nextInvocation)
    BY <1>2, <2>3 DEF NestOwed
  <2> HIDE DEF end
  <2> QED BY <2>2, <2>4, <2>5
<1>13. Paired'
  BY <1>3, <1>8 DEF Sound, Paired
<1>14. \A e \in Cap' : EventFits(e)
  <2>1. EventFits(x)
    <3>1. top.ver \in Nat /\ top.depth \in Nat
      BY <1>1 DEF Invocation
    <3>2. VersionFits(x)
      BY <1>3, <3>1 DEF VersionFits, Null
    <3>3. x.inv > 0 /\ x.depth = L - 1
      BY <1>1, <1>3, <1>4, <1>5
    <3>4. L = 1 => x.parent = 0
      BY <1>1, <1>3, <1>4, <1>5
    <3>5. L # 1 => x.parent > 0 /\ x.parent < x.inv
      <4>1. SUFFICES ASSUME L # 1 PROVE x.parent > 0 /\ x.parent < x.inv
        OBVIOUS
      <4> DEFINE j == L - 1
      <4>2. j \in 1..(L - 1) /\ j \in 1..L /\ j = L - 1
        BY <1>1, <4>1
      <4> HIDE DEF j
      <4>3. stack[j].inv < stack[L].inv /\ stack[L].parent = stack[j].inv /\ stack[j].inv > 0
        BY <1>4, <1>5, <4>2
      <4> QED BY <1>1, <1>3, <4>3
    <3>6. InvocationFits(x)
      BY <1>1, <3>3, <3>4, <3>5 DEF InvocationFits
    <3>7. x.seq > 0
      BY <1>0, <1>3
    <3> QED BY <1>3, <3>2, <3>6, <3>7 DEF EventFits
  <2> QED BY <1>8, <2>1 DEF Sound
<1> QED BY <1>9, <1>10, <1>11, <1>12, <1>13, <1>14 DEF Sound
(* What the probes of one step may queue. *)
ProbeFits(recs) ==
    /\ \A i \in 1..Len(recs) : recs[i].seq = nextSequence + i - 1 /\ recs[i].kind # "init" /\ EventFits(recs[i])
    /\ \A c \in Members(recs) : c.kind = "commit" =>
         c.ref = c.seq - 1 /\ \E d \in Members(recs) : d.kind = "candidate" /\ d.seq = c.ref /\ d.z = c.z
    /\ \A d \in Members(recs) : d.kind = "candidate" => \E c \in Members(recs) : c.kind = "commit" /\ c.ref = d.seq

(* What the probes queue fits. *)
LEMMA SlotFits ==
    ASSUME TypeInv, NEW s \in Slots
    PROVE  /\ \A stage \in Stages : ProbeFits(<<StoreEvent(s, stage)>>)
           /\ \A chain \in BOOLEAN : ProbeFits(<<MarkEvent(s, chain)>>)
           /\ ProbeFits(<<CandidateEvent(s), CommitOf(s)>>)
<1>0. /\ Id(s) \in Zombies /\ Id(s)[2] \in Nat \ {0} /\ pool[s].play \in BOOLEAN /\ pool[s].stage \in Nat
      /\ nextSequence \in Nat \ {0} /\ nextSequence + 1 \in Nat \ {0} /\ boundary \in Nat
  BY IdType, VersionType DEF TypeInv, CaptureType
<1> DEFINE Timely(e) == e.ver = boundary
                          /\ e.when = IF boundary # Null THEN "controlled_boundary" ELSE "uncontrolled_update"
<1>1. \A kind : kind # "init" => \A n : Timely(Fact(kind, Id(s), pool[s].play, n, boundary))
  BY DEF Fact
<1>2. ASSUME NEW e \in Event, e.z = Id(s), Timely(e), e.kind # "init", SiteFits(e) PROVE EventFits(e)
  <2>1. e.seq > 0
    BY DEF Event
  <2>2. VersionFits(e)
    BY <1>0, <1>2 DEF VersionFits, Null
  <2>3. ProbeEventFits(e)
    BY <1>0, <1>2 DEF ProbeEventFits
  <2> QED BY <1>2, <2>1, <2>2, <2>3 DEF EventFits
<1>3. ASSUME NEW stage \in Stages PROVE ProbeFits(<<StoreEvent(s, stage)>>)
  <2> DEFINE e == StoreEvent(s, stage)
  <2>1. e \in Event /\ e.kind = "phase" /\ e.z = Id(s) /\ e.seq = nextSequence /\ e.after = stage
    BY SlotEvents
  <2>2. Timely(e)
    <3> DEFINE z == Id(s)  play == pool[s].play  a == pool[s].stage
    <3>1. z \in Zombies /\ play \in BOOLEAN /\ a \in Nat /\ stage \in Nat
      BY <1>0, CaptureAssumption
    <3>2. e = PhaseEvent(z, play, nextSequence, boundary, a, stage)
      BY DEF StoreEvent
    <3>3. Timely(Fact("phase", z, play, nextSequence, boundary))
      BY <1>1
    <3> HIDE DEF z, play, a, e
    <3>4. Moves(PhaseEvent(z, play, nextSequence, boundary, a, stage),
                Fact("phase", z, play, nextSequence, boundary), a, stage)
      BY <1>0, <3>1, PhaseEventType
    <3> QED BY <3>2, <3>3, <3>4 DEF Moves, Alike
  <2>3. stage \in {1, 2, 3}
    BY CaptureAssumption
  <2> HIDE DEF e, Timely
  <2>4. EventFits(e)
    BY <1>2, <2>1, <2>2, <2>3 DEF SiteFits
  <2>5. Len(<<e>>) = 1 /\ <<e>>[1] = e /\ Members(<<e>>) = {e}
    BY DEF Members
  <2>6. nextSequence + 1 - 1 = nextSequence
    BY <1>0
  <2>7. \A i \in 1..Len(<<e>>) : <<e>>[i] = e /\ i = 1
    BY <2>5
  <2> QED BY <2>1, <2>4, <2>5, <2>6, <2>7 DEF ProbeFits, e
<1>4. ASSUME NEW chain \in BOOLEAN PROVE ProbeFits(<<MarkEvent(s, chain)>>)
  <2> DEFINE e == MarkEvent(s, chain)
  <2>1. e \in Event /\ e.kind = "removal" /\ e.z = Id(s) /\ e.seq = nextSequence /\ e.after = 1
    BY SlotEvents
  <2>2. Timely(e)
    <3>1. Timely(Fact("removal", Id(s), pool[s].play, nextSequence, boundary))
      BY <1>1
    <3>2. Alike(e, Fact("removal", Id(s), pool[s].play, nextSequence, boundary))
      BY <1>0, RemovalEventType DEF MarkEvent
    <3> HIDE DEF e
    <3> QED BY <3>1, <3>2 DEF Alike
  <2> HIDE DEF e, Timely
  <2>4. EventFits(e)
    BY <1>2, <2>1, <2>2 DEF SiteFits
  <2>5. Len(<<e>>) = 1 /\ <<e>>[1] = e /\ Members(<<e>>) = {e}
    BY DEF Members
  <2>6. nextSequence + 1 - 1 = nextSequence
    BY <1>0
  <2>7. \A i \in 1..Len(<<e>>) : <<e>>[i] = e /\ i = 1
    BY <2>5
  <2> QED BY <2>1, <2>4, <2>5, <2>6, <2>7 DEF ProbeFits, e
<1>5. ProbeFits(<<CandidateEvent(s), CommitOf(s)>>)
  <2> DEFINE d == CandidateEvent(s)  c == CommitOf(s)  two == <<d, c>>
  <2>1. /\ d \in Event /\ d.kind = "candidate" /\ d.z = Id(s) /\ d.seq = nextSequence
        /\ c \in Event /\ c.kind = "commit" /\ c.z = Id(s) /\ c.seq = nextSequence + 1 /\ c.ref = nextSequence
    BY SlotEvents
  <2>2. Timely(d) /\ Timely(c)
    <3>1. Timely(d)
      BY <1>1 DEF CandidateEvent
    <3>2. Timely(Fact("commit", Id(s), pool[s].play, nextSequence + 1, boundary))
      BY <1>1
    <3>3. Alike(c, Fact("commit", Id(s), pool[s].play, nextSequence + 1, boundary))
      BY <1>0, CommitEventType DEF CommitOf
    <3> HIDE DEF c, d
    <3>4. Timely(c)
      BY <3>2, <3>3 DEF Alike
    <3> QED BY <3>1, <3>4
  <2> HIDE DEF d, c, Timely
  <2>3. EventFits(d) /\ EventFits(c)
    <3>1. c.ref > 0
      BY <1>0, <2>1
    <3> QED BY <1>2, <2>1, <2>2, <3>1 DEF SiteFits
  <2>4. Len(two) = 2 /\ two[1] = d /\ two[2] = c /\ Members(two) = {d, c}
    BY DEF Members
  <2>5. nextSequence + 1 - 1 = nextSequence /\ nextSequence + 2 - 1 = nextSequence + 1
    BY <1>0
  <2> HIDE DEF two
  <2>6. \A i \in 1..Len(two) : (two[i] = d /\ i = 1) \/ (two[i] = c /\ i = 2)
    BY <2>4
  <2>7. \A i \in 1..Len(two) : two[i].seq = nextSequence + i - 1 /\ two[i].kind # "init" /\ EventFits(two[i])
    BY <2>1, <2>3, <2>5, <2>6
  <2>8. \A e \in Members(two) : e.kind = "commit" =>
          e.ref = e.seq - 1 /\ \E f \in Members(two) : f.kind = "candidate" /\ f.seq = e.ref /\ f.z = e.z
    <3>1. c.ref = c.seq - 1
      BY <1>0, <2>1
    <3> QED BY <2>1, <2>4, <3>1
  <2>9. \A f \in Members(two) : f.kind = "candidate" => \E e \in Members(two) : e.kind = "commit" /\ e.ref = f.seq
    BY <2>1, <2>4
  <2>10. ProbeFits(two)
    BY <2>7, <2>8, <2>9 DEF ProbeFits
  <2> QED BY <2>10 DEF two, c, d
<1> QED BY <1>3, <1>4, <1>5
(* What a step's probes queue comes after all that was captured. *)
LEMMA SoundProbe ==
    ASSUME TypeInv, Sound, NEW recs, Probed(recs), ProbeFits(recs), faults' = {}
    PROVE  Sound'
<1>0. /\ nextSequence \in Nat \ {0} /\ recs \in Seq(Event) /\ probes \in BOOLEAN
      /\ Events(written) \in Seq(Event) /\ spawnQueue \in Seq(Event) /\ probeQueue \in Seq(Event)
      /\ Len(recs) \in Nat
  BY CapEvents DEF TypeInv, CaptureType, Probed
<1>1. UNCHANGED <<probes, stack, spawnQueue, nextInvocation, written>>
  BY DEF Probed, Captured, files
<1>2. CASE ~probes
  <2>1. probeQueue' = probeQueue /\ nextSequence' = nextSequence
    BY <1>2 DEF Probed, Captured
  <2>2. Cap' = Cap /\ Events(written)' = Events(written)
    BY <1>1, <2>1 DEF Cap
  <2> QED BY <1>1, <2>1, <2>2 DEF Sound, Ordered, Nesting, Entered, NestOwed, Popped, Paired
<1>3. CASE probes
  <2>1. probeQueue' = probeQueue \o recs /\ nextSequence' = nextSequence + Len(recs)
    BY <1>3 DEF Probed, Captured
  <2>2. Cap' = Cap \cup Members(recs) /\ Events(written)' = Events(written)
    <3>1. Members(probeQueue') = Members(probeQueue) \cup Members(recs)
      BY <1>0, <2>1, MembersJoined
    <3> QED BY <1>1, <3>1 DEF Cap
  <2>3. \A i \in 1..Len(recs) :
           recs[i].seq = nextSequence + i - 1 /\ recs[i].kind # "init" /\ EventFits(recs[i])
    BY DEF ProbeFits
  <2>4. \A e \in Members(recs) : /\ e.kind # "init" /\ EventFits(e) /\ e.seq \in Nat
                                 /\ e.seq >= nextSequence /\ e.seq < nextSequence + Len(recs)
    <3>1. ASSUME NEW i \in 1..Len(recs)
          PROVE  recs[i].seq \in Nat /\ recs[i].seq >= nextSequence /\ recs[i].seq < nextSequence + Len(recs)
      BY <1>0, <2>3
    <3> QED BY <2>3, <3>1 DEF Members
  <2>5. \A e \in Cap : e.seq \in Nat /\ e.seq < nextSequence
    BY CapEvents DEF Sound, Ordered
  <2>6. \A i \in 1..Len(probeQueue') : probeQueue'[i] \in Members(probeQueue) \/ probeQueue'[i] \in Members(recs)
    <3>1. Members(probeQueue') = Members(probeQueue) \cup Members(recs)
      BY <1>0, <2>1, MembersJoined
    <3>2. \A i \in 1..Len(probeQueue') : probeQueue'[i] \in Members(probeQueue')
      BY DEF Members
    <3> QED BY <3>1, <3>2
  <2>7. Ordered'
    <3>1. /\ Rises(Events(written)) /\ Rises(spawnQueue) /\ Rises(probeQueue)
          /\ Below(Events(written), spawnQueue) /\ Below(Events(written), probeQueue)
          /\ \A i \in 1..Len(spawnQueue), j \in 1..Len(probeQueue) : spawnQueue[i].seq # probeQueue[j].seq
          /\ \A i \in 1..Len(spawnQueue) : spawnQueue[i].kind = "init"
          /\ \A i \in 1..Len(probeQueue) : probeQueue[i].kind # "init"
      BY DEF Sound, Ordered
    <3>2. Rises(probeQueue')
      <4>1. Rises(recs)
        <5>1. ASSUME NEW i \in 1..Len(recs), NEW j \in 1..Len(recs), i < j PROVE recs[i].seq < recs[j].seq
          <6>1. recs[i].seq = nextSequence + i - 1 /\ recs[j].seq = nextSequence + j - 1
            BY <2>3
          <6> QED BY <1>0, <5>1, <6>1
        <5> QED BY <5>1 DEF Rises
      <4>2. Below(probeQueue, recs)
        <5>1. ASSUME NEW i \in 1..Len(probeQueue), NEW j \in 1..Len(recs) PROVE probeQueue[i].seq < recs[j].seq
          <6>1. probeQueue[i] \in Cap /\ recs[j] \in Members(recs)
            BY DEF Cap, Members
          <6>2. probeQueue[i].seq \in Nat /\ probeQueue[i].seq < nextSequence
            BY <2>5, <6>1
          <6>3. recs[j].seq \in Nat /\ recs[j].seq >= nextSequence
            BY <2>4, <6>1
          <6> QED BY <1>0, <6>2, <6>3
        <5> QED BY <5>1 DEF Below
      <4> QED BY <1>0, <2>1, <3>1, <4>1, <4>2, RisesJoined
    <3>3. Below(Events(written), probeQueue')
      <4>1. ASSUME NEW i \in 1..Len(Events(written)), NEW j \in 1..Len(probeQueue')
            PROVE  Events(written)[i].seq < probeQueue'[j].seq
        <5>1. CASE probeQueue'[j] \in Members(probeQueue)
          <6>1. PICK k \in 1..Len(probeQueue) : probeQueue'[j] = probeQueue[k]
            BY <5>1 DEF Members
          <6> QED BY <3>1, <6>1 DEF Below
        <5>2. CASE probeQueue'[j] \in Members(recs)
          <6>1. Events(written)[i] \in Cap
            BY DEF Cap, Members
          <6>2. Events(written)[i].seq \in Nat /\ Events(written)[i].seq < nextSequence
            BY <2>5, <6>1
          <6>3. probeQueue'[j].seq \in Nat /\ probeQueue'[j].seq >= nextSequence
            BY <2>4, <5>2
          <6> QED BY <1>0, <6>2, <6>3
        <5> QED BY <2>6, <5>1, <5>2
      <4> QED BY <4>1 DEF Below
    <3>4. ASSUME NEW i \in 1..Len(spawnQueue), NEW j \in 1..Len(probeQueue')
          PROVE  spawnQueue[i].seq # probeQueue'[j].seq
      <4>1. CASE probeQueue'[j] \in Members(probeQueue)
        <5>1. PICK k \in 1..Len(probeQueue) : probeQueue'[j] = probeQueue[k]
          BY <4>1 DEF Members
        <5> QED BY <3>1, <5>1
      <4>2. CASE probeQueue'[j] \in Members(recs)
        <5>1. spawnQueue[i] \in Cap
          BY DEF Cap, Members
        <5>2. spawnQueue[i].seq \in Nat /\ spawnQueue[i].seq < nextSequence
          BY <2>5, <5>1
        <5>3. probeQueue'[j].seq \in Nat /\ probeQueue'[j].seq >= nextSequence
          BY <2>4, <4>2
        <5> QED BY <1>0, <5>2, <5>3
      <4> QED BY <2>6, <4>1, <4>2
    <3>5. \A e \in Cap' : e.seq < nextSequence'
      <4>1. ASSUME NEW e \in Cap PROVE e.seq < nextSequence + Len(recs)
        <5>1. e.seq \in Nat /\ e.seq < nextSequence
          BY <2>5
        <5> QED BY <1>0, <5>1
      <4> QED BY <2>1, <2>2, <2>4, <4>1
    <3>6. \A i \in 1..Len(probeQueue') : probeQueue'[i].kind # "init"
      <4>1. \A e \in Members(probeQueue) : e.kind # "init"
        BY <3>1 DEF Members
      <4> QED BY <2>4, <2>6, <4>1
    <3> QED BY <1>1, <1>3, <2>2, <3>1, <3>2, <3>3, <3>4, <3>5, <3>6 DEF Ordered
  <2>8. Nesting'
    BY <1>1 DEF Sound, Nesting
  <2>9. \A e : e.kind = "init" => (e \in Cap' <=> e \in Cap)
    BY <2>2, <2>4
  <2>10. Entered'
    <3>1. /\ \A e \in Cap : e.kind = "init" =>
               /\ e.inv > 0 /\ e.inv < nextInvocation
               /\ \A k \in 1..Len(stack) : stack[k].inv # e.inv
               /\ \A f \in Cap : f.kind = "init" /\ f.inv = e.inv => f = e
          /\ \A n \in 1..(nextInvocation - 1) :
               (\E e \in Cap : e.kind = "init" /\ e.inv = n) \/ \E k \in 1..Len(stack) : stack[k].inv = n
      BY DEF Sound, Entered
    <3>2. \A e \in Cap' : e.kind = "init" =>
            /\ e.inv > 0 /\ e.inv < nextInvocation
            /\ \A k \in 1..Len(stack) : stack[k].inv # e.inv
            /\ \A f \in Cap' : f.kind = "init" /\ f.inv = e.inv => f = e
      BY <2>9, <3>1
    <3>3. \A n \in 1..(nextInvocation - 1) :
            (\E e \in Cap' : e.kind = "init" /\ e.inv = n) \/ \E k \in 1..Len(stack) : stack[k].inv = n
      BY <2>2, <3>1
    <3> QED BY <1>1, <3>2, <3>3 DEF Entered
  <2>11. NestOwed'
    BY <1>1, <2>2 DEF Sound, NestOwed, Popped
  <2>12. Paired'
    <3>1. /\ \A c \in Cap : c.kind = "commit" =>
               c.ref = c.seq - 1 /\ \E d \in Cap : d.kind = "candidate" /\ d.seq = c.ref /\ d.z = c.z
          /\ \A d \in Cap : d.kind = "candidate" => \E c \in Cap : c.kind = "commit" /\ c.ref = d.seq
      BY DEF Sound, Paired
    <3>2. /\ \A c \in Members(recs) : c.kind = "commit" =>
               c.ref = c.seq - 1 /\ \E d \in Members(recs) : d.kind = "candidate" /\ d.seq = c.ref /\ d.z = c.z
          /\ \A d \in Members(recs) : d.kind = "candidate" => \E c \in Members(recs) : c.kind = "commit" /\ c.ref = d.seq
      BY DEF ProbeFits
    <3> QED BY <2>2, <3>1, <3>2 DEF Paired
  <2>13. \A e \in Cap' : EventFits(e)
    BY <2>2, <2>4 DEF Sound
  <2> QED BY <2>7, <2>8, <2>10, <2>11, <2>12, <2>13 DEF Sound
<1> QED BY <1>0, <1>2, <1>3
(* An undisturbed observation goes on, and tells nothing. *)
LEMMA SoundObserve ==
    ASSUME TypeInv, SoundInv, phase \in {"calm", "call"}, NEW v, NEW b, NEW p \in {"calm", "call"}, Observed(v, b, p)
    PROVE  SoundInv'
<1>1. SUFFICES ASSUME faults' = {} PROVE Sound' /\ Announced'
  BY DEF SoundInv
<1>2. /\ Recorded /\ faults = {} /\ UNCHANGED <<block, receipt, probes>>
      /\ notes' = notes \cup FaultNotes
  BY <1>1 DEF Observed, Recorded
<1>3. Sound /\ Announced
  BY <1>2 DEF SoundInv
<1>4. Rising(Merged) /\ Sound'
  BY <1>2, <1>3, SoundDrain
<1>5. phase' = p
  BY <1>2, <1>4 DEF Observed
<1>6. notes' = notes
  BY <1>2 DEF FaultNotes
<1>7. Announced'
  BY <1>2, <1>3, <1>5, <1>6 DEF Announced
<1> QED BY <1>4, <1>7

(* An undisturbed shutdown gives the receipt. *)
LEMMA SoundClose ==
    ASSUME TypeInv, SoundInv, Closing
    PROVE  SoundInv'
<1>1. SUFFICES ASSUME faults' = {} PROVE Sound' /\ Announced'
  BY DEF SoundInv
<1>2. /\ Recorded /\ faults = {} /\ stack' = <<>> /\ probes' = probes
      /\ spawnQueue' = <<>> /\ probeQueue' = <<>>
  BY <1>1 DEF Closing, Recorded
<1>3. Sound /\ Announced
  BY <1>2 DEF SoundInv
<1>4. Rising(Merged) /\ Sound'
  BY <1>2, <1>3, SoundDrain
<1>5. phase = "calm" /\ phase' = "closed" /\ Healthy = TRUE
  <2>1. phase \in {"calm", "stopped"} /\ phase' = "closed"
    BY DEF Closing
  <2>2. phase # "stopped"
    BY <1>3 DEF Announced
  <2>3. Healthy = TRUE
    BY <1>2 DEF Healthy
  <2> QED BY <2>1, <2>2, <2>3
<1>6. receipt' = {[session |-> Session, records |-> written', block |-> block', healthy |-> TRUE]}
  BY <1>2, <1>4, <1>5 DEF Closing
<1>7. /\ notes' = notes \cup (IF ~probes THEN {} ELSE {"probes_closed"})
      /\ block' = IF probes THEN [enabled |-> TRUE, final |-> TRUE, healthy |-> TRUE] ELSE block
  <2>1. /\ notes' = notes \cup FaultNotes
                      \cup (IF "spawn" \in faults THEN {"spawn_closed_unhealthy"} ELSE {})
                      \cup (IF ~probes THEN {} ELSE IF Healthy THEN {"probes_closed"}
                            ELSE {"probes_closed_unhealthy"})
        /\ block' = ClosedBlock
    BY DEF Closing
  <2>2. FaultNotes = {} /\ "spawn" \notin faults /\ Healthy
    BY <1>2 DEF FaultNotes, Healthy
  <2>3. block' = IF probes THEN [enabled |-> TRUE, final |-> TRUE, healthy |-> TRUE] ELSE block
    BY <1>5, <2>1 DEF ClosedBlock
  <2> QED BY <2>1, <2>2, <2>3
<1>8. notes' \subseteq {"probes_closed"} /\ (block'.enabled <=> probes)
      /\ (probes => block'.final /\ block'.healthy /\ "probes_closed" \in notes')
  <2>1. notes \subseteq {"probes_closed"} /\ (block.enabled <=> probes)
    BY <1>3 DEF Announced
  <2> QED BY <1>7, <2>1
<1>9. Announced'
  BY <1>2, <1>5, <1>6, <1>8 DEF Announced
<1> QED BY <1>4, <1>9

(* Nothing is captured yet. *)
LEMMA SoundInit == Init => SoundInv
<1> SUFFICES ASSUME Init PROVE Sound /\ Announced
  BY DEF SoundInv
<1>1. /\ stack = <<>> /\ spawnQueue = <<>> /\ probeQueue = <<>> /\ written = <<>>
      /\ nextSequence = 1 /\ nextInvocation = 1
  BY DEF Init
<1>2. Events(written) = <<>> /\ Len(<<>>) = 0 /\ <<>> \o <<>> = <<>> /\ 1..0 = {} /\ <<>> \in Seq(Event)
  BY <1>1 DEF Events
<1>3. Cap = {}
  BY <1>1, <1>2 DEF Cap, Members
<1>4. Ordered
  BY <1>1, <1>2, <1>3 DEF Ordered, Rises, Below
<1>5. Nesting /\ Entered /\ Paired
  <2>1. 1..(nextInvocation - 1) = {}
    BY <1>1
  <2> QED BY <1>1, <1>2, <1>3, <2>1 DEF Nesting, Entered, Paired
<1>6. NestOwed
  <2>1. Popped(<<>>) = NothingOpen
    BY <1>2, NestedFold DEF Popped
  <2>2. Owed(NothingOpen, <<>>, 1)
    BY <1>2 DEF Owed, NothingOpen
  <2> QED BY <1>1, <1>2, <2>1, <2>2 DEF NestOwed
<1>7. Announced
  BY DEF Init, Announced
<1> QED BY <1>3, <1>4, <1>5, <1>6, <1>7 DEF Sound

(* Every step of an undisturbed capture keeps it. *)
LEMMA SoundNext == TypeInv /\ WholeInv /\ SoundInv /\ [CaptureStep]_vars => SoundInv'
<1> SUFFICES ASSUME TypeInv, WholeInv, SoundInv, [CaptureStep]_vars PROVE SoundInv'
  OBVIOUS
<1>0. ASSUME NEW recs, Probed(recs), ProbeFits(recs) PROVE SoundInv'
  <2>1. SUFFICES ASSUME faults' = {} PROVE Sound' /\ Announced'
    BY DEF SoundInv
  <2>2. faults = {}
    BY <1>0, <2>1 DEF Probed, Captured
  <2>3. Sound /\ Announced
    BY <2>2 DEF SoundInv
  <2>4. Sound'
    BY <1>0, <2>1, <2>3, SoundProbe
  <2>5. UNCHANGED <<phase, notes, block, receipt, probes, written>> /\ phase # "closed"
    BY <1>0 DEF Probed, Captured, files, clock, Alive
  <2>6. Announced'
    BY <2>3, <2>5 DEF Announced
  <2> QED BY <2>4, <2>6
<1>1. ASSUME NEW s \in Slots, NEW play \in BOOLEAN, Enter(s, play) PROVE SoundInv'
  <2>1. SUFFICES ASSUME faults' = {} PROVE Sound' /\ Announced'
    BY DEF SoundInv
  <2>2. /\ faults = {} /\ UNCHANGED <<phase, notes, block, receipt, probes, written>> /\ phase # "closed"
    BY <1>1, <2>1 DEF Enter, files, clock, Room, Alive
  <2>3. Sound /\ Announced
    BY <2>2 DEF SoundInv
  <2>4. Sound'
    BY <1>1, <2>1, <2>3, SoundEnter
  <2>5. Announced'
    BY <2>2, <2>3 DEF Announced
  <2> QED BY <2>4, <2>5
<1>2. ASSUME NEW readable \in BOOLEAN, Leave(readable) PROVE SoundInv'
  <2>1. SUFFICES ASSUME faults' = {} PROVE Sound' /\ Announced'
    BY DEF SoundInv
  <2>2. /\ UNCHANGED <<phase, notes, block, receipt, probes, written>> /\ phase # "closed"
    BY <1>2 DEF Leave, files, clock, Alive
  <2>3. faults = {}
    BY <1>2, <2>1, LeaveCapture DEF TypeInv
  <2>4. Sound /\ Announced
    BY <2>3 DEF SoundInv
  <2>5. Sound'
    BY <1>2, <2>1, <2>3, <2>4, SoundLeave DEF WholeInv
  <2>6. Announced'
    BY <2>2, <2>4 DEF Announced
  <2> QED BY <2>5, <2>6
<1>3. ASSUME NEW s \in Slots, NEW stage \in Stages, NEW readable \in BOOLEAN, Store(s, stage, readable)
      PROVE  SoundInv'
  BY <1>0, <1>3, StoreProbed, SlotFits
<1>4. ASSUME NEW s \in Slots, NEW chain \in BOOLEAN, NEW readable \in BOOLEAN, Mark(s, chain, readable)
      PROVE  SoundInv'
  BY <1>0, <1>4, MarkProbed, SlotFits
<1>5. ASSUME NEW s \in Slots, NEW readable \in BOOLEAN, Recycle(s, readable) PROVE SoundInv'
  BY <1>0, <1>5, RecycleProbed, SlotFits
<1>6. CASE CaptureInitial
  <2>1. UNCHANGED <<probes, stack, spawnQueue, probeQueue, nextSequence, nextInvocation, faults,
                    written, notes, block, receipt, phase>>
    BY <1>6 DEF CaptureInitial, capture, files, clock
  <2> QED BY <2>1 DEF SoundInv, Sound, Cap, Ordered, Nesting, Entered, NestOwed, Popped, Paired, Announced
<1>12. ASSUME NEW s \in Slots, NEW stage \in Phases, Turn(s, stage) PROVE SoundInv'
  <2>1. UNCHANGED <<probes, stack, spawnQueue, probeQueue, nextSequence, nextInvocation, faults,
                    written, notes, block, receipt, phase>>
    BY <1>12, TurnStep DEF capture, files, clock
  <2> QED BY <2>1 DEF SoundInv, Sound, Cap, Ordered, Nesting, Entered, NestOwed, Popped, Paired, Announced
<1>7. CASE BeginCall
  BY <1>7, BeginCallStep, SoundObserve
<1>8. CASE EndCall
  BY <1>8, EndCallStep, SoundObserve
<1>9. CASE WriteEnding
  <2>1. UNCHANGED <<probes, stack, spawnQueue, probeQueue, nextSequence, nextInvocation, faults,
                    written, notes, block, receipt, phase>>
    BY <1>9 DEF WriteEnding, capture, files, clock
  <2> QED BY <2>1 DEF SoundInv, Sound, Cap, Ordered, Nesting, Entered, NestOwed, Popped, Paired, Announced
<1>10. CASE Close
  BY <1>10, CloseStep, SoundClose
<1>11. CASE UNCHANGED vars
  <2>1. UNCHANGED <<probes, stack, spawnQueue, probeQueue, nextSequence, nextInvocation, faults,
                    written, notes, block, receipt, phase>>
    BY <1>11 DEF vars, capture, files, clock
  <2> QED BY <2>1 DEF SoundInv, Sound, Cap, Ordered, Nesting, Entered, NestOwed, Popped, Paired, Announced
<1> QED BY <1>1, <1>2, <1>3, <1>4, <1>5, <1>6, <1>7, <1>8, <1>9, <1>10, <1>11, <1>12 DEF CaptureStep
----------------------------------------------------------------------------
(* What the validator says of an undisturbed capture *)

(* What an evidence stream that is read must show. *)
Reads(read, torn, close) ==
    LET live == LivePrefix(View(read, torn), close)
    IN  /\ torn => live
        /\ EnvelopesFit(read, Session)
        /\ SequencesRise(Events(read))
        /\ NestingFits(Events(read), ~live)
        /\ ProbeContract(View(read, torn), live)

(* The verdict over it. *)
LEMMA ReadVerdict ==
    ASSUME NEW read, NEW torn \in BOOLEAN, NEW close \in BOOLEAN, Reads(read, torn, close),
           notes \subseteq {"probes_closed"},
           receipt = {} => ~close,
           \A r \in receipt : /\ r.session = Session /\ r.records = read /\ r.block = block /\ r.healthy = TRUE
                              /\ block.enabled => block.healthy = TRUE /\ "probes_closed" \in notes
    PROVE  Validate(View(read, torn), close) = IF receipt = {} THEN "open" ELSE "valid"
<1> DEFINE v == View(read, torn)
<1>1. /\ v.declared /\ v.enabled /\ v.session = Session /\ v.records = read /\ v.receipt = receipt
      /\ v.torn = torn /\ v.notes = notes /\ v.block = block
  BY DEF View
<1> HIDE DEF v
<1>2. MaybeMode(v) = "enabled"
  BY <1>1 DEF MaybeMode
<1>3. Validate(v, close) = ReadValidation(v, close)
  BY <1>2 DEF Validate
<1> DEFINE live == LivePrefix(v, close)
<1>4. /\ v.torn => live
      /\ EnvelopesFit(v.records, v.session)
      /\ SequencesRise(Events(v.records))
      /\ NestingFits(Events(v.records), ~live)
      /\ ProbeContract(v, live)
  BY <1>1 DEF Reads, v
<1>5. ScanFits(v)
  BY <1>1 DEF ScanFits
<1>6. ReceiptFits(v)
  <2>1. SUFFICES ASSUME NEW r \in receipt
                 PROVE  IF v.block.enabled THEN ProbeReceiptBinds(v, r) /\ HealthTold(v, r) ELSE ReceiptBinds(v, r)
    BY <1>1 DEF ReceiptFits
  <2>2. /\ r.session = Session /\ r.records = read /\ r.block = block /\ r.healthy = TRUE
        /\ block.enabled => block.healthy = TRUE /\ "probes_closed" \in notes
    OBVIOUS
  <2>3. ReceiptBinds(v, r)
    BY <1>1, <2>2 DEF ReceiptBinds
  <2>4. v.block.enabled => ProbeReceiptBinds(v, r) /\ HealthTold(v, r)
    BY <1>1, <2>2, <2>3 DEF ProbeReceiptBinds, HealthTold
  <2> QED BY <2>3, <2>4
<1>7. IdentitiesFit(v)
  <2>1. \A i \in 1..Len(read) : read[i].session = Session
    BY <1>1, <1>4 DEF EnvelopesFit
  <2>2. \A i \in 1..Len(read) : 1 \in 1..Len(read)
    <3>1. ASSUME NEW i \in 1..Len(read) PROVE 1 \in 1..Len(read)
      <4> DEFINE n == Len(read)
      <4>1. i \in Int /\ 1 <= i /\ i <= n /\ n = Len(read)
        OBVIOUS
      <4> QED BY <4>1
    <3> QED BY <3>1
  <2> QED BY <1>1, <2>1, <2>2 DEF IdentitiesFit
<1> HIDE DEF live
<1>8. ReadValidation(v, close) = IF receipt = {} THEN "open" ELSE "valid"
  BY <1>1, <1>4, <1>5, <1>6, <1>7 DEF ReadValidation, live
<1> QED BY <1>3, <1>8 DEF v

(* Each line that is read is a captured fact in its place. *)
LEMMA PrefixFits ==
    ASSUME TypeInv, Numbered, Sound, NEW n \in 0..Len(written), NEW read, read = SubSeq(written, 1, n)
    PROVE  /\ Events(read) \in Seq(Event) /\ Len(Events(read)) = n
           /\ \A i \in 1..n : Events(read)[i] = Events(written)[i] /\ Events(read)[i] \in Cap
           /\ EnvelopesFit(read, Session) /\ Rises(Events(read)) /\ SequencesRise(Events(read))
           /\ Nested(Events(read))[n].ok
<1> DEFINE W == Events(written)  E == Events(read)
<1>1. written \in Seq(Line) /\ n \in Nat /\ n <= Len(written)
  BY DEF TypeInv, FilesType
<1>2. read \in Seq(Line) /\ Len(read) = n /\ \A i \in 1..n : read[i] = written[i] /\ i \in 1..Len(written)
  BY <1>1, PrefixOf
<1>3. /\ E \in Seq(Event) /\ Len(E) = n /\ \A i \in 1..n : E[i] = read[i].event
      /\ W \in Seq(Event) /\ Len(W) = Len(written) /\ \A i \in 1..Len(written) : W[i] = written[i].event
  BY <1>1, <1>2, EventsOf
<1>4. \A i \in 1..n : E[i] = W[i] /\ i \in 1..Len(W)
  BY <1>2, <1>3
<1>5. \A i \in 1..n : E[i] \in Cap
  <2>1. \A i \in 1..Len(W) : W[i] \in Cap
    BY DEF Cap, Members
  <2> QED BY <1>4, <2>1
<1> HIDE DEF E
<1>6. EnvelopesFit(read, Session)
  <2>1. ASSUME NEW i \in 1..Len(read)
        PROVE  read[i].fileSeq = i - 1 /\ read[i].session = Session /\ EventFits(read[i].event)
    <3>1. read[i] = written[i] /\ i \in 1..Len(written) /\ i \in 1..n /\ E[i] = read[i].event
      BY <1>2, <1>3
    <3>2. EventFits(E[i])
      BY <1>5, <3>1 DEF Sound
    <3> QED BY <3>1, <3>2 DEF Numbered
  <2> QED BY <2>1 DEF EnvelopesFit
<1>7. Rises(E)
  <2>1. ASSUME NEW i \in 1..n, NEW j \in 1..n, i < j PROVE E[i].seq < E[j].seq
    BY <1>4, <2>1 DEF Sound, Ordered, Rises
  <2> QED BY <1>3, <2>1 DEF Rises
<1>8. SequencesRise(E)
  <2>1. ASSUME NEW i \in 1..(Len(E) - 1) PROVE E[i].seq < E[i + 1].seq
    <3>1. i \in 1..Len(E) /\ i + 1 \in 1..Len(E) /\ i < i + 1
      BY <1>1, <1>3
    <3> QED BY <1>7, <3>1 DEF Rises
  <2> QED BY <2>1 DEF SequencesRise
<1>9. Nested(E)[n].ok
  <2> DEFINE y == W \o spawnQueue
  <2>1. Owed(Popped(y), stack, nextInvocation) /\ spawnQueue \in Seq(Event)
    BY CapEvents DEF Sound, NestOwed
  <2>2. Popped(y).ok
    BY <2>1 DEF Owed
  <2>3. y \in Seq(Event) /\ Len(y) = Len(W) + Len(spawnQueue) /\ \A i \in 1..Len(W) : y[i] = W[i]
    <3>1. W \in Seq(Event) /\ spawnQueue \in Seq(Event) /\ y = W \o spawnQueue
      BY <1>3, <2>1
    <3> HIDE DEF y, W
    <3>2. /\ W \o spawnQueue \in Seq(Event) /\ Len(W \o spawnQueue) = Len(W) + Len(spawnQueue)
          /\ \A i \in 1..Len(W) : (W \o spawnQueue)[i] = W[i]
      BY <3>1, Joined
    <3> QED BY <3>1, <3>2
  <2>4. n <= Len(y) /\ Len(spawnQueue) \in Nat /\ Len(W) \in Nat
    BY <1>1, <1>3, <2>1, <2>3
  <2> HIDE DEF y, W
  <2>5. Nested(y)[n].ok
    BY <1>1, <2>2, <2>3, <2>4, NestedOk DEF Popped
  <2>6. Nested(E)[n] = Nested(y)[n]
    <3>1. \A i \in 1..n : E[i] = y[i]
      BY <1>4, <2>3
    <3>2. n <= Len(E)
      BY <1>1, <1>3
    <3> QED BY <1>1, <1>3, <2>3, <2>4, <3>1, <3>2, NestedPrefix
  <2> QED BY <2>5, <2>6
<1> QED BY <1>3, <1>4, <1>5, <1>6, <1>7, <1>8, <1>9 DEF E
(* No two of the events that are read are one, and none has another's invocation. *)
LEMMA ExitsDiffer ==
    ASSUME TypeInv, Sound, NEW events \in Seq(Event), Rises(events), \A i \in 1..Len(events) : events[i] \in Cap
    PROVE  /\ \A i, j \in 1..Len(events) : events[i].seq = events[j].seq => i = j
           /\ \A i, j \in 1..Len(events) :
                 events[i].kind = "init" /\ events[j].kind = "init" /\ events[i].inv = events[j].inv => i = j
<1>1. ASSUME NEW i \in 1..Len(events), NEW j \in 1..Len(events), events[i].seq = events[j].seq PROVE i = j
  <2>1. events[i].seq \in Nat
    BY CapEvents
  <2>2. ~(i < j) /\ ~(j < i)
    BY <1>1, <2>1 DEF Rises
  <2> QED BY <2>2
<1>2. ASSUME NEW i \in 1..Len(events), NEW j \in 1..Len(events),
             events[i].kind = "init", events[j].kind = "init", events[i].inv = events[j].inv
      PROVE  i = j
  <2>1. events[i] = events[j]
    BY <1>2 DEF Sound, Entered
  <2> QED BY <1>1, <2>1
<1> QED BY <1>1, <1>2

(* A closed stream holds every initializer, and every recycled slot's pair. *)
LEMMA ClosedFits ==
    ASSUME TypeInv, Numbered, Sound, stack = <<>>, spawnQueue = <<>>, probeQueue = <<>>,
           NEW W, W = Events(written)
    PROVE  /\ W \in Seq(Event) /\ EnvelopesFit(written, Session) /\ SequencesRise(W)
           /\ NestingFits(W, TRUE) /\ PairsFit(W, FALSE)
           /\ ~probes => \A i \in 1..Len(W) : W[i].kind = "init"
<1> DEFINE n == Len(W)
<1>1. written \in Seq(Line) /\ Len(written) \in 0..Len(written) /\ SubSeq(written, 1, Len(written)) = written
  BY DEF TypeInv, FilesType
<1>2. /\ W \in Seq(Event) /\ n = Len(written) /\ n \in Nat /\ \A i \in 1..n : W[i] \in Cap
      /\ EnvelopesFit(written, Session) /\ Rises(W) /\ SequencesRise(W) /\ Nested(W)[n].ok
  <2> DEFINE m == Len(written)
  <2>1. m \in 0..Len(written) /\ written = SubSeq(written, 1, m)
    BY <1>1
  <2>2. m \in Nat /\ m = Len(written)
    BY <1>1
  <2> HIDE DEF m
  <2>3. /\ W \in Seq(Event) /\ n = m /\ \A i \in 1..m : W[i] \in Cap
        /\ EnvelopesFit(written, Session) /\ Rises(W) /\ SequencesRise(W) /\ Nested(W)[m].ok
    BY <2>1, PrefixFits
  <2> QED BY <2>2, <2>3
<1>3. Cap = Members(W)
  BY DEF Cap, Members
<1>4. \A e \in Cap : \E i \in 1..n : e = W[i]
  BY <1>3 DEF Members
<1>5. /\ \A i, j \in 1..n : W[i].seq = W[j].seq => i = j
      /\ \A i, j \in 1..n : W[i].kind = "init" /\ W[j].kind = "init" /\ W[i].inv = W[j].inv => i = j
  BY <1>2, ExitsDiffer
<1>6. \A i \in 1..n : W[i].seq \in Nat /\ W[i].inv \in Nat
  BY <1>2, CapEvents
<1> DEFINE exits == {i \in 1..n : W[i].kind = "init"}
           N == nextInvocation - 1
<1>7. nextInvocation \in Nat \ {0} /\ N \in Nat /\ Len(stack) = 0
  BY DEF TypeInv, CaptureType
<1>8. {W[i].inv : i \in exits} = 1..N
  <2>1. ASSUME NEW i \in exits PROVE W[i].inv \in 1..N
    <3>1. W[i].inv > 0 /\ W[i].inv < nextInvocation /\ W[i].inv \in Nat
      BY <1>2, <1>6 DEF Sound, Entered
    <3> QED BY <1>7, <3>1
  <2>2. ASSUME NEW k \in 1..N PROVE \E i \in exits : W[i].inv = k
    <3>1. \E e \in Cap : e.kind = "init" /\ e.inv = k
      <4>1. ~\E j \in 1..Len(stack) : stack[j].inv = k
        BY <1>7
      <4> QED BY <4>1 DEF Sound, Entered
    <3> QED BY <1>4, <3>1
  <2> QED BY <2>1, <2>2
<1>9. Cardinality(exits) = N
  <2> DEFINE f == [i \in exits |-> W[i].inv]
  <2>1. IsFiniteSet(1..N) /\ Cardinality(1..N) = N
    <3>1. 1 \in Int /\ N \in Int
      BY <1>7
    <3> HIDE DEF N
    <3>2. IsFiniteSet(1..N) /\ Cardinality(1..N) = IF 1 > N THEN 0 ELSE N - 1 + 1
      BY <3>1, FS_Interval
    <3> QED BY <1>7, <3>2
  <2>2. f \in [exits -> 1..N] /\ \A k \in 1..N : \E i \in exits : f[i] = k
    BY <1>8
  <2>3. \A i, j \in exits : f[i] = f[j] => i = j
    BY <1>5
  <2> HIDE DEF f, exits, N
  <2>4. f \in Injection(exits, 1..N) /\ f \in Surjection(exits, 1..N)
    BY <2>2, <2>3 DEF Injection, IsInjective, Surjection
  <2> QED BY <2>1, <2>4, FS_Injection
<1>10. Nested(W)[n].open = <<>>
  <2> DEFINE end == Nested(W)[n]
  <2>1. W \o spawnQueue = W
    BY <1>2
  <2>2. Owed(end, stack, nextInvocation)
    BY <2>1 DEF Sound, NestOwed, Popped
  <2>3. end \in States
    BY <1>2, NestedFold
  <2> HIDE DEF end
  <2>4. end.open \in Seq(Nat) /\ end.next \in Nat /\ Len(end.open) \in Nat
    BY <2>3 DEF States
  <2>5. Len(stack) = Len(end.open) + (nextInvocation - end.next) /\ end.next <= nextInvocation
    BY <2>2 DEF Owed
  <2>6. Len(end.open) = 0
    BY <1>7, <2>4, <2>5
  <2>7. end.open = <<>>
    BY <2>4, <2>6
  <2> QED BY <2>7 DEF end
<1>11. NestingFits(W, TRUE)
  <2>1. \A i, j \in exits : W[i].inv = W[j].inv => i = j
    BY <1>5
  <2> HIDE DEF N
  <2>2. {W[i].inv : i \in exits} = 1..Cardinality(exits)
    BY <1>8, <1>9
  <2> QED BY <1>2, <1>10, <2>1, <2>2 DEF NestingFits
<1> DEFINE Candidates(i) == {j \in 1..(i - 1) : W[j].kind = "candidate" /\ W[j].seq = W[i].ref}
           commits == {i \in 1..n : W[i].kind = "commit"}
<1>12. PairsFit(W, FALSE)
  <2>0. /\ \A c \in Cap : c.kind = "commit" =>
             c.ref = c.seq - 1 /\ \E d \in Cap : d.kind = "candidate" /\ d.seq = c.ref /\ d.z = c.z
        /\ \A d \in Cap : d.kind = "candidate" => \E c \in Cap : c.kind = "commit" /\ c.ref = d.seq
    BY DEF Sound, Paired
  <2>1. ASSUME NEW i \in commits PROVE W[i].ref = W[i].seq - 1 /\ \E j \in Candidates(i) : W[j].z = W[i].z
    <3>1. W[i] \in Cap /\ W[i].kind = "commit"
      BY <1>2
    <3>2. /\ W[i].ref = W[i].seq - 1
          /\ \E d \in Cap : d.kind = "candidate" /\ d.seq = W[i].ref /\ d.z = W[i].z
      BY <2>0, <3>1
    <3>3. PICK j \in 1..n : W[j].kind = "candidate" /\ W[j].seq = W[i].ref /\ W[j].z = W[i].z
      BY <1>4, <3>2
    <3>4. W[j].seq < W[i].seq
      BY <1>6, <3>2, <3>3
    <3>5. j < i
      <4>1. ~(i < j)
        <5>1. i < j => W[i].seq < W[j].seq
          BY <1>2 DEF Rises
        <5> QED BY <1>6, <3>4, <5>1
      <4>2. i # j
        BY <3>1, <3>3
      <4> QED BY <4>1, <4>2
    <3>6. j \in 1..(i - 1)
      BY <1>2, <3>5
    <3> QED BY <3>2, <3>3, <3>6
  <2>2. \A i, j \in commits : W[i].ref = W[j].ref => i = j
    <3>1. ASSUME NEW i \in commits, NEW j \in commits, W[i].ref = W[j].ref PROVE i = j
      <4>1. W[i].ref = W[i].seq - 1 /\ W[j].ref = W[j].seq - 1
        BY <2>1
      <4>2. W[i].seq = W[j].seq
        <5> DEFINE a == W[i].seq  b == W[j].seq
        <5>1. a \in Nat /\ b \in Nat /\ a - 1 = b - 1
          BY <1>6, <3>1, <4>1
        <5> HIDE DEF a, b
        <5>2. a = b
          BY <5>1
        <5> QED BY <5>2 DEF a, b
      <4> QED BY <1>5, <4>2
    <3> QED BY <3>1
  <2>3. ASSUME NEW j \in 1..n, W[j].kind = "candidate" PROVE \E i \in commits : W[i].ref = W[j].seq
    <3>1. W[j] \in Cap
      BY <1>2
    <3>2. PICK c \in Cap : c.kind = "commit" /\ c.ref = W[j].seq
      BY <2>0, <2>3, <3>1
    <3>3. PICK i \in 1..n : c = W[i]
      BY <1>4
    <3> QED BY <3>2, <3>3
  <2>4. \A i \in commits : \E j \in Candidates(i) : W[j].z = W[i].z
    BY <2>1
  <2> QED BY <2>2, <2>3, <2>4 DEF PairsFit
<1>13. ~probes => \A i \in 1..n : W[i].kind = "init"
  BY <1>2 DEF Sound, Ordered
<1> QED BY <1>2, <1>11, <1>12, <1>13

(* An undisturbed run is not refused. *)
LEMMA SoundHolds == TypeInv /\ WholeInv /\ SoundInv => NoFalseRefusal
<1> SUFFICES ASSUME TypeInv, WholeInv, SoundInv, faults = {}
             PROVE  /\ receipt = {} /\ ~probes =>
                          \A lines \in Seen, torn \in Torn : Validate(View(lines, torn), FALSE) = "open"
                    /\ phase = "closed" => Validate(View(written, FALSE), TRUE) = "valid"
  BY DEF NoFalseRefusal
<1>1. Sound /\ Announced /\ Numbered
  BY DEF SoundInv, WholeInv
<1>2. notes \subseteq {"probes_closed"} /\ (block.enabled <=> probes)
  BY <1>1 DEF Announced
<1>3. ASSUME receipt = {}, ~probes, NEW lines \in Seen, NEW torn \in Torn
      PROVE  Validate(View(lines, torn), FALSE) = "open"
  <2>1. PICK n \in 0..Len(written) : lines = SubSeq(written, 1, n)
    BY <1>3 DEF Seen
  <2>2. torn \in BOOLEAN
    BY <1>3 DEF Torn
  <2> DEFINE E == Events(lines)
  <2>3. /\ E \in Seq(Event) /\ Len(E) = n /\ \A i \in 1..n : E[i] \in Cap
        /\ EnvelopesFit(lines, Session) /\ Rises(E) /\ SequencesRise(E) /\ Nested(E)[n].ok
    BY <1>1, <2>1, PrefixFits
  <2> HIDE DEF E
  <2>4. \A i, j \in 1..Len(E) : E[i].kind = "init" /\ E[j].kind = "init" /\ E[i].inv = E[j].inv => i = j
    BY <1>1, <2>3, ExitsDiffer
  <2>5. NestingFits(E, FALSE)
    BY <2>3, <2>4 DEF NestingFits
  <2>6. \A i \in 1..Len(E) : E[i].kind = "init"
    BY <1>1, <1>3, <2>3 DEF Sound, Ordered
  <2>7. LivePrefix(View(lines, torn), FALSE)
    BY <1>3 DEF LivePrefix, View
  <2>8. ProbeContract(View(lines, torn), TRUE)
    <3>1. View(lines, torn).records = lines /\ ~View(lines, torn).block.enabled
      BY <1>2, <1>3 DEF View
    <3> QED BY <2>6, <3>1 DEF ProbeContract, E
  <2>9. Reads(lines, torn, FALSE)
    BY <2>3, <2>5, <2>7, <2>8 DEF Reads, E
  <2> QED BY <1>2, <1>3, <2>2, <2>9, ReadVerdict
<1>4. ASSUME phase = "closed" PROVE Validate(View(written, FALSE), TRUE) = "valid"
  <2>1. /\ receipt = {[session |-> Session, records |-> written, block |-> block, healthy |-> TRUE]}
        /\ spawnQueue = <<>> /\ probeQueue = <<>> /\ stack = <<>>
        /\ probes => block.final /\ block.healthy /\ "probes_closed" \in notes
    BY <1>1, <1>4 DEF Announced
  <2> DEFINE W == Events(written)
  <2>2. /\ W \in Seq(Event) /\ EnvelopesFit(written, Session) /\ SequencesRise(W)
        /\ NestingFits(W, TRUE) /\ PairsFit(W, FALSE)
        /\ ~probes => \A i \in 1..Len(W) : W[i].kind = "init"
    BY <1>1, <2>1, ClosedFits
  <2> HIDE DEF W
  <2>3. LivePrefix(View(written, FALSE), TRUE) = FALSE
    BY DEF LivePrefix
  <2>4. ProbeContract(View(written, FALSE), FALSE)
    <3>1. View(written, FALSE).records = written /\ View(written, FALSE).block = block
      BY DEF View
    <3>2. CASE probes
      BY <1>2, <2>1, <2>2, <3>1, <3>2 DEF ProbeContract, W
    <3>3. CASE ~probes
      BY <1>2, <2>2, <3>1, <3>3 DEF ProbeContract, W
    <3> QED BY <3>2, <3>3
  <2>5. Reads(written, FALSE, TRUE)
    <3> DEFINE live == LivePrefix(View(written, FALSE), TRUE)
    <3>1. live = FALSE /\ (~live) = TRUE
      BY <2>3
    <3> HIDE DEF live
    <3>2. NestingFits(W, ~live) /\ ProbeContract(View(written, FALSE), live)
      BY <2>2, <2>4, <3>1
    <3> QED BY <2>2, <3>2 DEF Reads, W, live
  <2>6. block.healthy \in BOOLEAN
    BY DEF TypeInv, FilesType, Block
  <2>7. \A r \in receipt : /\ r.session = Session /\ r.records = written /\ r.block = block /\ r.healthy = TRUE
                           /\ block.enabled => block.healthy = TRUE /\ "probes_closed" \in notes
    BY <1>2, <2>1, <2>6
  <2>8. receipt # {}
    BY <2>1
  <2> QED BY <1>2, <2>5, <2>7, <2>8, ReadVerdict
<1> QED BY <1>3, <1>4

(* No false alarm: a run whose capture met no fault is never refused: what a    *)
(* reader finds of its unfinished stream is open, and its closed stream valid.  *)
THEOREM NeverRefused == Spec => []NoFalseRefusal
<1>1. Init => TypeInv /\ WholeInv /\ SoundInv
  BY TypeInit, WholeInit, SoundInit
<1>2. TypeInv /\ WholeInv /\ SoundInv /\ [CaptureStep]_vars => (TypeInv /\ WholeInv /\ SoundInv)'
  BY TypeNext, WholeNext, SoundNext
<1>3. TypeInv /\ WholeInv /\ SoundInv => NoFalseRefusal
  BY SoundHolds
<1> QED BY <1>1, <1>2, <1>3, PTL DEF Spec
----------------------------------------------------------------------------
(* What an undisturbed capture knows of the losses *)

Blows == {"phase", "removal"}

(* A zombie the level held, dying, when the hooks were installed: no boundary *)
(* shows it alive, and no initializer of it was captured or runs.             *)
Dying(z) ==
    /\ z[2] <= pool[z[1]].gen
    /\ \A j \in 1..(Len(frames) + 1) :
         Reached(j)[z[1]].gen = z[2] => Reached(j)[z[1]].used /\ Reached(j)[z[1]].stage \in Death
Unborn(z) ==
    /\ \A e \in Cap : e.kind = "init" => e.z # z
    /\ \A k \in 1..Len(stack) : stack[k].z # z
Doomed(z) == Dying(z) /\ Unborn(z)

FreshSlots == \A s \in Slots : ~pool[s].used => pool[s].stage = 0 /\ ~pool[s].gone

(* A first loss is captured, and before every other blow to its zombie. *)
Of(e, loss) == e.seq = loss.seq /\ e.z = loss.z /\ e.play = loss.play
Opening(e) == e.kind = "removal" \/ (e.kind = "phase" /\ e.before \notin Death)
LossesCaptured ==
    \A i \in 1..Len(truth) :
        /\ truth[i].seq < nextSequence
        /\ \A j \in 1..(i - 1) : truth[j].seq < truth[i].seq
        /\ \E e \in Cap : Of(e, truth[i]) /\ Opening(e)
        /\ \A e \in Cap : e.kind \in Blows /\ e.z = truth[i].z => truth[i].seq <= e.seq

(* A captured blow is a first loss, or follows a captured death, or is to a *)
(* zombie that was dying before all capture.                                *)
Explained(e) ==
    /\ e.kind = "phase" /\ e.before \notin Death => \E i \in 1..Len(truth) : Of(e, truth[i]) /\ truth[i].kill
    /\ e.kind = "removal" =>
         /\ e.before = 0
         /\ \/ \E i \in 1..Len(truth) : Of(e, truth[i]) /\ (truth[i].kill <=> e.chain)
            \/ \E p \in Cap : p.kind = "phase" /\ p.z = e.z /\ p.seq < e.seq
            \/ Doomed(e.z)
BlowsExplained == \A e \in Cap : Explained(e)

(* What the pool shows of the captured blows. *)
Unhurt(s) == pool[s].used /\ pool[s].stage \notin Death /\ ~pool[s].gone
Unhit == \A s \in Slots : Unhurt(s) => \A e \in Cap : e.kind \in Blows => e.z # Id(s)
Struck ==
    \A s \in Slots : pool[s].used /\ pool[s].stage \in Death =>
        Doomed(Id(s)) \/ \E p \in Cap : p.kind = "phase" /\ p.z = Id(s)
Known(e) ==
    /\ e.z[2] <= pool[e.z[1]].gen
    /\ e.z[2] = pool[e.z[1]].gen => pool[e.z[1]].used /\ e.play = pool[e.z[1]].play
    /\ \A f \in Cap : f.kind \in Blows /\ f.z = e.z => f.play = e.play
BlowsKnown == \A e \in Cap : e.kind \in Blows => Known(e)

(* Versions rise with the boundaries, and a blow in a call belongs to the *)
(* boundary it began at, the last of its version.                         *)
VersionsRise ==
    /\ \A i \in 1..Len(frames) : frames[i].ver <= version /\ \A j \in 1..i : frames[j].ver <= frames[i].ver
    /\ phase = "calm" => boundary = Null
    /\ phase = "call" => boundary = version /\ Len(frames) > 0 /\ frames[Len(frames)].ver = version
Timed(at, ver) ==
    /\ at \in 1..Len(frames)
    /\ phase # "call" => at < Len(frames)
    /\ \A j \in 1..Len(frames) : (j = at => frames[j].ver = ver) /\ (j > at => ver < frames[j].ver)
LossesTimed ==
    \A i \in 1..Len(truth) : \A e \in Cap : e.seq = truth[i].seq /\ e.ver # Null => Timed(truth[i].at, e.ver)

KillSound == LossesCaptured /\ BlowsExplained /\ Unhit /\ Struck /\ BlowsKnown /\ VersionsRise /\ LossesTimed
KillInv == FreshSlots /\ (probes /\ faults = {} => KillSound)

(* A zombie that was dying before all capture is never seen otherwise. *)
LEMMA DyingKept ==
    ASSUME TypeInv, TypeInv', Framed \/ Moving \/ Idle, NEW z \in Zombies, Dying(z)
    PROVE  Dying(z)'
<1> DEFINE s == z[1]  g == z[2]
<1>1. s \in Slots /\ g \in Nat
  BY DEF Zombies
<1> HIDE DEF s, g
<1>0. /\ Len(frames) \in Nat /\ Reached(Len(frames) + 1) = pool
      /\ pool \in Pool /\ pool' \in Pool
  BY ReachedType DEF TypeInv, GameType
<1>2. /\ pool[s] \in Creature /\ pool'[s] \in Creature /\ pool[s].gen \in Nat /\ pool'[s].gen \in Nat
  BY <1>0, <1>1 DEF Pool, Creature
<1> DEFINE DyingIn(p) == p[s].gen = g => p[s].used /\ p[s].stage \in Death
<1>3. g <= pool[s].gen /\ \A j \in 1..(Len(frames) + 1) : DyingIn(Reached(j))
  BY DEF Dying, s, g
<1>4. DyingIn(pool)
  <2>1. Len(frames) + 1 \in 1..(Len(frames) + 1)
    BY <1>0
  <2> HIDE DEF DyingIn
  <2> QED BY <1>0, <1>3, <2>1
<1>5. SUFFICES g <= pool'[s].gen /\ \A j \in 1..(Len(frames') + 1) : DyingIn(Reached(j)')
  BY DEF Dying, s, g
<1>6. CASE Framed
  <2>1. /\ Len(frames') = Len(frames) + 1
        /\ \A j \in 1..(Len(frames) + 1) : Reached(j)' = Reached(j)
        /\ \A j : j = Len(frames) + 2 => Reached(j)' = pool
        /\ pool' = pool
    BY <1>6, FramedReached
  <2>2. \A j \in 1..(Len(frames') + 1) : j \in 1..(Len(frames) + 1) \/ j = Len(frames) + 2
    BY <1>0, <2>1
  <2> HIDE DEF DyingIn
  <2> QED BY <1>3, <1>4, <2>1, <2>2
<1>7. CASE Idle
  <2>1. \A j : Reached(j)' = Reached(j)
    BY <1>7, IdleReached
  <2>2. pool' = pool /\ frames' = frames
    BY <1>7 DEF Idle
  <2> HIDE DEF DyingIn
  <2> QED BY <1>3, <2>1, <2>2
<1>8. CASE Moving
  <2>1. PICK t \in Slots : SlotStep(t) /\ frames' = frames
    BY <1>8 DEF Moving
  <2>2. /\ \A j \in 1..Len(frames) : Reached(j)' = Reached(j)
        /\ \A j : j = Len(frames) + 1 => Reached(j)' = pool'
    BY <2>1, MovingReached
  <2>3. g <= pool'[s].gen /\ DyingIn(pool')
    <3>1. CASE t # s
      BY <1>1, <1>3, <1>4, <2>1, <3>1 DEF SlotStep, Elsewhere
    <3>2. CASE t = s
      <4>1. CASE Birth(s)
        BY <1>3, <1>4, <4>1 DEF Birth
      <4>2. CASE Blow(s)
        BY <1>3, <1>4, <4>2 DEF Blow
      <4>3. CASE Recycling(s)
        <5>1. pool'[s].gen = pool[s].gen + 1
          BY <4>3 DEF Recycling
        <5> QED BY <1>1, <1>2, <1>3, <5>1
      <4>4. CASE Turning(s)
        BY <1>3, <1>4, <4>4 DEF Turning
      <4> QED BY <2>1, <3>2, <4>1, <4>2, <4>3, <4>4 DEF SlotStep
    <3> QED BY <3>1, <3>2
  <2>4. \A j \in 1..(Len(frames') + 1) : j \in 1..(Len(frames) + 1) /\ (j \in 1..Len(frames) \/ j = Len(frames) + 1)
    BY <1>0, <2>1
  <2> HIDE DEF DyingIn
  <2> QED BY <1>3, <2>2, <2>3, <2>4
<1> QED BY <1>6, <1>7, <1>8

(* The captures of a step: after all before it. *)
Grown(new) ==
    /\ Cap' = Cap \cup new
    /\ \A e \in new : e \in Event /\ e.seq >= nextSequence /\ e.seq < nextSequence'
    /\ nextSequence <= nextSequence'

(* It stays doomed while no initializer of it is captured. *)
LEMMA DoomedKept ==
    ASSUME TypeInv, TypeInv', [CaptureStep]_vars, NEW new, Grown(new), NEW z \in Zombies, Doomed(z),
           \A e \in new : e.kind = "init" => e.z # z,
           \A k \in 1..Len(stack') : stack'[k].z # z
    PROVE  Doomed(z)'
<1>1. Dying(z)'
  BY StepKinds, DyingKept DEF Doomed
<1>2. Unborn(z)'
  <2>1. Cap' = Cap \cup new
    BY DEF Grown
  <2> QED BY <2>1 DEF Doomed, Unborn
<1> QED BY <1>1, <1>2 DEF Doomed

(* A step without a captured blow keeps what is known of losses and blows. *)
LEMMA LossQuiet ==
    ASSUME TypeInv, TypeInv', LossesCaptured, BlowsExplained, NEW new, Grown(new), truth' = truth,
           \A e \in new : e.kind \notin Blows,
           \A z \in Zombies : Doomed(z) => Doomed(z)'
    PROVE  LossesCaptured' /\ BlowsExplained'
<1>0. nextSequence \in Nat /\ nextSequence' \in Nat /\ \A i \in 1..Len(truth) : truth[i].seq \in Nat
  BY LossParts DEF TypeInv, CaptureType
<1>1. Cap' = Cap \cup new /\ nextSequence <= nextSequence' /\ \A e \in new : e \in Event
  BY DEF Grown
<1>2. \A e, i : Of(e, truth'[i]) <=> Of(e, truth[i])
  OBVIOUS
<1>3. ASSUME NEW i \in 1..Len(truth)
      PROVE  /\ truth[i].seq < nextSequence'
             /\ \A j \in 1..(i - 1) : truth[j].seq < truth[i].seq
             /\ \E e \in Cap' : Of(e, truth[i]) /\ Opening(e)
             /\ \A e \in Cap' : e.kind \in Blows /\ e.z = truth[i].z => truth[i].seq <= e.seq
  <2>1. /\ truth[i].seq < nextSequence
        /\ \A j \in 1..(i - 1) : truth[j].seq < truth[i].seq
        /\ \E e \in Cap : Of(e, truth[i]) /\ Opening(e)
        /\ \A e \in Cap : e.kind \in Blows /\ e.z = truth[i].z => truth[i].seq <= e.seq
    BY DEF LossesCaptured
  <2> QED BY <1>0, <1>1, <2>1
<1>4. LossesCaptured'
  BY <1>2, <1>3 DEF LossesCaptured
<1>5. ASSUME NEW e \in Cap' PROVE Explained(e)'
  <2>1. CASE e \in new
    <3>1. e.kind # "phase" /\ e.kind # "removal"
      BY <2>1 DEF Blows
    <3> QED BY <3>1 DEF Explained
  <2>2. CASE e \in Cap
    <3>1. e.z \in Zombies
      BY <2>2, CapEvents DEF Event
    <3>2. Explained(e)
      BY <2>2 DEF BlowsExplained
    <3> DEFINE z == e.z
    <3>3. Doomed(z) => Doomed(z)'
      BY <3>1
    <3> QED BY <1>1, <1>2, <3>2, <3>3 DEF Explained
  <2> QED BY <1>1, <2>1, <2>2
<1> QED BY <1>4, <1>5 DEF BlowsExplained
(* A store's or a removal's blow to the zombie in slot s, and its capture. *)
Striking(s, e) ==
    /\ e \in Event /\ Grown({e}) /\ e.seq = nextSequence /\ nextSequence < nextSequence'
    /\ e.z = Id(s) /\ e.play = pool[s].play /\ e.ver = boundary
    /\ Elsewhere(s) /\ pool[s].used /\ ~pool[s].gone
    /\ pool'[s].used /\ pool'[s].gen = pool[s].gen /\ pool'[s].play = pool[s].play
    /\ \/ /\ e.kind = "phase" /\ e.before = pool[s].stage
          /\ TruthStep(s, TRUE) /\ pool'[s].stage \in Death
       \/ /\ e.kind = "removal" /\ e.before = 0
          /\ TruthStep(s, e.chain) /\ pool'[s].stage = pool[s].stage /\ pool'[s].gone

(* The history after a blow: one more loss when the zombie was not dying. *)
LEMMA BlowTruth ==
    ASSUME TypeInv, NEW s \in Slots, NEW e, Striking(s, e)
    PROVE  LET n == Len(truth)
           IN  /\ n \in Nat /\ \A i \in 1..n : truth'[i] = truth[i]
               /\ pool[s].stage \in Death => truth' = truth
               /\ pool[s].stage \notin Death =>
                    /\ Len(truth') = n + 1
                    /\ truth'[n + 1].z = Id(s) /\ truth'[n + 1].play = pool[s].play
                    /\ truth'[n + 1].seq = nextSequence /\ truth'[n + 1].at = Len(frames)
                    /\ e.kind = "phase" => truth'[n + 1].kill = TRUE
                    /\ e.kind = "removal" => truth'[n + 1].kill = e.chain
<1> DEFINE n == Len(truth)  kill == IF e.kind = "phase" THEN TRUE ELSE e.chain
<1>1. kill \in BOOLEAN /\ TruthStep(s, kill) /\ (e.kind = "phase" => kill = TRUE) /\ (e.kind = "removal" => kill = e.chain)
  <2>1. e.chain \in BOOLEAN
    BY DEF Striking, Event
  <2>2. e.kind = "phase" \/ e.kind = "removal"
    BY DEF Striking
  <2>3. CASE e.kind = "phase"
    BY <2>3 DEF Striking
  <2>4. CASE e.kind = "removal"
    BY <2>1, <2>4 DEF Striking
  <2> QED BY <2>2, <2>3, <2>4
<1> HIDE DEF kill
<1> DEFINE loss == LossAt(s, kill)
<1>2. /\ loss.z = Id(s) /\ loss.play = pool[s].play /\ loss.seq = nextSequence /\ loss.at = Len(frames)
      /\ loss.kill = kill
  BY DEF LossAt
<1>3. loss \in Loss
  BY <1>1, TruthType
<1>4. truth' = IF pool[s].stage \in Death THEN truth ELSE Append(truth, loss)
  BY <1>1 DEF TruthStep
<1> HIDE DEF loss
<1>5. truth \in Seq(Loss) /\ n \in Nat
  BY DEF TypeInv, GameType
<1>6. Len(Append(truth, loss)) = n + 1 /\ Append(truth, loss)[n + 1] = loss
      /\ \A i \in 1..n : Append(truth, loss)[i] = truth[i]
  BY <1>3, <1>5
<1> QED BY <1>1, <1>2, <1>4, <1>5, <1>6

(* A captured blow keeps the order of losses. *)
LEMMA LossBlow ==
    ASSUME TypeInv, TypeInv', Ordered, LossesCaptured, Unhit,
           NEW s \in Slots, NEW e, Striking(s, e)
    PROVE  LossesCaptured'
<1> DEFINE n == Len(truth)
<1>0. nextSequence \in Nat /\ nextSequence' \in Nat /\ \A i \in 1..Len(truth) : truth[i].seq \in Nat
  BY LossParts DEF TypeInv, CaptureType
<1>1. /\ Cap' = Cap \cup {e} /\ nextSequence < nextSequence' /\ e.seq = nextSequence /\ e.z = Id(s)
      /\ e.play = pool[s].play
  BY DEF Grown, Striking
<1>2. /\ n \in Nat /\ \A i \in 1..n : truth'[i] = truth[i]
      /\ pool[s].stage \in Death => truth' = truth
      /\ pool[s].stage \notin Death =>
           /\ Len(truth') = n + 1
           /\ truth'[n + 1].z = Id(s) /\ truth'[n + 1].play = pool[s].play
           /\ truth'[n + 1].seq = nextSequence
  BY BlowTruth
<1> DEFINE Fine(i) == /\ truth'[i].seq < nextSequence'
                      /\ \A j \in 1..(i - 1) : truth'[j].seq < truth'[i].seq
                      /\ \E f \in Cap' : Of(f, truth'[i]) /\ Opening(f)
                      /\ \A f \in Cap' : f.kind \in Blows /\ f.z = truth'[i].z => truth'[i].seq <= f.seq
<1>3. ASSUME NEW i \in 1..n PROVE Fine(i)
  <2>1. /\ truth[i].seq < nextSequence
        /\ \A j \in 1..(i - 1) : truth[j].seq < truth[i].seq
        /\ \E f \in Cap : Of(f, truth[i]) /\ Opening(f)
        /\ \A f \in Cap : f.kind \in Blows /\ f.z = truth[i].z => truth[i].seq <= f.seq
    BY DEF LossesCaptured
  <2>2. truth'[i] = truth[i] /\ \A j \in 1..(i - 1) : truth'[j] = truth[j]
    BY <1>2
  <2>3. \A f : Of(f, truth'[i]) <=> Of(f, truth[i])
    BY <2>2 DEF Of
  <2>4. truth[i].seq \in Nat
    BY <1>0
  <2> QED BY <1>0, <1>1, <2>1, <2>2, <2>3, <2>4, SMTT(30)
<1>4. ASSUME pool[s].stage \notin Death PROVE Fine(n + 1)
  <2>1. /\ truth'[n + 1].z = Id(s) /\ truth'[n + 1].play = pool[s].play /\ truth'[n + 1].seq = nextSequence
    BY <1>2, <1>4
  <2>2. Of(e, truth'[n + 1])
    BY <1>1, <2>1 DEF Of
  <2>3. Opening(e)
    BY <1>4 DEF Striking, Opening
  <2>4. \A f \in Cap : f.kind \in Blows => f.z # Id(s)
    BY <1>4 DEF Unhit, Unhurt, Striking
  <2>5. ASSUME NEW j \in 1..(n + 1 - 1) PROVE truth'[j].seq < nextSequence
    <3>1. j \in 1..n
      BY <1>2
    <3> QED BY <1>2, <3>1 DEF LossesCaptured
  <2> QED BY <1>0, <1>1, <2>1, <2>2, <2>3, <2>4, <2>5
<1>5. \A i \in 1..Len(truth') : i \in 1..n \/ (i = n + 1 /\ pool[s].stage \notin Death)
  BY <1>2
<1>6. \A i \in 1..Len(truth') : Fine(i)
  <2> HIDE DEF Fine
  <2> QED BY <1>3, <1>4, <1>5
<1> QED BY <1>6 DEF LossesCaptured

(* ... and is explained. *)
LEMMA ExplainedBlow ==
    ASSUME TypeInv, TypeInv', Ordered, BlowsExplained, Struck,
           NEW s \in Slots, NEW e, Striking(s, e),
           \A z \in Zombies : Doomed(z) => Doomed(z)'
    PROVE  BlowsExplained'
<1> DEFINE n == Len(truth)
<1>1. /\ Cap' = Cap \cup {e} /\ e.seq = nextSequence /\ e.z = Id(s) /\ e.play = pool[s].play
      /\ (e.kind = "phase" /\ e.before = pool[s].stage) \/ (e.kind = "removal" /\ e.before = 0)
  BY DEF Grown, Striking
<1>2. /\ n \in Nat /\ \A i \in 1..n : truth'[i] = truth[i]
      /\ pool[s].stage \in Death => truth' = truth
      /\ pool[s].stage \notin Death =>
           /\ Len(truth') = n + 1
           /\ truth'[n + 1].z = Id(s) /\ truth'[n + 1].play = pool[s].play
           /\ truth'[n + 1].seq = nextSequence
           /\ e.kind = "phase" => truth'[n + 1].kill = TRUE
           /\ e.kind = "removal" => truth'[n + 1].kill = e.chain
  BY BlowTruth
<1>3. \A i \in 1..n : i \in 1..Len(truth')
  <2>1. Len(truth') = n \/ Len(truth') = n + 1
    BY <1>2
  <2> QED BY <1>2, <2>1
<1>4. ASSUME NEW f \in Cap PROVE Explained(f)'
  <2>1. f.z \in Zombies
    BY CapEvents DEF Event
  <2>2. Explained(f)
    BY DEF BlowsExplained
  <2> DEFINE z == f.z
  <2>3. Doomed(z) => Doomed(z)'
    BY <2>1
  <2>4. \A i \in 1..n : Of(f, truth'[i]) <=> Of(f, truth[i])
    BY <1>2 DEF Of
  <2> QED BY <1>1, <1>2, <1>3, <2>2, <2>3, <2>4 DEF Explained
<1>5. Explained(e)'
  <2>1. CASE pool[s].stage \notin Death
    <3>1. n + 1 \in 1..Len(truth') /\ Of(e, truth'[n + 1])
      BY <1>1, <1>2, <2>1 DEF Of
    <3>2. (e.kind = "phase" => truth'[n + 1].kill) /\ (e.kind = "removal" => (truth'[n + 1].kill <=> e.chain))
      BY <1>2, <2>1
    <3>3. e.kind = "removal" => e.before = 0
      BY <1>1
    <3> QED BY <3>1, <3>2, <3>3 DEF Explained
  <2>2. CASE pool[s].stage \in Death
    <3>1. e.kind = "phase" => e.before \in Death
      BY <1>1, <2>2
    <3>2. e.kind = "removal" => e.before = 0
      BY <1>1
    <3>3. Doomed(Id(s)) \/ \E p \in Cap : p.kind = "phase" /\ p.z = Id(s)
      BY <2>2 DEF Struck, Striking
    <3>4. CASE Doomed(Id(s))
      <4> DEFINE z == e.z
      <4>1. z \in Zombies /\ Doomed(z)
        BY <1>1, <3>4, IdType DEF TypeInv
      <4>2. Doomed(z)'
        BY <4>1
      <4> QED BY <3>1, <3>2, <4>2 DEF Explained
    <3>5. CASE \E p \in Cap : p.kind = "phase" /\ p.z = Id(s)
      <4>1. PICK p \in Cap : p.kind = "phase" /\ p.z = Id(s)
        BY <3>5
      <4>2. p.seq < e.seq
        BY <1>1 DEF Ordered
      <4> QED BY <1>1, <3>1, <3>2, <4>1, <4>2 DEF Explained
    <3> QED BY <3>3, <3>4, <3>5
  <2> QED BY <2>1, <2>2
<1> QED BY <1>1, <1>4, <1>5 DEF BlowsExplained
(* A step without a captured blow: what the pool shows stays, a birth finds *)
(* a zombie nothing hit, and a recycled slot starts a new generation.       *)
LEMMA ShownQuiet ==
    ASSUME TypeInv, TypeInv', FreshSlots, Unhit, Struck, BlowsKnown, NEW new, Grown(new),
           \A e \in new : e.kind \notin Blows,
           \A z \in Zombies : Doomed(z) => Doomed(z)',
           \A t \in Slots : pool'[t] = pool[t] \/ Birth(t) \/ Turning(t) \/ Recycling(t)
    PROVE  Unhit' /\ Struck' /\ BlowsKnown'
<1>1. Cap' = Cap \cup new
  BY DEF Grown
<1>2. \A e \in Cap' : e.kind \in Blows => e \in Cap
  BY <1>1
<1>3. \A t \in Slots : /\ Id(t) = <<t, pool[t].gen>> /\ Id(t)' = <<t, pool'[t].gen>> /\ Id(t) \in Zombies
                       /\ pool[t].gen \in Nat /\ pool'[t].gen \in Nat
  <2>1. \A t \in Slots : pool[t] \in Creature /\ pool'[t] \in Creature
    BY DEF TypeInv, GameType, Pool
  <2> QED BY <2>1, IdType DEF Id, TypeInv, Creature
<1>4. ASSUME NEW e \in Cap, e.kind \in Blows
      PROVE  LET t == e.z[1]
             IN  /\ t \in Slots /\ e.z[2] \in Nat /\ e.z = <<t, e.z[2]>>
                 /\ e.z[2] <= pool[t].gen
                 /\ e.z[2] = pool[t].gen => pool[t].used /\ e.play = pool[t].play
                 /\ \A f \in Cap : f.kind \in Blows /\ f.z = e.z => f.play = e.play
  <2>1. e.z \in Zombies
    BY CapEvents DEF Event
  <2>2. Known(e)
    BY <1>4 DEF BlowsKnown
  <2> QED BY <2>1, <2>2 DEF Known, Zombies
<1>5. ASSUME NEW t \in Slots, Birth(t) PROVE \A e \in Cap : e.kind \in Blows => e.z # Id(t)
  <2>1. SUFFICES ASSUME NEW e \in Cap, e.kind \in Blows, e.z = Id(t) PROVE FALSE
    OBVIOUS
  <2>2. e.z[1] = t /\ e.z[2] = pool[t].gen
    BY <1>3, <2>1
  <2>3. pool[t].used
    BY <1>4, <2>1, <2>2
  <2> QED BY <1>5, <2>3 DEF Birth
<1>6. ASSUME NEW t \in Slots, Unhurt(t)' PROVE \A e \in Cap : e.kind \in Blows => e.z # Id(t)'
  <2>1. CASE pool'[t] = pool[t]
    <3>1. Unhurt(t)
      BY <1>6, <2>1 DEF Unhurt
    <3> QED BY <1>3, <2>1, <3>1 DEF Unhit
  <2>2. CASE Birth(t)
    <3>1. pool'[t].gen = pool[t].gen
      BY <2>2 DEF Birth
    <3> QED BY <1>3, <1>5, <2>2, <3>1
  <2>3. CASE Recycling(t)
    BY <1>6, <2>3 DEF Unhurt, Recycling
  <2>4. CASE Turning(t)
    <3>1. Unhurt(t) /\ pool'[t].gen = pool[t].gen
      BY <2>4 DEF Unhurt, Turning
    <3> QED BY <1>3, <3>1 DEF Unhit
  <2> QED BY <2>1, <2>2, <2>3, <2>4
<1>7. ASSUME NEW t \in Slots, pool'[t].used, pool'[t].stage \in Death
      PROVE  Doomed(Id(t))' \/ \E p \in Cap : p.kind = "phase" /\ p.z = Id(t)'
  <2>1. CASE pool'[t] = pool[t]
    <3> DEFINE z == <<t, pool[t].gen>>
    <3>1. z \in Zombies /\ Id(t) = z /\ Id(t)' = z
      BY <1>3, <2>1
    <3>2. Doomed(Id(t)) \/ \E p \in Cap : p.kind = "phase" /\ p.z = Id(t)
      BY <1>7, <2>1 DEF Struck
    <3> SUFFICES ASSUME NEW y, y = z PROVE Doomed(Id(t))' \/ \E p \in Cap : p.kind = "phase" /\ p.z = Id(t)'
      OBVIOUS
    <3>3. Doomed(Id(t)) => Doomed(y)
      BY <3>1 DEF Doomed, Dying, Unborn
    <3>4. Doomed(y) => Doomed(y)'
      BY <3>1
    <3>5. Doomed(y)' => Doomed(Id(t))'
      BY <3>1 DEF Doomed, Dying, Unborn
    <3> QED BY <3>1, <3>2, <3>3, <3>4, <3>5
  <2>2. CASE Birth(t)
    <3>1. pool[t].stage = 0
      BY <2>2 DEF Birth, FreshSlots
    <3> QED BY <1>7, <2>2, <3>1 DEF Birth, Death
  <2>3. CASE Recycling(t)
    BY <1>7, <2>3 DEF Recycling
  <2>4. CASE Turning(t)
    BY <1>7, <2>4 DEF Turning
  <2> QED BY <2>1, <2>2, <2>3, <2>4
<1>8. ASSUME NEW e \in Cap, e.kind \in Blows
      PROVE  LET t == e.z[1] IN e.z[2] <= pool'[t].gen /\ (e.z[2] = pool'[t].gen => pool'[t].used /\ e.play = pool'[t].play)
  <2> SUFFICES ASSUME NEW t, t = e.z[1]
               PROVE  e.z[2] <= pool'[t].gen /\ (e.z[2] = pool'[t].gen => pool'[t].used /\ e.play = pool'[t].play)
    OBVIOUS
  <2>1. /\ t \in Slots /\ e.z[2] \in Nat
        /\ e.z[2] <= pool[t].gen
        /\ e.z[2] = pool[t].gen => pool[t].used /\ e.play = pool[t].play
    BY <1>4, <1>8
  <2>2. pool[t].gen \in Nat /\ pool'[t].gen \in Nat
    BY <1>3, <2>1
  <2>3. pool'[t] = pool[t] \/ Birth(t) \/ Turning(t) \/ Recycling(t)
    BY <2>1
  <2>4. CASE pool'[t] = pool[t]
    BY <2>1, <2>4
  <2>5. CASE Birth(t)
    BY <2>1, <2>5 DEF Birth
  <2>7. CASE Turning(t)
    BY <2>1, <2>7 DEF Turning
  <2>6. CASE Recycling(t)
    <3>1. pool'[t].gen = pool[t].gen + 1
      BY <2>6 DEF Recycling
    <3> QED BY <2>1, <2>2, <3>1
  <2> QED BY <2>3, <2>4, <2>5, <2>6, <2>7
<1>9. Unhit'
  BY <1>2, <1>6 DEF Unhit
<1>10. Struck'
  BY <1>1, <1>7 DEF Struck
<1>11. BlowsKnown'
  <2>1. ASSUME NEW e \in Cap', e.kind \in Blows PROVE Known(e)'
    <3>1. e \in Cap
      BY <1>2, <2>1
    <3>2. \A f \in Cap' : f.kind \in Blows /\ f.z = e.z => f.play = e.play
      BY <1>2, <1>4, <2>1, <3>1
    <3> QED BY <1>8, <2>1, <3>1, <3>2 DEF Known
  <2> QED BY <2>1 DEF BlowsKnown
<1> QED BY <1>9, <1>10, <1>11

(* A captured blow shows in the pool. *)
LEMMA ShownBlow ==
    ASSUME TypeInv, TypeInv', Unhit, Struck, BlowsKnown,
           NEW s \in Slots, NEW e, Striking(s, e),
           \A z \in Zombies : Doomed(z) => Doomed(z)'
    PROVE  Unhit' /\ Struck' /\ BlowsKnown'
<1>1. /\ Cap' = Cap \cup {e} /\ e.z = Id(s) /\ e.play = pool[s].play
      /\ \A t \in Slots : t # s => pool'[t] = pool[t]
      /\ pool[s].used /\ pool'[s].used /\ pool'[s].gen = pool[s].gen /\ pool'[s].play = pool[s].play
  BY DEF Grown, Striking, Elsewhere
<1>2. \/ e.kind = "phase" /\ pool'[s].stage \in Death
      \/ e.kind = "removal" /\ pool'[s].stage = pool[s].stage /\ pool'[s].gone
  BY DEF Striking
<1>3. \A t \in Slots : /\ Id(t) = <<t, pool[t].gen>> /\ Id(t)' = <<t, pool[t].gen>> /\ Id(t) \in Zombies
                       /\ pool[t].gen \in Nat /\ pool'[t].gen = pool[t].gen
  <2>1. \A t \in Slots : pool[t] \in Creature /\ pool'[t].gen = pool[t].gen
    BY <1>1 DEF TypeInv, GameType, Pool
  <2> QED BY <2>1, IdType DEF Id, TypeInv, Creature
<1>4. ASSUME NEW f \in Cap, f.kind \in Blows
      PROVE  LET t == f.z[1]
             IN  /\ t \in Slots /\ f.z[2] \in Nat
                 /\ f.z[2] <= pool[t].gen
                 /\ f.z[2] = pool[t].gen => pool[t].used /\ f.play = pool[t].play
                 /\ \A g \in Cap : g.kind \in Blows /\ g.z = f.z => g.play = f.play
  <2>1. f.z \in Zombies
    BY CapEvents DEF Event
  <2>2. Known(f)
    BY <1>4 DEF BlowsKnown
  <2> QED BY <2>1, <2>2 DEF Known, Zombies
<1>5. Unhit'
  <2>1. SUFFICES ASSUME NEW t \in Slots, Unhurt(t)', NEW f \in Cap', f.kind \in Blows PROVE f.z # Id(t)'
    BY DEF Unhit
  <2>2. t # s
    BY <1>2, <2>1 DEF Unhurt
  <2>3. pool'[t] = pool[t] /\ Id(t)' = Id(t)
    BY <1>1, <1>3, <2>2
  <2>4. Unhurt(t)
    BY <2>1, <2>3 DEF Unhurt
  <2>5. CASE f \in Cap
    BY <2>1, <2>3, <2>4, <2>5 DEF Unhit
  <2>6. CASE f = e
    BY <1>1, <1>3, <2>2, <2>6
  <2> QED BY <1>1, <2>1, <2>5, <2>6
<1>6. Struck'
  <2>1. SUFFICES ASSUME NEW t \in Slots, pool'[t].used, pool'[t].stage \in Death
                 PROVE  Doomed(Id(t))' \/ \E p \in Cap' : p.kind = "phase" /\ p.z = Id(t)'
    BY DEF Struck
  <2>2. CASE t = s /\ e.kind = "phase"
    BY <1>1, <1>3, <2>2
  <2>3. CASE pool[t].used /\ pool[t].stage \in Death
    <3> DEFINE z == <<t, pool[t].gen>>
    <3>1. z \in Zombies /\ Id(t) = z /\ Id(t)' = z
      BY <1>3
    <3>2. Doomed(Id(t)) \/ \E p \in Cap : p.kind = "phase" /\ p.z = Id(t)
      BY <2>3 DEF Struck
    <3> SUFFICES ASSUME NEW y, y = z PROVE Doomed(Id(t))' \/ \E p \in Cap' : p.kind = "phase" /\ p.z = Id(t)'
      OBVIOUS
    <3>3. Doomed(Id(t)) => Doomed(y)
      BY <3>1 DEF Doomed, Dying, Unborn
    <3>4. Doomed(y) => Doomed(y)'
      BY <3>1
    <3>5. Doomed(y)' => Doomed(Id(t))'
      BY <3>1 DEF Doomed, Dying, Unborn
    <3> QED BY <1>1, <3>1, <3>2, <3>3, <3>4, <3>5
  <2>4. (t = s /\ e.kind = "phase") \/ (pool[t].used /\ pool[t].stage \in Death)
    BY <1>1, <1>2, <2>1
  <2> QED BY <2>2, <2>3, <2>4
<1>7. BlowsKnown'
  <2>1. SUFFICES ASSUME NEW f \in Cap', f.kind \in Blows PROVE Known(f)'
    BY DEF BlowsKnown
  <2>2. ASSUME NEW g \in Cap, g.kind \in Blows
        PROVE  LET t == g.z[1]
               IN  /\ g.z[2] <= pool'[t].gen
                   /\ g.z[2] = pool'[t].gen => pool'[t].used /\ g.play = pool'[t].play
    <3> DEFINE t == g.z[1]
    <3>1. /\ t \in Slots /\ g.z[2] \in Nat /\ g.z[2] <= pool[t].gen
          /\ g.z[2] = pool[t].gen => pool[t].used /\ g.play = pool[t].play
      BY <1>4, <2>2
    <3> HIDE DEF t
    <3>2. pool'[t].gen = pool[t].gen
      BY <1>3, <3>1
    <3>3. pool[t].used => pool'[t].used /\ pool'[t].play = pool[t].play
      BY <1>1, <3>1
    <3>4. g.z[2] <= pool'[t].gen /\ (g.z[2] = pool'[t].gen => pool'[t].used /\ g.play = pool'[t].play)
      BY <3>1, <3>2, <3>3
    <3> QED BY <3>4 DEF t
  <2>3. e.z[1] = s /\ e.z[2] = pool[s].gen /\ pool[s].gen \in Nat
    BY <1>1, <1>3
  <2>4. e.z[2] <= pool'[e.z[1]].gen /\ pool'[e.z[1]].used /\ e.play = pool'[e.z[1]].play
    <3>1. pool[s].gen <= pool'[s].gen
      BY <1>1, <2>3
    <3> QED BY <1>1, <2>3, <3>1
  <2>5. ASSUME NEW g \in Cap, g.kind \in Blows, g.z = e.z PROVE g.play = e.play
    BY <1>1, <1>4, <2>3, <2>5
  <2>6. \A g \in Cap' : g.kind \in Blows /\ g.z = f.z => g.play = f.play
    <3>1. ASSUME NEW g \in Cap', g.kind \in Blows, g.z = f.z PROVE g.play = f.play
      BY <1>1, <1>4, <2>1, <2>5, <3>1
    <3> QED BY <3>1
  <2>7. CASE f \in Cap
    BY <2>1, <2>2, <2>6, <2>7 DEF Known
  <2>8. CASE f = e
    BY <2>4, <2>6, <2>8 DEF Known
  <2> QED BY <1>1, <2>1, <2>7, <2>8
<1> QED BY <1>5, <1>6, <1>7
(* Frames are typed. *)
LEMMA FrameVersions ==
    ASSUME RunType
    PROVE  /\ Len(frames) \in Nat /\ \A i \in 1..Len(frames) : frames[i].ver \in Nat
           /\ version \in Nat /\ boundary \in Nat
<1>1. \A i \in 1..Len(frames) : frames[i] \in Frame
  BY DEF RunType
<1> QED BY <1>1, VersionType DEF RunType, Frame

(* Between the boundaries a loss stays in its version. *)
LEMMA TimedQuiet ==
    ASSUME TypeInv, TypeInv', LossesCaptured, VersionsRise, LossesTimed, NEW new, Grown(new), truth' = truth,
           UNCHANGED <<frames, version, boundary>>, phase' = phase \/ (phase = "calm" /\ phase' = "closed")
    PROVE  VersionsRise' /\ LossesTimed'
<1>0. nextSequence \in Nat /\ \A i \in 1..Len(truth) : truth[i].seq \in Nat
  BY LossParts DEF TypeInv, CaptureType
<1>1. VersionsRise'
  BY DEF VersionsRise
<1>2. ASSUME NEW i \in 1..Len(truth), NEW e \in Cap', e.seq = truth[i].seq, e.ver # Null
      PROVE  Timed(truth[i].at, e.ver)
  <2>1. CASE e \in Cap
    BY <1>2, <2>1 DEF LossesTimed
  <2>2. CASE e \in new
    <3>1. e.seq >= nextSequence /\ e.seq \in Nat
      BY <2>2 DEF Grown, Event
    <3>2. truth[i].seq < nextSequence
      BY DEF LossesCaptured
    <3> QED BY <1>0, <1>2, <3>1, <3>2
  <2> QED BY <1>2, <2>1, <2>2 DEF Grown
<1>3. ASSUME NEW at, NEW ver, Timed(at, ver) PROVE Timed(at, ver)'
  BY <1>3 DEF Timed
<1>4. LossesTimed'
  <2>1. SUFFICES ASSUME NEW i \in 1..Len(truth'), NEW e \in Cap', e.seq = truth'[i].seq, e.ver # Null
                 PROVE  Timed(truth[i].at, e.ver)'
    BY DEF LossesTimed
  <2> DEFINE at == truth[i].at  ver == e.ver
  <2>2. Timed(at, ver) /\ truth'[i] = truth[i]
    BY <1>2, <2>1
  <2> QED BY <2>2 DEF Timed
<1> QED BY <1>1, <1>4

(* A blow belongs to the last boundary. *)
LEMMA TimedBlow ==
    ASSUME TypeInv, TypeInv', Ordered, LossesCaptured, VersionsRise, LossesTimed, Alive,
           NEW s \in Slots, NEW e, Striking(s, e), UNCHANGED <<frames, version, boundary, phase>>
    PROVE  VersionsRise' /\ LossesTimed'
<1> DEFINE n == Len(truth)
<1>0. /\ nextSequence \in Nat /\ \A i \in 1..Len(truth) : truth[i].seq \in Nat
      /\ Len(frames) \in Nat
  BY LossParts, FrameVersions DEF TypeInv, CaptureType
<1>1. VersionsRise'
  BY DEF VersionsRise
<1>2. Cap' = Cap \cup {e} /\ e.seq = nextSequence /\ e.ver = boundary
  BY DEF Grown, Striking
<1>3. /\ n \in Nat /\ \A i \in 1..n : truth'[i] = truth[i]
      /\ pool[s].stage \in Death => truth' = truth
      /\ pool[s].stage \notin Death =>
           /\ Len(truth') = n + 1
           /\ truth'[n + 1].seq = nextSequence /\ truth'[n + 1].at = Len(frames)
  BY BlowTruth
<1>4. \A i \in 1..Len(truth') : i \in 1..n \/ (i = n + 1 /\ pool[s].stage \notin Death)
  BY <1>3
<1>5. \A f \in Cap : f.seq < nextSequence /\ f.seq \in Nat
  BY CapEvents DEF Ordered
<1>6. ASSUME NEW i \in 1..Len(truth'), NEW f \in Cap', f.seq = truth'[i].seq, f.ver # Null
      PROVE  Timed(truth'[i].at, f.ver)
  <2>1. CASE i \in 1..n
    <3>1. truth'[i] = truth[i] /\ truth[i].seq < nextSequence
      BY <1>3, <2>1 DEF LossesCaptured
    <3>2. f \in Cap
      BY <1>0, <1>2, <1>6, <2>1, <3>1
    <3> QED BY <1>6, <2>1, <3>1, <3>2 DEF LossesTimed
  <2>2. CASE i = n + 1 /\ pool[s].stage \notin Death
    <3>1. truth'[i].seq = nextSequence /\ truth'[i].at = Len(frames)
      BY <1>3, <2>2
    <3>2. f = e
      BY <1>0, <1>2, <1>5, <1>6, <3>1
    <3>3. phase = "call"
      BY <1>2, <1>6, <3>2 DEF VersionsRise, Alive
    <3>4. boundary = version /\ Len(frames) > 0 /\ frames[Len(frames)].ver = version
      BY <3>3 DEF VersionsRise
    <3>5. Timed(Len(frames), boundary)
      BY <1>0, <3>3, <3>4 DEF Timed
    <3> QED BY <1>2, <3>1, <3>2, <3>5
  <2> QED BY <1>4, <2>1, <2>2
<1>7. LossesTimed'
  <2>1. SUFFICES ASSUME NEW i \in 1..Len(truth'), NEW f \in Cap', f.seq = truth'[i].seq, f.ver # Null
                 PROVE  Timed(truth[i].at, f.ver)'
    BY DEF LossesTimed
  <2>2. Timed(truth'[i].at, f.ver)
    BY <1>6, <2>1
  <2> QED BY <2>2 DEF Timed
<1> QED BY <1>1, <1>7

(* The three kinds of boundaries: captured, at the begin and at the end of a call. *)
Bounds(v, b, p) ==
    \/ phase = "calm" /\ v = version /\ p = "calm" /\ b = Null
    \/ phase = "calm" /\ v = version /\ p = "call" /\ b = version
    \/ phase = "call" /\ v = version + 1 /\ p = "calm" /\ b = Null

(* A boundary ends the version of the losses before it, or repeats it in no call. *)
LEMMA TimedFramed ==
    ASSUME TypeInv, TypeInv', VersionsRise, LossesTimed, Cap' = Cap, truth' = truth,
           NEW v, NEW b, NEW p, Bounds(v, b, p),
           version' = v, boundary' = b, phase' = p, frames' = Append(frames, [ver |-> v, pool |-> pool])
    PROVE  VersionsRise' /\ LossesTimed'
<1> DEFINE n == Len(frames)  f == [ver |-> v, pool |-> pool]
<1>0. n \in Nat /\ version \in Nat /\ \A i \in 1..n : frames[i].ver \in Nat
  BY FrameVersions DEF TypeInv
<1>1. v \in Nat /\ version <= v /\ (phase = "call" => version < v)
  BY <1>0 DEF Bounds
<1>2. f.ver = v /\ f \in Frame
  BY <1>1 DEF TypeInv, GameType, Frame
<1>3. frames \in Seq(Frame) /\ frames' = Append(frames, f)
  BY DEF TypeInv, RunType
<1> HIDE DEF f
<1>4. Len(frames') = n + 1 /\ frames'[n + 1].ver = v /\ \A i \in 1..n : frames'[i] = frames[i]
  BY <1>2, <1>3
<1>5. /\ \A i \in 1..n : frames[i].ver <= version /\ \A j \in 1..i : frames[j].ver <= frames[i].ver
  BY DEF VersionsRise
<1>6. \A i \in 1..Len(frames') : i \in 1..n \/ i = n + 1
  BY <1>0, <1>4
<1>7. ASSUME NEW i \in 1..Len(frames') PROVE frames'[i].ver <= v /\ \A j \in 1..i : frames'[j].ver <= frames'[i].ver
  <2>1. CASE i \in 1..n
    <3>1. frames'[i].ver <= v
      BY <1>0, <1>1, <1>4, <1>5, <2>1
    <3>2. \A j \in 1..i : j \in 1..n
      BY <1>0, <2>1
    <3> QED BY <1>4, <1>5, <2>1, <3>1, <3>2
  <2>2. CASE i = n + 1
    <3>1. ASSUME NEW j \in 1..i PROVE frames'[j].ver <= v
      <4>1. CASE j \in 1..n
        BY <1>0, <1>1, <1>4, <1>5, <4>1
      <4>2. CASE j = n + 1
        BY <1>1, <1>4, <4>2
      <4> QED BY <1>0, <2>2, <4>1, <4>2
    <3> QED BY <1>1, <1>4, <2>2, <3>1
  <2> QED BY <1>6, <2>1, <2>2
<1>8. VersionsRise'
  <2>1. (p = "calm" => b = Null) /\ (p = "call" => b = v)
    BY DEF Bounds
  <2> QED BY <1>0, <1>4, <1>7, <2>1 DEF VersionsRise
<1>9. ASSUME NEW i \in 1..Len(truth), NEW e \in Cap, e.seq = truth[i].seq, e.ver # Null
      PROVE  Timed(truth[i].at, e.ver)'
  <2> DEFINE at == truth[i].at  ver == e.ver
  <2>1. Timed(at, ver) /\ truth'[i].at = at
    BY <1>9 DEF LossesTimed
  <2>2. ver \in Nat
    BY CapEvents DEF Event
  <2> HIDE DEF at, ver
  <2>3. /\ at \in 1..n /\ (phase # "call" => at < n)
        /\ \A j \in 1..n : (j = at => frames[j].ver = ver) /\ (j > at => ver < frames[j].ver)
    BY <2>1 DEF Timed
  <2>4. ver < v
    <3>1. CASE phase = "call"
      <4>1. ver <= version
        BY <1>5, <2>3
      <4> QED BY <1>0, <1>1, <2>2, <3>1, <4>1
    <3>2. CASE phase # "call"
      <4>1. n \in 1..n /\ n > at
        BY <1>0, <2>3, <3>2
      <4>2. ver < frames[n].ver /\ frames[n].ver <= version
        BY <1>5, <2>3, <4>1
      <4> QED BY <1>0, <1>1, <2>2, <4>1, <4>2
    <3> QED BY <3>1, <3>2
  <2>5. at \in 1..Len(frames') /\ at < Len(frames')
    BY <1>0, <1>4, <2>3
  <2>6. ASSUME NEW j \in 1..Len(frames')
        PROVE  (j = at => frames'[j].ver = ver) /\ (j > at => ver < frames'[j].ver)
    <3>1. CASE j \in 1..n
      BY <1>4, <2>3, <3>1
    <3>2. CASE j = n + 1
      BY <1>0, <1>4, <2>3, <2>4, <3>2
    <3> QED BY <1>6, <3>1, <3>2
  <2>7. /\ at \in 1..Len(frames') /\ (phase' # "call" => at < Len(frames'))
        /\ \A j \in 1..Len(frames') : (j = at => frames'[j].ver = ver) /\ (j > at => ver < frames'[j].ver)
    BY <2>5, <2>6
  <2>8. Timed(truth[i].at, e.ver)'
    BY <2>1, <2>7 DEF Timed, at, ver
  <2> QED BY <2>8
<1>10. LossesTimed'
  BY <1>9 DEF LossesTimed
<1> QED BY <1>8, <1>10
(* A zombie nobody was seen to initialize is not one that is initialized. *)
LEMMA DoomedElsewhere ==
    ASSUME TypeInv, NEW s \in Slots, NEW z \in Zombies, Dying(z), ~pool[s].used
    PROVE  z # Id(s)
<1>1. SUFFICES ASSUME z = Id(s) PROVE FALSE
  OBVIOUS
<1>2. z[1] = s /\ z[2] = pool[s].gen
  BY <1>1, IdType DEF TypeInv
<1>3. Len(frames) + 1 \in 1..(Len(frames) + 1) /\ Reached(Len(frames) + 1) = pool
  BY ReachedType DEF TypeInv
<1> DEFINE n == Len(frames) + 1
<1>4. n \in 1..n /\ \A j \in 1..n : Reached(j)[z[1]].gen = z[2] => Reached(j)[z[1]].used
  BY <1>3 DEF Dying
<1>5. Reached(n) = pool
  BY <1>3
<1> HIDE DEF n
<1>6. Reached(n)[z[1]].gen = z[2] => Reached(n)[z[1]].used
  BY <1>4
<1> QED BY <1>2, <1>5, <1>6

(* A step that captures no blow and reaches no boundary. *)
LEMMA KillQuiet ==
    ASSUME TypeInv, TypeInv', [CaptureStep]_vars, FreshSlots, KillSound, NEW new, Grown(new), truth' = truth,
           \A e \in new : e.kind \notin Blows,
           \A z \in Zombies : Doomed(z) =>
               /\ \A e \in new : e.kind = "init" => e.z # z
               /\ \A k \in 1..Len(stack') : stack'[k].z # z,
           \A t \in Slots : pool'[t] = pool[t] \/ Birth(t) \/ Turning(t) \/ Recycling(t),
           UNCHANGED <<frames, version, boundary>>, phase' = phase \/ (phase = "calm" /\ phase' = "closed")
    PROVE  KillSound'
<1>1. \A z \in Zombies : Doomed(z) => Doomed(z)'
  BY DoomedKept
<1>2. LossesCaptured' /\ BlowsExplained'
  BY <1>1, LossQuiet DEF KillSound
<1>3. Unhit' /\ Struck' /\ BlowsKnown'
  BY <1>1, ShownQuiet DEF KillSound
<1>4. VersionsRise' /\ LossesTimed'
  BY TimedQuiet DEF KillSound
<1> QED BY <1>2, <1>3, <1>4 DEF KillSound

(* A captured blow. *)
LEMMA KillBlow ==
    ASSUME TypeInv, TypeInv', [CaptureStep]_vars, Ordered, Alive, KillSound, NEW s \in Slots, NEW e, Striking(s, e),
           UNCHANGED <<stack, frames, version, boundary, phase>>
    PROVE  KillSound'
<1>1. Grown({e}) /\ e.kind # "init"
  BY DEF Striking
<1>2. \A z \in Zombies : Doomed(z) => Doomed(z)'
  BY <1>1, DoomedKept DEF Doomed, Unborn
<1>3. LossesCaptured' /\ BlowsExplained'
  BY <1>2, LossBlow, ExplainedBlow DEF KillSound
<1>4. Unhit' /\ Struck' /\ BlowsKnown'
  BY <1>2, ShownBlow DEF KillSound
<1>5. VersionsRise' /\ LossesTimed'
  BY TimedBlow DEF KillSound
<1> QED BY <1>3, <1>4, <1>5 DEF KillSound

(* A boundary. *)
LEMMA KillObserve ==
    ASSUME TypeInv, TypeInv', [CaptureStep]_vars, Ordered, faults = {}, FreshSlots, KillSound,
           NEW v, NEW b, NEW p, Bounds(v, b, p), Observed(v, b, p)
    PROVE  KillSound'
<1>1. Recorded /\ UNCHANGED <<pool, truth, stack, nextSequence>>
  BY DEF Observed, Recorded, game
<1>2. Rising(Merged) /\ Cap' = Cap
  BY <1>1, DrainKeeps
<1>3. version' = v /\ boundary' = b /\ phase' = p /\ frames' = Append(frames, [ver |-> v, pool |-> pool])
  BY <1>2 DEF Observed
<1>4. Grown({})
  BY <1>1, <1>2 DEF Grown, TypeInv, CaptureType
<1>5. \A z \in Zombies : Doomed(z) => Doomed(z)'
  BY <1>1, <1>4, DoomedKept DEF Doomed, Unborn
<1>6. LossesCaptured' /\ BlowsExplained'
  BY <1>1, <1>4, <1>5, LossQuiet DEF KillSound
<1>7. Unhit' /\ Struck' /\ BlowsKnown'
  BY <1>1, <1>4, <1>5, ShownQuiet DEF KillSound
<1>8. VersionsRise' /\ LossesTimed'
  BY <1>1, <1>2, <1>3, TimedFramed DEF KillSound
<1> QED BY <1>6, <1>7, <1>8 DEF KillSound

(* What the probes of a step capture. *)
LEMMA ProbedGrown ==
    ASSUME TypeInv, NEW recs, Probed(recs), ProbeFits(recs), probes, faults' = {}
    PROVE  Grown(Members(recs)) /\ nextSequence' = nextSequence + Len(recs) /\ stack' = stack /\ probes' = probes
<1>0. /\ nextSequence \in Nat /\ recs \in Seq(Event) /\ Len(recs) \in Nat
      /\ probeQueue \in Seq(Event)
  BY CapEvents DEF TypeInv, CaptureType, Probed
<1>1. /\ UNCHANGED <<probes, stack, spawnQueue, written>>
      /\ probeQueue' = probeQueue \o recs /\ nextSequence' = nextSequence + Len(recs)
  BY DEF Probed, Captured, files
<1>2. Cap' = Cap \cup Members(recs)
  <2>1. Members(probeQueue') = Members(probeQueue) \cup Members(recs)
    BY <1>0, <1>1, MembersJoined
  <2> QED BY <1>1, <2>1 DEF Cap
<1>3. ASSUME NEW i \in 1..Len(recs)
      PROVE  recs[i] \in Event /\ recs[i].seq >= nextSequence /\ recs[i].seq < nextSequence'
  <2>1. recs[i].seq = nextSequence + i - 1
    BY DEF ProbeFits
  <2> QED BY <1>0, <1>1, <2>1
<1>4. Grown(Members(recs))
  <2>1. nextSequence <= nextSequence'
    BY <1>0, <1>1
  <2> QED BY <1>2, <1>3, <2>1 DEF Grown, Members
<1> QED BY <1>1, <1>4

(* A store strikes. *)
LEMMA StoreStrikes ==
    ASSUME TypeInv, NEW s \in Slots, NEW stage \in Stages, NEW readable, Store(s, stage, readable),
           probes, faults' = {}
    PROVE  Striking(s, StoreEvent(s, stage)) /\ stack' = stack
<1> DEFINE e == StoreEvent(s, stage)
<1>1. /\ e \in Event /\ e.kind = "phase" /\ e.z = Id(s) /\ e.play = pool[s].play /\ e.seq = nextSequence
      /\ e.ver = boundary /\ e.before = pool[s].stage
  BY SlotEvents
<1> DEFINE recs == <<e>>
<1>2. Probed(recs) /\ ProbeFits(recs)
  BY StoreProbed, SlotFits
<1> HIDE DEF e
<1>3. Len(recs) = 1 /\ Members(recs) = {e}
  BY DEF Members
<1> HIDE DEF recs
<1>4. Grown({e}) /\ nextSequence' = nextSequence + 1 /\ stack' = stack
  BY <1>2, <1>3, ProbedGrown
<1>5. nextSequence < nextSequence'
  BY <1>4 DEF TypeInv, CaptureType
<1>6. /\ Elsewhere(s) /\ pool[s].used /\ ~pool[s].gone
      /\ pool'[s].gen = pool[s].gen /\ pool'[s].used /\ pool'[s].stage = stage
      /\ pool'[s].play = pool[s].play
  BY StorePool DEF TypeInv
<1>7. TruthStep(s, TRUE) /\ stage \in Death
  <2>1. TruthStep(s, TRUE)
    BY StoreStep
  <2>2. stage \in 1..3
    BY CaptureAssumption
  <2>3. stage \in Death
    BY <2>2 DEF Death
  <2> QED BY <2>1, <2>3
<1>8. Striking(s, e)
  BY <1>1, <1>4, <1>5, <1>6, <1>7 DEF Striking
<1> QED BY <1>4, <1>8 DEF e

(* A removal strikes. *)
LEMMA MarkStrikes ==
    ASSUME TypeInv, NEW s \in Slots, NEW chain \in BOOLEAN, NEW readable, Mark(s, chain, readable),
           probes, faults' = {}
    PROVE  Striking(s, MarkEvent(s, chain)) /\ stack' = stack
<1> DEFINE e == MarkEvent(s, chain)
<1>1. /\ e \in Event /\ e.kind = "removal" /\ e.z = Id(s) /\ e.play = pool[s].play /\ e.seq = nextSequence
      /\ e.ver = boundary /\ e.before = 0 /\ e.chain = chain
  BY SlotEvents
<1> DEFINE recs == <<e>>
<1>2. Probed(recs) /\ ProbeFits(recs)
  BY MarkProbed, SlotFits
<1> HIDE DEF e
<1>3. Len(recs) = 1 /\ Members(recs) = {e}
  BY DEF Members
<1> HIDE DEF recs
<1>4. Grown({e}) /\ nextSequence' = nextSequence + 1 /\ stack' = stack
  BY <1>2, <1>3, ProbedGrown
<1>5. nextSequence < nextSequence'
  BY <1>4 DEF TypeInv, CaptureType
<1>6. /\ Elsewhere(s) /\ pool[s].used /\ ~pool[s].gone
      /\ pool'[s].gen = pool[s].gen /\ pool'[s].used /\ pool'[s].stage = pool[s].stage /\ pool'[s].gone
      /\ pool'[s].play = pool[s].play
  BY MarkPool DEF TypeInv
<1>7. TruthStep(s, e.chain)
  BY <1>1, MarkStep
<1>8. Striking(s, e)
  BY <1>1, <1>4, <1>5, <1>6, <1>7 DEF Striking
<1> QED BY <1>4, <1>8 DEF e
(* A free slot is as it was made. *)
LEMMA FreshNext == TypeInv /\ FreshSlots /\ [CaptureStep]_vars => FreshSlots'
<1> SUFFICES ASSUME TypeInv, FreshSlots, [CaptureStep]_vars PROVE FreshSlots'
  OBVIOUS
<1>1. CASE pool' = pool
  BY <1>1 DEF FreshSlots
<1>2. CASE Moving
  <2>1. PICK s \in Slots : SlotStep(s)
    BY <1>2 DEF Moving
  <2>2. ASSUME NEW t \in Slots, ~pool'[t].used PROVE pool'[t].stage = 0 /\ ~pool'[t].gone
    <3>1. CASE t # s
      BY <2>1, <2>2, <3>1 DEF SlotStep, Elsewhere, FreshSlots
    <3>2. CASE t = s
      BY <2>1, <2>2, <3>2 DEF SlotStep, Birth, Turning, Blow, Recycling
    <3> QED BY <3>1, <3>2
  <2> QED BY <2>2 DEF FreshSlots
<1>3. Moving \/ pool' = pool
  BY StepKinds DEF Framed, Idle
<1> QED BY <1>1, <1>2, <1>3

(* Every step of an undisturbed capture keeps what is known of the losses. *)
LEMMA KillNext ==
    TypeInv /\ TypeInv' /\ WholeInv /\ SoundInv /\ KillInv /\ [CaptureStep]_vars => KillInv'
<1> SUFFICES ASSUME TypeInv, TypeInv', WholeInv, SoundInv, KillInv, [CaptureStep]_vars, probes', faults' = {}
             PROVE  KillSound'
  BY FreshNext DEF KillInv
<1>0. faults = {} /\ probes => Sound /\ Announced /\ FreshSlots /\ KillSound /\ Ordered
  BY DEF SoundInv, KillInv, Sound
<1>10. FreshSlots
  BY DEF KillInv
<1>9. nextSequence \in Nat /\ stack \in Seq(Invocation)
  BY DEF TypeInv, CaptureType
<1>1. ASSUME NEW s \in Slots, NEW play \in BOOLEAN, Enter(s, play) PROVE KillSound'
  <2>1. /\ UNCHANGED <<probes, truth, spawnQueue, probeQueue, nextSequence, written, frames, version, boundary, phase>>
        /\ faults = {}
    BY <1>1 DEF Enter, files, run, clock
  <2>2. KillSound
    BY <1>0, <2>1
  <2>3. Cap' = Cap
    BY <2>1 DEF Cap
  <2>4. Grown({})
    BY <1>9, <2>1, <2>3 DEF Grown
  <2>5. /\ Elsewhere(s) /\ ~pool[s].used /\ Birth(s)
    BY <1>1, <2>1, EnterPool DEF TypeInv, Birth
  <2>6. \A t \in Slots : pool'[t] = pool[t] \/ Birth(t) \/ Turning(t) \/ Recycling(t)
    BY <2>5 DEF Elsewhere
  <2>7. \A k \in 1..Len(stack') : stack'[k].z = Id(s) \/ \E l \in 1..Len(stack) : stack'[k] = stack[l]
    <3> DEFINE item == [inv |-> IF Len(stack) < NestLimit THEN nextInvocation ELSE 0, depth |-> Len(stack),
                        parent |-> IF stack = <<>> THEN 0 ELSE Last(stack).inv,
                        ver |-> boundary, z |-> Id(s), play |-> play]
    <3>1. stack' = Append(stack, item)
      BY <1>1 DEF Enter
    <3>2. item.z = Id(s)
      OBVIOUS
    <3> HIDE DEF item
    <3>3. /\ Len(stack') = Len(stack) + 1 /\ Len(stack) \in Nat /\ stack'[Len(stack) + 1] = item
          /\ \A k \in 1..Len(stack) : stack'[k] = stack[k]
      BY <1>9, <3>1
    <3>4. \A k \in 1..Len(stack') : k \in 1..Len(stack) \/ k = Len(stack) + 1
      BY <3>3
    <3> QED BY <3>2, <3>3, <3>4
  <2>8. ASSUME NEW z \in Zombies, Doomed(z) PROVE \A k \in 1..Len(stack') : stack'[k].z # z
    <3>1. z # Id(s)
      BY <2>5, <2>8, DoomedElsewhere DEF Doomed
    <3> QED BY <2>7, <2>8, <3>1 DEF Doomed, Unborn
  <2> QED BY <1>10, <2>1, <2>2, <2>4, <2>6, <2>8, KillQuiet
<1>2. ASSUME NEW readable \in BOOLEAN, Leave(readable) PROVE KillSound'
  <2>1. UNCHANGED <<probes, pool, truth, probeQueue, written, frames, version, boundary, phase>>
    BY <1>2 DEF Leave, game, files, run, clock
  <2>2. faults = {}
    BY <1>2, LeaveCapture DEF TypeInv
  <2>3. KillSound
    BY <1>0, <2>1, <2>2
  <2> DEFINE L == Len(stack)  x == InitEvent(Last(stack), nextSequence)
  <2>4. /\ L \in Nat \ {0} /\ Last(stack) \in Invocation /\ Last(stack) = stack[L] /\ L \in 1..L
        /\ Len(stack') = L - 1 /\ \A k \in 1..Len(stack') : stack'[k] = stack[k]
    BY <1>2, LeaveCapture DEF TypeInv, Last
  <2>5. L <= NestLimit
    BY <2>2, <2>4, CaptureAssumption DEF WholeInv, Accounted
  <2>6. spawnQueue' = Append(spawnQueue, x) /\ nextSequence' = nextSequence + 1
    BY <1>2, <2>5, LeaveCapture DEF TypeInv
  <2>7. /\ x \in Event /\ x.kind = "init" /\ x.seq = nextSequence /\ x.z = stack[L].z
    <3>1. x \in Event /\ Alike(x, Fact("init", Last(stack).z, Last(stack).play, nextSequence, Last(stack).ver))
      BY <2>4, InitEventType DEF TypeInv, CaptureType
    <3> DEFINE f == Fact("init", Last(stack).z, Last(stack).play, nextSequence, Last(stack).ver)
    <3>2. f.kind = "init" /\ f.seq = nextSequence /\ f.z = Last(stack).z
      BY DEF Fact
    <3> HIDE DEF x, f
    <3> QED BY <2>4, <3>1, <3>2 DEF Alike, f
  <2> HIDE DEF x
  <2>8. Members(spawnQueue') = Members(spawnQueue) \cup {x}
    <3>1. spawnQueue \in Seq(Event) /\ <<x>> \in Seq(Event) /\ spawnQueue' = spawnQueue \o <<x>>
      BY <2>6, <2>7 DEF TypeInv, CaptureType
    <3>2. Members(<<x>>) = {x}
      BY DEF Members
    <3>3. Members(spawnQueue \o <<x>>) = Members(spawnQueue) \cup Members(<<x>>)
      BY <3>1, MembersJoined, ZenonT(40)
    <3>4. Members(spawnQueue') = Members(spawnQueue \o <<x>>)
      BY <3>1 DEF Members
    <3> QED BY <3>2, <3>3, <3>4
  <2>9. Cap' = Cap \cup {x}
    BY <2>1, <2>8 DEF Cap
  <2>10. Grown({x})
    <3>1. nextSequence >= nextSequence /\ nextSequence < nextSequence + 1 /\ nextSequence <= nextSequence + 1
      BY <1>9
    <3> QED BY <2>6, <2>7, <2>9, <3>1 DEF Grown
  <2>11. \A e \in {x} : e.kind \notin Blows
    BY <2>7 DEF Blows
  <2>12. ASSUME NEW z \in Zombies, Doomed(z) PROVE x.z # z /\ \A k \in 1..Len(stack') : stack'[k].z # z
    <3>1. \A k \in 1..L : stack[k].z # z
      BY <2>12 DEF Doomed, Unborn
    <3>2. \A k \in 1..Len(stack') : k \in 1..L
      BY <2>4
    <3> QED BY <2>4, <2>7, <3>1, <3>2
  <2>13. \A t \in Slots : pool'[t] = pool[t] \/ Birth(t) \/ Turning(t) \/ Recycling(t)
    BY <2>1
  <2>14. \A z \in Zombies : Doomed(z) =>
            (\A e \in {x} : e.kind = "init" => e.z # z) /\ \A k \in 1..Len(stack') : stack'[k].z # z
    BY <2>12
  <2> HIDE DEF L
  <2> QED BY <1>10, <2>1, <2>3, <2>10, <2>11, <2>13, <2>14, KillQuiet
<1>3. ASSUME NEW s \in Slots, NEW stage \in Stages, NEW readable \in BOOLEAN, Store(s, stage, readable)
      PROVE  KillSound'
  <2>1. UNCHANGED <<frames, version, boundary, phase, probes>> /\ Alive
    BY <1>3 DEF Store, run, clock, Room
  <2>2. faults = {}
    BY <1>3, StoreStep DEF Captured
  <2>3. Striking(s, StoreEvent(s, stage)) /\ stack' = stack
    BY <1>3, <2>1, StoreStrikes
  <2> DEFINE e == StoreEvent(s, stage)
  <2> HIDE DEF e
  <2>4. Striking(s, e)
    BY <2>3 DEF e
  <2> QED BY <1>0, <2>1, <2>2, <2>3, <2>4, KillBlow
<1>4. ASSUME NEW s \in Slots, NEW chain \in BOOLEAN, NEW readable \in BOOLEAN, Mark(s, chain, readable)
      PROVE  KillSound'
  <2>1. UNCHANGED <<frames, version, boundary, phase, probes>> /\ Alive
    BY <1>4 DEF Mark, run, clock, Room
  <2>2. faults = {}
    BY <1>4, MarkStep DEF Captured
  <2>3. Striking(s, MarkEvent(s, chain)) /\ stack' = stack
    BY <1>4, <2>1, MarkStrikes
  <2> DEFINE e == MarkEvent(s, chain)
  <2> HIDE DEF e
  <2>4. Striking(s, e)
    BY <2>3 DEF e
  <2> QED BY <1>0, <2>1, <2>2, <2>3, <2>4, KillBlow
<1>5. ASSUME NEW s \in Slots, NEW readable \in BOOLEAN, Recycle(s, readable) PROVE KillSound'
  <2>1. UNCHANGED <<truth, frames, version, boundary, phase, probes>>
    BY <1>5 DEF Recycle, run, clock
  <2>2. faults = {}
    BY <1>5, RecycleStep DEF Captured
  <2> DEFINE d == CandidateEvent(s)  c == CommitOf(s)  recs == <<d, c>>
  <2>3. d.kind = "candidate" /\ c.kind = "commit"
    BY SlotEvents
  <2>4. Probed(recs) /\ ProbeFits(recs)
    BY <1>5, RecycleProbed, SlotFits
  <2> HIDE DEF d, c
  <2>5. Members(recs) = {d, c}
    BY DEF Members
  <2> HIDE DEF recs
  <2>6. Grown({d, c}) /\ stack' = stack
    BY <2>1, <2>4, <2>5, ProbedGrown
  <2>7. Elsewhere(s) /\ Recycling(s)
    BY <1>5, <2>1, RecyclePool DEF TypeInv, Recycling
  <2>8. \A t \in Slots : pool'[t] = pool[t] \/ Birth(t) \/ Turning(t) \/ Recycling(t)
    BY <2>7 DEF Elsewhere
  <2>9. \A e \in {d, c} : e.kind \notin Blows /\ e.kind # "init"
    BY <2>3 DEF Blows
  <2>10. \A z \in Zombies : Doomed(z) => \A k \in 1..Len(stack') : stack'[k].z # z
    BY <2>6 DEF Doomed, Unborn
  <2>11. KillSound
    BY <1>0, <2>1, <2>2
  <2> QED BY <1>10, <2>1, <2>6, <2>8, <2>9, <2>10, <2>11, KillQuiet
<1>6. ASSUME NEW v, NEW b, NEW p, Bounds(v, b, p), Observed(v, b, p) PROVE KillSound'
  <2>1. faults = {} /\ probes
    BY <1>6 DEF Observed, Recorded
  <2> QED BY <1>0, <1>6, <1>10, <2>1, KillObserve
<1>7. CASE BeginCall \/ EndCall
  <2>2. CASE BeginCall
    <3>1. Bounds(version, version, "call") /\ Observed(version, version, "call")
      BY <2>2, BeginCallStep DEF Bounds
    <3> QED BY <1>6, <3>1
  <2>3. CASE EndCall
    <3>1. Bounds(version + 1, Null, "calm") /\ Observed(version + 1, Null, "calm")
      BY <2>3, EndCallStep DEF Bounds
    <3> QED BY <1>6, <3>1
  <2> QED BY <1>7, <2>2, <2>3
<1>8. CASE CaptureInitial \/ WriteEnding \/ Close \/ UNCHANGED vars
  <2>1. /\ UNCHANGED <<pool, truth, stack, nextSequence, probes, faults, frames, version, boundary>>
        /\ Cap' = Cap
        /\ phase' = phase \/ (phase = "calm" /\ phase' = "closed")
    <3>1. CASE WriteEnding
      <4>1. UNCHANGED <<pool, truth, stack, nextSequence, probes, faults, frames, version, boundary, phase,
                        written, spawnQueue, probeQueue>>
        BY <3>1 DEF WriteEnding, game, capture, files, clock
      <4> QED BY <4>1 DEF Cap
    <3>2. CASE Close
      <4>1. Closing
        BY <3>2, CloseStep
      <4>2. Recorded /\ phase \in {"calm", "stopped"} /\ phase' = "closed" /\ UNCHANGED <<version, boundary, frames>>
        BY <4>1 DEF Closing
      <4>3. UNCHANGED <<pool, truth, stack, nextSequence, probes, faults>>
        BY <4>2 DEF Recorded, game
      <4>4. Announced /\ Ordered
        BY <1>0, <4>3
      <4>5. phase = "calm"
        BY <4>2, <4>4 DEF Announced
      <4>6. Cap' = Cap
        BY <4>2, <4>4, DrainKeeps
      <4> QED BY <4>2, <4>3, <4>5, <4>6
    <3>3. CASE UNCHANGED vars
      <4>1. UNCHANGED <<pool, truth, stack, nextSequence, probes, faults, frames, version, boundary, phase,
                        written, spawnQueue, probeQueue>>
        BY <3>3 DEF vars, game, capture, files, run, clock
      <4> QED BY <4>1 DEF Cap
    <3>4. CASE CaptureInitial
      <4>1. UNCHANGED <<pool, truth, stack, nextSequence, probes, faults, frames, version, boundary, phase,
                        written, spawnQueue, probeQueue>>
        BY <3>4 DEF CaptureInitial, game, capture, files, clock
      <4> QED BY <4>1 DEF Cap
    <3> QED BY <1>8, <3>1, <3>2, <3>3, <3>4
  <2>2. Grown({})
    BY <1>9, <2>1 DEF Grown
  <2>3. \A z \in Zombies : Doomed(z) => \A k \in 1..Len(stack') : stack'[k].z # z
    BY <2>1 DEF Doomed, Unborn
  <2>4. KillSound
    BY <1>0, <2>1
  <2>5. \A t \in Slots : pool'[t] = pool[t] \/ Birth(t) \/ Turning(t) \/ Recycling(t)
    BY <2>1
  <2> QED BY <1>10, <2>1, <2>2, <2>3, <2>4, <2>5, KillQuiet
<1>11. ASSUME NEW s \in Slots, NEW stage \in Phases, Turn(s, stage) PROVE KillSound'
  <2>1. /\ UNCHANGED <<probes, truth, stack, nextSequence, faults, written, spawnQueue, probeQueue,
                      frames, version, boundary, phase>>
        /\ Cap' = Cap
    BY <1>11, TurnStep DEF capture, files, run, clock, Cap
  <2>2. Grown({})
    BY <1>9, <2>1 DEF Grown
  <2>3. \A z \in Zombies : Doomed(z) => \A k \in 1..Len(stack') : stack'[k].z # z
    BY <2>1 DEF Doomed, Unborn
  <2>4. KillSound
    BY <1>0, <2>1
  <2>5. Elsewhere(s) /\ Turning(s)
    BY <1>11, <2>1, TurnPool DEF TypeInv, Turning
  <2>6. \A t \in Slots : pool'[t] = pool[t] \/ Birth(t) \/ Turning(t) \/ Recycling(t)
    BY <2>5 DEF Elsewhere
  <2> QED BY <1>10, <2>1, <2>2, <2>3, <2>4, <2>6, KillQuiet
<1> QED BY <1>1, <1>2, <1>3, <1>4, <1>5, <1>7, <1>8, <1>11 DEF CaptureStep

(* No loss is known yet. *)
LEMMA KillInit == Init => KillInv
<1> SUFFICES ASSUME Init PROVE KillInv
  OBVIOUS
<1>0. TypeInv
  BY TypeInit
<1>1. /\ stack = <<>> /\ spawnQueue = <<>> /\ probeQueue = <<>> /\ written = <<>> /\ frames = <<>> /\ truth = <<>>
      /\ phase = "calm" /\ boundary = Null /\ \A s \in Slots : pool[s] \in Residents \cup {Free}
  BY DEF Init
<1>2. Len(<<>>) = 0 /\ 1..0 = {}
  OBVIOUS
<1>3. Cap = {}
  BY <1>1, <1>2 DEF Cap, Members, Events
<1>4. FreshSlots
  BY <1>1, FreeType, ResidentType, CaptureAssumption DEF FreshSlots, Residents
<1>5. Struck
  <2>1. SUFFICES ASSUME NEW s \in Slots, pool[s].used, pool[s].stage \in Death PROVE Doomed(Id(s))
    BY DEF Struck
  <2>2. Id(s)[1] = s /\ Id(s)[2] = pool[s].gen /\ pool[s].gen \in Nat
    BY <1>0, IdType DEF TypeInv
  <2>3. Unborn(Id(s))
    BY <1>1, <1>2, <1>3 DEF Unborn
  <2>4. Len(frames) = 0 /\ 1..(0 + 1) = {1} /\ Reached(1) = pool
    BY <1>1 DEF Reached
  <2>5. Dying(Id(s))
    BY <2>1, <2>2, <2>4 DEF Dying
  <2> QED BY <2>3, <2>5 DEF Doomed
<1>6. VersionsRise
  BY <1>1, <1>2 DEF VersionsRise
<1>7. LossesCaptured /\ BlowsExplained /\ Unhit /\ BlowsKnown /\ LossesTimed
  BY <1>1, <1>2, <1>3 DEF LossesCaptured, BlowsExplained, Unhit, BlowsKnown, LossesTimed
<1> QED BY <1>4, <1>5, <1>6, <1>7 DEF KillInv, KillSound
----------------------------------------------------------------------------
(* The captured facts' fold *)

(* Events whose sequences rise are in order. *)
LEMMA RisingInOrder ==
    ASSUME NEW S, NEW es \in Seq(S), \A i \in 1..Len(es) : es[i].seq \in Nat, Rises(es)
    PROVE  InOrder(es) = es
<1> DEFINE n == Len(es)
<1>1. PICK p \in [1..n -> 1..n] :
          /\ InOrder(es) = [k \in 1..n |-> es[p[k]]]
          /\ \A i \in 1..n : \E k \in 1..n : p[k] = i
          /\ \A k, l \in 1..n : k < l => Precedes(es, p[k], p[l])
  BY InOrderSorts
<1>2. n \in Nat /\ \A i \in 1..n : es[i].seq \in Nat
  OBVIOUS
<1>3. ASSUME NEW i \in 1..n, NEW j \in 1..n, Precedes(es, i, j) PROVE i < j
  <2>1. j < i => es[j].seq < es[i].seq
    BY DEF Rises
  <2>2. es[i].seq < es[j].seq \/ (es[i].seq = es[j].seq /\ i < j)
    BY <1>3 DEF Precedes
  <2> DEFINE x == es[i].seq  y == es[j].seq
  <2>3. x \in Nat /\ y \in Nat /\ (j < i => y < x) /\ (x < y \/ (x = y /\ i < j)) /\ (i = j => x = y)
    BY <1>2, <2>1, <2>2
  <2> HIDE DEF x, y
  <2> QED BY <1>2, <2>3
<1> HIDE DEF n
<1>4. \A k, l \in 1..n : k < l => p[k] < p[l]
  BY <1>1, <1>3
<1> DEFINE bad == {k \in 1..n : p[k] # k}
<1>5. ASSUME bad # {} PROVE FALSE
  <2>1. bad \subseteq Nat
    BY <1>2
  <2>2. PICK k \in bad : \A y \in bad : k <= y
    <3> HIDE DEF bad
    <3> QED BY <1>5, <2>1, LeastMember
  <2>3. k \in 1..n /\ p[k] # k /\ p[k] \in 1..n /\ \A j \in 1..n : j < k => p[j] = j
    BY <1>1, <1>2, <2>2
  <2>4. PICK l \in 1..n : p[l] = k
    BY <1>1, <2>3
  <2>5. ~(p[k] < k)
    BY <1>2, <1>4, <2>3
  <2>6. ~(l < k)
    BY <1>2, <2>3, <2>4
  <2>7. l # k
    BY <2>3, <2>4
  <2>8. p[k] < p[l]
    BY <1>2, <1>4, <2>3, <2>6, <2>7
  <2> QED BY <1>2, <2>3, <2>4, <2>5, <2>8
<1>6. \A k \in 1..n : p[k] = k
  BY <1>5
<1>7. InOrder(es) = [k \in 1..n |-> es[k]]
  BY <1>1, <1>6
<1> QED BY <1>7 DEF n

(* A classified fact, and what the facts so far tell. *)
ClassifiedFact ==
    [z : Zombies, seq : Nat, kind : Kinds,
     class : Kinds \cup {"phase_unclassified", "already_dying", "death_after_dying", "confirmed_death_stage",
                         "removal_after_death", "confirmed_death_path", "removal_unclassified"},
     play : BOOLEAN, time : {"undeclared", "uncontrolled", "before", "after", "inside"},
     pred : {"initialization", "unknown_predecessor", "initial_residue_doomed", "initial_residue"},
     missed : BOOLEAN]
Learning == [dying : SUBSET Zombies, born : SUBSET Zombies, facts : Seq(ClassifiedFact)]
NothingLearnt == [dying |-> {}, born |-> {}, facts |-> <<>>]

(* A fact is typed. *)
LEMMA ClassifiedType ==
    ASSUME NEW e \in Event, NEW was, NEW residue, NEW w
    PROVE  Classified(e, was, residue, w) \in ClassifiedFact
<1> DEFINE class == ClassOf(e, was.dying)
           time == TimeScope(e.ver, w)
           pred == Predecessor(e.z, was.born, residue)
           missed == /\ class = "already_dying" /\ e.z \notin was.dying
                     /\ IF e.z \in DOMAIN residue
                        THEN ~residue[e.z].gone /\ residue[e.z].stage \notin DeathStages
                        ELSE TRUE
<1>1. e.z \in Zombies /\ e.seq \in Nat /\ e.kind \in Kinds /\ e.play \in BOOLEAN
  BY DEF Event
<1>2. class \in Kinds \cup {"phase_unclassified", "already_dying", "death_after_dying", "confirmed_death_stage",
                            "removal_after_death", "confirmed_death_path", "removal_unclassified"}
  <2>1. CASE e.kind = "phase"
    BY <2>1 DEF ClassOf
  <2>2. CASE e.kind = "removal"
    BY <2>2 DEF ClassOf
  <2>3. CASE e.kind # "phase" /\ e.kind # "removal"
    BY <1>1, <2>3 DEF ClassOf
  <2> QED BY <2>1, <2>2, <2>3
<1>3. time \in {"undeclared", "uncontrolled", "before", "after", "inside"}
  BY DEF TimeScope
<1>4. pred \in {"initialization", "unknown_predecessor", "initial_residue_doomed", "initial_residue"}
  BY DEF Predecessor
<1>5. missed \in BOOLEAN
  OBVIOUS
<1>6. Classified(e, was, residue, w) =
        [z |-> e.z, seq |-> e.seq, kind |-> e.kind, class |-> class, play |-> e.play,
         time |-> time, pred |-> pred, missed |-> missed]
  BY DEF Classified
<1> HIDE DEF class, time, pred, missed
<1> QED BY <1>1, <1>2, <1>3, <1>4, <1>5, <1>6 DEF ClassifiedFact

(* What one record teaches. *)
Taught(was, e, fact, now) ==
    /\ now \in Learning
    /\ e.kind = "init" => now.dying = was.dying /\ now.born = was.born \cup {e.z} /\ now.facts = was.facts
    /\ e.kind # "init" =>
         /\ now.born = was.born
         /\ fact \in ClassifiedFact /\ now.facts = Append(was.facts, fact)
         /\ was.dying \subseteq now.dying
         /\ \A z \in now.dying : z \in was.dying \/ (z = e.z /\ e.kind \in Blows)
         /\ e.kind = "phase" /\ e.play => e.z \in now.dying

(* And it does. *)
LEMMA LearntTeaches ==
    ASSUME NEW was \in Learning, NEW e \in Event, NEW residue, NEW w
    PROVE  Taught(was, e, Classified(e, was, residue, w), Learnt(was, e, residue, w))
<1> DEFINE fact == Classified(e, was, residue, w)
           now == Learnt(was, e, residue, w)
           more == IF fact.class \in Deaths \cup {"already_dying"} THEN {e.z} ELSE {}
<1>1. was.dying \subseteq Zombies /\ was.born \subseteq Zombies /\ was.facts \in Seq(ClassifiedFact)
      /\ e.z \in Zombies /\ e.kind \in Kinds
  BY DEF Learning, Event
<1>2. fact \in ClassifiedFact
  BY ClassifiedType
<1>3. CASE e.kind = "init"
  <2>1. now = [was EXCEPT !.born = @ \cup {e.z}]
    BY <1>3 DEF Learnt
  <2>2. now = [dying |-> was.dying, born |-> was.born \cup {e.z}, facts |-> was.facts]
    BY <2>1 DEF Learning
  <2> HIDE DEF now
  <2>3. now.dying = was.dying /\ now.born = was.born \cup {e.z} /\ now.facts = was.facts
    BY <2>2
  <2>4. now \in Learning
    BY <1>1, <2>2 DEF Learning
  <2> QED BY <1>3, <2>3, <2>4 DEF Taught, now
<1>4. CASE e.kind # "init"
  <2>1. now = [dying |-> was.dying \cup more, born |-> was.born, facts |-> Append(was.facts, fact)]
    BY <1>4 DEF Learnt
  <2>2. more \subseteq {e.z} /\ (more # {} => e.kind \in Blows)
    <3>1. fact.class = ClassOf(e, was.dying)
      BY DEF Classified
    <3> DEFINE class == fact.class
    <3>2. class \in Deaths \cup {"already_dying"} => e.kind = "phase" \/ e.kind = "removal"
      BY <1>1, <3>1 DEF ClassOf, Deaths, Kinds
    <3> QED BY <3>2 DEF Blows
  <2>3. e.kind = "phase" /\ e.play => e.z \in was.dying \cup more
    <3>1. SUFFICES ASSUME e.kind = "phase", e.play, e.z \notin was.dying PROVE e.z \in more
      OBVIOUS
    <3>2. fact.class = ClassOf(e, was.dying)
      BY DEF Classified
    <3>3. ClassOf(e, was.dying) \in {"already_dying", "confirmed_death_stage"}
      BY <3>1 DEF ClassOf
    <3> QED BY <3>2, <3>3 DEF Deaths
  <2> HIDE DEF now, fact, more
  <2>4. now.dying = was.dying \cup more /\ now.born = was.born /\ now.facts = Append(was.facts, fact)
    BY <2>1
  <2>5. now \in Learning
    BY <1>1, <1>2, <2>1, <2>2 DEF Learning
  <2> QED BY <1>2, <1>4, <2>2, <2>3, <2>4, <2>5 DEF Taught, now, fact
<1> QED BY <1>3, <1>4
(* What is known after each record, from what was known before it. *)
LEMMA KnowledgeFold ==
    ASSUME NEW es \in Seq(Event), NEW residue, NEW w
    PROVE  /\ Knowledge(es, residue, w)[0] = NothingLearnt
           /\ \A i \in 1..Len(es) :
                 /\ Knowledge(es, residue, w)[i - 1] \in Learning
                 /\ Knowledge(es, residue, w)[i] = Learnt(Knowledge(es, residue, w)[i - 1], es[i], residue, w)
<1> DEFINE n == Len(es)
           step == [i \in 1..n |-> [was \in Learning |-> Learnt(was, es[i], residue, w)]]
<1>1. n \in Nat /\ \A i \in 1..n : es[i] \in Event
  OBVIOUS
<1>2. NothingLearnt \in Learning
  <2>1. <<>> \in Seq(ClassifiedFact)
    OBVIOUS
  <2> QED BY <2>1 DEF NothingLearnt, Learning
<1>3. ASSUME NEW i \in 1..n, NEW was \in Learning PROVE Learnt(was, es[i], residue, w) \in Learning
  BY <1>1, LearntTeaches DEF Taught
<1>4. step \in [1..n -> [Learning -> Learning]]
  BY <1>3
<1>5. PICK f \in [0..n -> Learning] : f[0] = NothingLearnt /\ \A i \in 1..n : f[i] = step[i][f[i - 1]]
  <2> HIDE DEF step, n
  <2>1. Reaches(n, Learning, NothingLearnt, step)
    BY <1>1, <1>2, <1>4, Recursion
  <2> QED BY <2>1 DEF Reaches
<1>6. ASSUME NEW i \in 1..n PROVE f[i - 1] \in Learning /\ f[i] = Learnt(f[i - 1], es[i], residue, w)
  <2>1. i - 1 \in 0..n
    BY <1>1
  <2>2. f[i - 1] \in Learning
    BY <1>5, <2>1
  <2> QED BY <1>5, <2>2
<1> HIDE DEF step
<1> DEFINE Body(g) == [i \in 0..n |-> IF i = 0 THEN [dying |-> {}, born |-> {}, facts |-> <<>>]
                                      ELSE Learnt(g[i - 1], es[i], residue, w)]
<1>7. \A g : g = Body(g) => g = f
  <2>1. SUFFICES ASSUME NEW g, g = Body(g) PROVE g = f
    OBVIOUS
  <2>2. g[0] = NothingLearnt /\ DOMAIN g = 0..n /\ \A i \in 1..n : g[i] = Learnt(g[i - 1], es[i], residue, w)
    <3> DEFINE h == Body(g)
    <3>1. DOMAIN h = 0..n
      OBVIOUS
    <3>2. \A i \in 0..n : h[i] = IF i = 0 THEN [dying |-> {}, born |-> {}, facts |-> <<>>]
                                 ELSE Learnt(g[i - 1], es[i], residue, w)
      OBVIOUS
    <3> HIDE DEF h
    <3>3. g = h
      BY <2>1 DEF h
    <3> HIDE DEF n
    <3>4. 0 \in 0..n /\ \A i \in 1..n : i \in 0..n /\ i # 0
      BY <1>1
    <3>5. g[0] = NothingLearnt
      BY <3>2, <3>3, <3>4 DEF NothingLearnt
    <3>6. \A i \in 1..n : g[i] = Learnt(g[i - 1], es[i], residue, w)
      BY <3>2, <3>3, <3>4
    <3> QED BY <3>1, <3>3, <3>5, <3>6
  <2> HIDE DEF n, Body
  <2> DEFINE S == {i \in 0..n : g[i] = f[i]}
  <2>3. 0 \in S
    BY <1>1, <1>5, <2>2
  <2>4. ASSUME NEW i \in 0..(n - 1), i \in S PROVE i + 1 \in S
    <3>1. i + 1 \in 1..n /\ (i + 1) - 1 = i /\ i + 1 \in 0..n
      BY <1>1
    <3> QED BY <1>6, <2>2, <2>4, <3>1
  <2>5. \A i \in 0..n : i \in S
    <3> HIDE DEF S
    <3> QED BY <1>1, <2>3, <2>4, UpTo
  <2>6. g = [i \in 0..n |-> g[i]]
    BY <2>1, <2>2 DEF Body
  <2> QED BY <1>5, <2>5, <2>6
<1>8. f = Body(f)
  <2>1. ASSUME NEW i \in 0..n
        PROVE f[i] = IF i = 0 THEN [dying |-> {}, born |-> {}, facts |-> <<>>]
                     ELSE Learnt(f[i - 1], es[i], residue, w)
    <3>1. CASE i = 0
      BY <1>5, <3>1 DEF NothingLearnt
    <3>2. CASE i # 0
      <4>1. i \in 1..n
        BY <3>2
      <4> QED BY <1>6, <3>2, <4>1
    <3> QED BY <3>1, <3>2
  <2> QED BY <1>5, <2>1
<1>9. Knowledge(es, residue, w) = Body(Knowledge(es, residue, w))
  <2>1. \E g : g = Body(g)
    BY <1>8
  <2> QED BY <2>1 DEF Knowledge
<1>10. Knowledge(es, residue, w) = f
  <2> HIDE DEF Body
  <2> QED BY <1>7, <1>9
<1> QED BY <1>5, <1>6, <1>10

(* What the knowledge after m records holds: one fact of each record but the *)
(* initializations, in order, and the dying and the born.                     *)
FactAt(es, past, residue, w, fact, n) ==
    es[n].kind # "init" /\ fact = Classified(es[n], past[n - 1], residue, w)
Learned(es, past, residue, w, m) ==
    /\ past[m] \in Learning
    /\ \A x \in 1..Len(past[m].facts) : \E n \in 1..m : FactAt(es, past, residue, w, past[m].facts[x], n)
    /\ \A n \in 1..m : es[n].kind # "init" =>
          \E x \in 1..Len(past[m].facts) : FactAt(es, past, residue, w, past[m].facts[x], n)
    /\ \A x, y \in 1..Len(past[m].facts) : x <= y => past[m].facts[x].seq <= past[m].facts[y].seq
    /\ \A z \in past[m].dying : \E n \in 1..m : es[n].kind \in Blows /\ es[n].z = z
    /\ \A n \in 1..m : es[n].kind = "phase" /\ es[n].play => es[n].z \in past[m].dying
    /\ \A z \in past[m].born : \E n \in 1..m : es[n].kind = "init" /\ es[n].z = z

(* One record more. *)
LEMMA LearnedStep ==
    ASSUME NEW es \in Seq(Event), Rises(es), NEW residue, NEW w, NEW past,
           NEW m \in Nat, m + 1 \in 1..Len(es), Learned(es, past, residue, w, m),
           past[m + 1] = Learnt(past[m], es[m + 1], residue, w)
    PROVE  Learned(es, past, residue, w, m + 1)
<1> DEFINE was == past[m]  now == past[m + 1]  e == es[m + 1]  fact == Classified(e, was, residue, w)
           L == Len(was.facts)
           F(g, n) == FactAt(es, past, residue, w, g, n)
<1>1. was \in Learning /\ e \in Event
  BY DEF Learned
<1>2. Taught(was, e, fact, now)
  BY <1>1, LearntTeaches
<1>3. was.facts \in Seq(ClassifiedFact) /\ L \in Nat /\ \A x \in 1..L : was.facts[x] \in ClassifiedFact
  BY <1>1 DEF Learning
<1>4. /\ \A x \in 1..L : \E n \in 1..m : F(was.facts[x], n)
      /\ \A n \in 1..m : es[n].kind # "init" => \E x \in 1..L : F(was.facts[x], n)
      /\ \A x, y \in 1..L : x <= y => was.facts[x].seq <= was.facts[y].seq
      /\ \A z \in was.dying : \E n \in 1..m : es[n].kind \in Blows /\ es[n].z = z
      /\ \A n \in 1..m : es[n].kind = "phase" /\ es[n].play => es[n].z \in was.dying
      /\ \A z \in was.born : \E n \in 1..m : es[n].kind = "init" /\ es[n].z = z
  BY DEF Learned
<1>5. /\ \A n \in 1..(m + 1) : n \in 1..m \/ n = m + 1
      /\ \A n \in 1..m : n \in 1..(m + 1) /\ n < m + 1 /\ n \in 1..Len(es)
      /\ m + 1 \in 1..(m + 1) /\ (m + 1) - 1 = m
  OBVIOUS
<1>6. e.kind # "init" => F(fact, m + 1)
  BY <1>5 DEF FactAt
<1>7. \A n \in 1..m : es[n].seq \in Nat /\ es[n].seq < e.seq /\ e.seq \in Nat
  <2>1. \A n \in 1..Len(es) : es[n] \in Event
    OBVIOUS
  <2>2. \A n \in 1..Len(es) : es[n].seq \in Nat
    BY <2>1 DEF Event
  <2> QED BY <1>5, <2>2 DEF Rises
<1>8. fact.seq = e.seq
  BY DEF Classified
<1>9. \A g, n : F(g, n) => g.seq = es[n].seq
  BY DEF FactAt, Classified
<1> HIDE DEF F, fact, was, now, e, L
<1>10. CASE e.kind = "init"
  <2>1. now \in Learning /\ now.dying = was.dying /\ now.born = was.born \cup {e.z} /\ now.facts = was.facts
    BY <1>2, <1>10 DEF Taught
  <2>2. e.kind # "phase"
    BY <1>10
  <2>3. \A z \in now.born : \E n \in 1..(m + 1) : es[n].kind = "init" /\ es[n].z = z
    BY <1>4, <1>5, <1>10, <2>1 DEF e
  <2>4. \A n \in 1..(m + 1) : es[n].kind # "init" => \E x \in 1..L : F(was.facts[x], n)
    BY <1>4, <1>5, <1>10 DEF e
  <2>5. \A n \in 1..(m + 1) : es[n].kind = "phase" /\ es[n].play => es[n].z \in was.dying
    BY <1>4, <1>5, <2>2 DEF e
  <2>6. /\ \A x \in 1..L : \E n \in 1..(m + 1) : F(was.facts[x], n)
        /\ \A z \in was.dying : \E n \in 1..(m + 1) : es[n].kind \in Blows /\ es[n].z = z
    BY <1>4, <1>5
  <2>7. Len(now.facts) = L
    BY <2>1 DEF L
  <2>8. /\ \A x \in 1..Len(now.facts) : \E n \in 1..(m + 1) : F(now.facts[x], n)
        /\ \A n \in 1..(m + 1) : es[n].kind # "init" => \E x \in 1..Len(now.facts) : F(now.facts[x], n)
        /\ \A x, y \in 1..Len(now.facts) : x <= y => now.facts[x].seq <= now.facts[y].seq
    BY <1>4, <2>1, <2>4, <2>6, <2>7
  <2> QED BY <2>1, <2>3, <2>5, <2>6, <2>8 DEF Learned, F, now
<1>11. CASE e.kind # "init"
  <2>1. /\ now \in Learning /\ now.born = was.born
        /\ fact \in ClassifiedFact /\ now.facts = Append(was.facts, fact)
        /\ was.dying \subseteq now.dying
        /\ \A z \in now.dying : z \in was.dying \/ (z = e.z /\ e.kind \in Blows)
        /\ e.kind = "phase" /\ e.play => e.z \in now.dying
    BY <1>2, <1>11 DEF Taught
  <2>2. /\ Len(now.facts) = L + 1
        /\ \A x \in 1..L : now.facts[x] = was.facts[x]
        /\ now.facts[L + 1] = fact
    BY <1>3, <2>1 DEF L
  <2>3. \A x \in 1..(L + 1) : x \in 1..L \/ x = L + 1
    BY <1>3
  <2>4. L + 1 \in 1..(L + 1) /\ \A x \in 1..L : x \in 1..(L + 1)
    BY <1>3
  <2>5. \A x \in 1..(L + 1) : \E n \in 1..(m + 1) : F(now.facts[x], n)
    BY <1>4, <1>5, <1>6, <1>11, <2>2, <2>3
  <2>6. \A n \in 1..(m + 1) : es[n].kind # "init" => \E x \in 1..(L + 1) : F(now.facts[x], n)
    BY <1>4, <1>5, <1>6, <1>11, <2>2, <2>4 DEF e
  <2>7. ASSUME NEW x \in 1..(L + 1), NEW y \in 1..(L + 1), x <= y PROVE now.facts[x].seq <= now.facts[y].seq
    <3>1. CASE y \in 1..L
      <4>1. x \in 1..L
        BY <1>3, <2>7, <3>1
      <4> QED BY <1>4, <2>2, <2>7, <3>1, <4>1
    <3>2. CASE y = L + 1
      <4>1. now.facts[y].seq = e.seq
        BY <1>8, <2>2, <3>2
      <4>2. CASE x \in 1..L
        <5>1. PICK n \in 1..m : F(was.facts[x], n)
          BY <1>4, <4>2
        <5>2. now.facts[x].seq = es[n].seq
          BY <1>9, <2>2, <4>2, <5>1
        <5> QED BY <1>7, <4>1, <5>2
      <4>3. CASE x = L + 1
        <5>1. e.seq \in Nat
          BY <1>1 DEF Event
        <5> QED BY <3>2, <4>1, <4>3, <5>1
      <4> QED BY <2>3, <4>2, <4>3
    <3> QED BY <2>3, <3>1, <3>2
  <2>8. \A z \in now.dying : \E n \in 1..(m + 1) : es[n].kind \in Blows /\ es[n].z = z
    BY <1>4, <1>5, <2>1 DEF e
  <2>9. \A n \in 1..(m + 1) : es[n].kind = "phase" /\ es[n].play => es[n].z \in now.dying
    BY <1>4, <1>5, <2>1 DEF e
  <2>10. \A z \in now.born : \E n \in 1..(m + 1) : es[n].kind = "init" /\ es[n].z = z
    BY <1>4, <1>5, <2>1
  <2> QED BY <2>1, <2>2, <2>5, <2>6, <2>7, <2>8, <2>9, <2>10 DEF Learned, F, now
<1> QED BY <1>10, <1>11
(* So the knowledge after every record holds. *)
LEMMA LearnedAll ==
    ASSUME NEW es \in Seq(Event), Rises(es), NEW residue, NEW w, NEW past, past = Knowledge(es, residue, w)
    PROVE  \A m \in 0..Len(es) : Learned(es, past, residue, w, m)
<1> DEFINE n == Len(es)
           S == {m \in 0..n : Learned(es, past, residue, w, m)}
<1>1. n \in Nat
  OBVIOUS
<1>2. past[0] = NothingLearnt /\ \A i \in 1..n : past[i] = Learnt(past[i - 1], es[i], residue, w)
  BY KnowledgeFold
<1>3. Learned(es, past, residue, w, 0)
  <2>1. past[0].dying = {} /\ past[0].born = {} /\ past[0].facts = <<>> /\ past[0] \in Learning
    <3>1. <<>> \in Seq(ClassifiedFact)
      OBVIOUS
    <3> QED BY <1>2, <3>1 DEF NothingLearnt, Learning
  <2>2. Len(past[0].facts) = 0
    BY <2>1
  <2>3. \A x \in 1..0 : FALSE
    OBVIOUS
  <2> QED BY <2>1, <2>2, <2>3 DEF Learned
<1> HIDE DEF n
<1>4. 0 \in S
  BY <1>1, <1>3
<1>5. ASSUME NEW m \in 0..(n - 1), m \in S PROVE m + 1 \in S
  <2>1. m \in Nat /\ m + 1 \in 1..n /\ m + 1 \in 0..n /\ (m + 1) - 1 = m
    BY <1>1
  <2>2. past[m + 1] = Learnt(past[m], es[m + 1], residue, w)
    BY <1>2, <2>1
  <2>3. Learned(es, past, residue, w, m)
    BY <1>5
  <2>4. Learned(es, past, residue, w, m + 1)
    BY <2>1, <2>2, <2>3, LearnedStep DEF n
  <2> QED BY <2>1, <2>4
<1>6. \A m \in 0..n : m \in S
  <2> HIDE DEF S
  <2> QED BY <1>1, <1>4, <1>5, UpTo
<1> QED BY <1>6 DEF n


(* A fact is in time exactly when its version is the window's. *)
LEMMA TimeOf ==
    ASSUME NEW ver \in Nat, NEW lo \in Nat, NEW hi \in Nat
    PROVE  /\ ver = 0 <=> TimeScope(ver, {<<lo, hi>>}) = "uncontrolled"
           /\ TimeScope(ver, {<<lo, hi>>}) = "inside" <=> ver # 0 /\ lo <= ver /\ ver <= hi
<1> DEFINE w == {<<lo, hi>>}
<1>1. w # {} /\ ((\E b \in w : ver < b[1]) <=> ver < lo) /\ ((\E b \in w : ver > b[2]) <=> ver > hi)
  OBVIOUS
<1> HIDE DEF w
<1>2. CASE ver = 0
  <2>1. TimeScope(ver, w) = "uncontrolled"
    BY <1>1, <1>2 DEF TimeScope
  <2> QED BY <1>2, <2>1 DEF w
<1>3. CASE ver # 0 /\ ver < lo
  <2>1. TimeScope(ver, w) = "before"
    BY <1>1, <1>3 DEF TimeScope
  <2> QED BY <1>3, <2>1 DEF w
<1>4. CASE ver # 0 /\ ~(ver < lo) /\ ver > hi
  <2>1. TimeScope(ver, w) = "after"
    BY <1>1, <1>4 DEF TimeScope
  <2> QED BY <1>4, <2>1 DEF w
<1>5. CASE ver # 0 /\ ~(ver < lo) /\ ~(ver > hi)
  <2>1. TimeScope(ver, w) = "inside"
    BY <1>1, <1>5 DEF TimeScope
  <2> QED BY <1>5, <2>1 DEF w
<1> QED BY <1>2, <1>3, <1>4, <1>5
----------------------------------------------------------------------------
(* The first kill the report claims *)

(* The report is about a closed run, all of whose captures are written, from *)
(* boundary a to the last.                                                   *)
Reported(es, residue, w, a) ==
    /\ phase # "call"
    /\ es \in Seq(Event) /\ Rises(es) /\ Cap = Members(es)
    /\ a \in 1..Len(frames)
    /\ residue = Snapshot(frames[a])
    /\ w = {<<frames[a].ver, frames[Len(frames)].ver>>}

(* A death the report knows the zombie's past of is a kill. *)
LEMMA ClaimIsKill ==
    ASSUME TypeInv, KillSound, NEW es, NEW residue, NEW w, NEW a, Reported(es, residue, w, a),
           NEW past, past = Knowledge(es, residue, w), NEW n \in 1..Len(es), NEW fact,
           FactAt(es, past, residue, w, fact, n), fact.play, fact.class \in Deaths,
           fact.pred \notin {"unknown_predecessor", "initial_residue_doomed"}
    PROVE  \E i \in 1..Len(truth) : Of(es[n], truth[i]) /\ truth[i].kill
<1> DEFINE e == es[n]  was == past[n - 1]
<1>0. es \in Seq(Event) /\ Rises(es) /\ Cap = Members(es) /\ n - 1 \in 0..Len(es)
  BY DEF Reported
<1>1. Learned(es, past, residue, w, n - 1)
  BY <1>0, LearnedAll
<1>2. e \in Event /\ e \in Cap /\ e.z \in Zombies
  <2>1. e \in Event /\ e \in Cap
    BY <1>0 DEF Members
  <2> QED BY <2>1 DEF Event
<1>3. /\ e.play /\ fact.class = ClassOf(e, was.dying)
      /\ fact.pred = Predecessor(e.z, was.born, residue)
  BY DEF FactAt, Classified
<1>4. /\ \A m \in 1..(n - 1) : es[m].kind = "phase" /\ es[m].play => es[m].z \in was.dying
      /\ \A z \in was.born : \E m \in 1..(n - 1) : es[m].kind = "init" /\ es[m].z = z
  BY <1>1 DEF Learned
<1>5. \A p \in Cap : \E m \in 1..Len(es) : p = es[m]
  BY <1>0 DEF Members
<1>6. \A m \in 1..(n - 1) : es[m] \in Cap
  BY <1>0 DEF Members
<1> HIDE DEF e, was
<1>7. Explained(e)
  BY <1>2 DEF KillSound, BlowsExplained
<1>8. CASE e.kind = "phase"
  <2>1. e.before \notin Death
    BY <1>3, <1>8 DEF ClassOf, Deaths, DeathStages, Death
  <2> QED BY <1>7, <1>8, <2>1 DEF Explained, e
<1>9. CASE e.kind = "removal"
  <2>1. e.z \notin was.dying /\ e.chain
    BY <1>3, <1>9 DEF ClassOf, Deaths
  <2>2. ASSUME NEW p \in Cap, p.kind = "phase", p.z = e.z, p.seq < e.seq PROVE FALSE
    <3>1. PICK m \in 1..Len(es) : p = es[m]
      BY <1>5
    <3>2. p.play
      <4>1. Known(e)
        BY <1>2, <1>9 DEF KillSound, BlowsKnown, Blows
      <4>2. p.play = e.play
        BY <2>2, <4>1 DEF Known, Blows
      <4> QED BY <1>3, <4>2
    <3>3. m < n
      <4>1. n < m => es[n].seq < es[m].seq
        BY <1>0 DEF Rises
      <4> DEFINE x == es[m].seq  y == es[n].seq
      <4>2. x \in Nat /\ y \in Nat
        <5>1. es[m] \in Event /\ es[n] \in Event
          BY <1>0
        <5> QED BY <5>1 DEF Event
      <4>3. x < y /\ (n < m => y < x) /\ (m = n => x = y)
        BY <2>2, <3>1, <4>1 DEF e
      <4>4. m \in Nat /\ n \in Nat
        OBVIOUS
      <4> HIDE DEF x, y
      <4> QED BY <4>2, <4>3, <4>4
    <3>4. m \in 1..(n - 1)
      BY <3>3
    <3> QED BY <1>4, <2>1, <2>2, <3>1, <3>2, <3>4
  <2>3. ASSUME Doomed(e.z) PROVE FALSE
    <3>1. e.z \in was.born \/ (e.z \in DOMAIN residue /\ residue[e.z].stage \notin DeathStages)
      BY <1>3 DEF Predecessor
    <3>2. CASE e.z \in was.born
      <4>1. PICK m \in 1..(n - 1) : es[m].kind = "init" /\ es[m].z = e.z
        BY <1>4, <3>2
      <4> QED BY <1>6, <2>3, <4>1 DEF Doomed, Unborn
    <3>3. CASE e.z \in DOMAIN residue /\ residue[e.z].stage \notin DeathStages
      <4> DEFINE f == frames[a]  z == e.z
      <4>1. a \in 1..Len(frames) /\ residue = Snapshot(f)
        BY DEF Reported
      <4>2. f.pool \in Pool /\ f.pool = Reached(a) /\ a \in 1..(Len(frames) + 1)
        BY <4>1, ReachedType DEF TypeInv
      <4> HIDE DEF f, z
      <4>3. z \in DOMAIN Snapshot(f) /\ Snapshot(f)[z].stage \notin DeathStages /\ z \in Zombies
        BY <1>2, <3>3, <4>1 DEF z
      <4>4. f.pool[z[1]].gen = z[2] /\ Snapshot(f)[z] = f.pool[z[1]]
        BY <4>2, <4>3, SnapshotOf
      <4>5. Dying(z)
        BY <2>3 DEF Doomed, z
      <4>6. f.pool[z[1]].stage \in Death
        BY <4>2, <4>4, <4>5 DEF Dying
      <4> QED BY <4>3, <4>4, <4>6 DEF Death, DeathStages
    <3> QED BY <3>1, <3>2, <3>3
  <2> QED BY <1>7, <1>9, <2>1, <2>2, <2>3 DEF Explained, e
<1>10. CASE e.kind # "phase" /\ e.kind # "removal"
  <2>1. fact.class = e.kind
    BY <1>3, <1>10 DEF ClassOf
  <2>2. e.kind \in Kinds
    BY <1>2 DEF Event
  <2> QED BY <2>1, <2>2 DEF Deaths, Kinds
<1> QED BY <1>8, <1>9, <1>10

(* A blow in a call is in the window exactly when its loss is between its frames. *)
LEMMA LossInside ==
    ASSUME TypeInv, KillSound, NEW es, NEW residue, NEW w, NEW a, Reported(es, residue, w, a),
           NEW i \in 1..Len(truth), NEW e \in Cap, Of(e, truth[i])
    PROVE  /\ TimeScope(e.ver, w) = "inside" => truth[i].at \in a..(Len(frames) - 1)
           /\ truth[i].at \in a..(Len(frames) - 1) => TimeScope(e.ver, w) \in {"inside", "uncontrolled"}
<1> DEFINE at == truth[i].at  ver == e.ver  L == Len(frames)  lo == frames[a].ver  hi == frames[L].ver
<1>1. /\ a \in 1..L /\ w = {<<lo, hi>>} /\ phase # "call"
  BY DEF Reported
<1>2. /\ ver \in Nat /\ at \in Nat /\ L \in Nat /\ a \in Nat /\ a <= L /\ L \in 1..L
      /\ \A j \in 1..L : frames[j].ver \in Nat
  <2>1. \A j \in 1..L : frames[j] \in Frame
    BY DEF TypeInv, RunType
  <2>2. e \in Event
    BY CapEvents
  <2>3. L \in Nat
    BY DEF TypeInv, RunType
  <2>4. \A j \in 1..L : frames[j].ver \in Nat
    BY <2>1 DEF Frame
  <2>5. ver \in Nat
    BY <2>2 DEF Event
  <2>6. at \in Nat
    BY LossParts DEF TypeInv
  <2> HIDE DEF L, at, ver
  <2> QED BY <1>1, <2>3, <2>4, <2>5, <2>6
<1>3. ver # 0 => Timed(at, ver)
  BY DEF KillSound, LossesTimed, Of, Null
<1>4. \A j \in 1..L : \A k \in 1..j : frames[k].ver <= frames[j].ver
  BY DEF KillSound, VersionsRise
<1>5. ver # 0 => /\ at \in 1..L /\ at < L
                 /\ frames[at].ver = ver /\ \A j \in 1..L : j > at => ver < frames[j].ver
  BY <1>1, <1>3 DEF Timed
<1>6. lo \in Nat /\ hi \in Nat
  BY <1>1, <1>2
<1>7. /\ ver = 0 <=> TimeScope(ver, w) = "uncontrolled"
      /\ TimeScope(ver, w) = "inside" <=> ver # 0 /\ lo <= ver /\ ver <= hi
  <2> HIDE DEF ver, lo, hi
  <2> QED BY <1>1, <1>2, <1>6, TimeOf
<1>8. ASSUME ver # 0, lo <= ver, ver <= hi PROVE at \in a..(L - 1)
  <2>1. ~(a > at)
    <3>1. a > at => ver < lo
      BY <1>1, <1>5, <1>8
    <3> HIDE DEF ver, lo
    <3> QED BY <1>2, <1>6, <1>8, <3>1
  <2> HIDE DEF at, L
  <2> QED BY <1>2, <1>5, <1>8, <2>1
<1>9. ASSUME ver # 0, at \in a..(L - 1) PROVE lo <= ver /\ ver <= hi
  <2>1. frames[at].ver = ver /\ at \in 1..L /\ a \in 1..at /\ at \in 1..L
    <3>1. frames[at].ver = ver /\ at \in 1..L
      BY <1>5, <1>9
    <3> HIDE DEF at, L
    <3>2. a \in 1..at
      BY <1>1, <1>2, <1>9
    <3> QED BY <3>1, <3>2
  <2>2. at \in 1..L /\ L \in 1..L
    BY <1>2, <2>1
  <2>3. frames[a].ver <= frames[at].ver
    BY <1>4, <2>1
  <2>4. at \in 1..L => frames[at].ver <= frames[L].ver
    BY <1>2, <1>4
  <2> QED BY <2>1, <2>2, <2>3, <2>4
<1> HIDE DEF ver, at, L, lo, hi
<1>10. TimeScope(ver, w) = "inside" => at \in a..(L - 1)
  BY <1>7, <1>8
<1>11. at \in a..(L - 1) => TimeScope(ver, w) \in {"inside", "uncontrolled"}
  BY <1>7, <1>9
<1> QED BY <1>10, <1>11 DEF ver, at, L
(* A death, or what keeps the report from a claim. *)
Doubts(fact) ==
    \/ fact.time = "inside" /\ fact.class \in Deaths \cup {"removal_unclassified"}
    \/ /\ fact.time = "uncontrolled"
       /\ \/ fact.kind = "removal"
          \/ fact.class \in Deaths \cup {"death_after_dying", "already_dying", "phase_unclassified"}

(* A loss in the window is one or the other. *)
LEMMA LossDoubts ==
    ASSUME TypeInv, KillSound, NEW es, NEW residue, NEW w, NEW a, Reported(es, residue, w, a),
           NEW facts, facts = Knowledge(es, residue, w)[Len(es)].facts,
           NEW j \in 1..Len(truth), LossAtIn(j, a, Len(frames) - 1)
    PROVE  \E y \in 1..Len(facts) : facts[y].play /\ facts[y].seq = truth[j].seq /\ Doubts(facts[y])
<1> DEFINE N == Len(es)  past == Knowledge(es, residue, w)
<1>0. /\ es \in Seq(Event) /\ Rises(es) /\ Cap = Members(es) /\ N \in Nat
      /\ truth[j].play /\ truth[j].at \in a..(Len(frames) - 1)
  BY DEF Reported, LossAtIn
<1>13. past = Knowledge(es, residue, w) /\ facts = past[Len(es)].facts
  OBVIOUS
<1> HIDE DEF past
<1>1. PICK e \in Cap : Of(e, truth[j]) /\ Opening(e)
  BY DEF KillSound, LossesCaptured
<1>2. PICK n \in 1..N : e = es[n]
  BY <1>0 DEF Members
<1>3. n - 1 \in 0..N /\ N \in 0..N
  BY <1>0
<1>4. Learned(es, past, residue, w, n - 1) /\ Learned(es, past, residue, w, N)
  BY <1>0, <1>3, <1>13, LearnedAll
<1> DEFINE was == past[n - 1]
<1>5. e.kind = "phase" \/ e.kind = "removal"
  BY <1>1 DEF Opening
<1>6. PICK y \in 1..Len(facts) : FactAt(es, past, residue, w, facts[y], n)
  <2>1. es[n].kind # "init"
    BY <1>2, <1>5
  <2> QED BY <1>2, <1>4, <1>13, <2>1 DEF Learned
<1>7. facts[y] = Classified(e, was, residue, w)
  BY <1>2, <1>6 DEF FactAt
<1>8. /\ facts[y].seq = e.seq /\ facts[y].play = e.play /\ facts[y].kind = e.kind
      /\ facts[y].class = ClassOf(e, was.dying) /\ facts[y].time = TimeScope(e.ver, w)
  <2> HIDE DEF was
  <2> QED BY <1>7 DEF Classified
<1>9. e.z \notin was.dying
  <2>1. SUFFICES ASSUME e.z \in was.dying PROVE FALSE
    OBVIOUS
  <2>2. PICK m \in 1..(n - 1) : es[m].kind \in Blows /\ es[m].z = e.z
    BY <1>4, <2>1 DEF Learned
  <2>3. es[m] \in Cap /\ m < n /\ m \in 1..N
    BY <1>0, <1>3 DEF Members
  <2>4. truth[j].seq <= es[m].seq
    BY <1>1, <2>2, <2>3 DEF KillSound, LossesCaptured, Of
  <2>5. es[m].seq < es[n].seq
    BY <1>0, <2>3 DEF Rises
  <2>6. es[m] \in Event /\ es[n] \in Event
    BY <1>0, <2>3
  <2> DEFINE p == es[m].seq  q == es[n].seq
  <2>7. p \in Nat /\ q \in Nat /\ p < q /\ q <= p
    BY <1>1, <1>2, <2>4, <2>5, <2>6 DEF Event, Of
  <2> HIDE DEF p, q
  <2> QED BY <2>7
<1>10. e.play
  BY <1>0, <1>1 DEF Of
<1> HIDE DEF was
<1>11. CASE e.kind = "phase"
  <2>1. e.before \notin DeathStages
    BY <1>1, <1>11 DEF Opening, Death, DeathStages
  <2>2. ClassOf(e, was.dying) = "confirmed_death_stage"
    BY <1>9, <1>10, <1>11, <2>1 DEF ClassOf
  <2>3. TimeScope(e.ver, w) \in {"inside", "uncontrolled"}
    BY <1>0, <1>1, LossInside
  <2> QED BY <1>1, <1>8, <1>10, <2>2, <2>3 DEF Of, Doubts, Deaths
<1>12. CASE e.kind = "removal"
  <2>1. ClassOf(e, was.dying) \in {"confirmed_death_path", "removal_unclassified"}
    BY <1>9, <1>12 DEF ClassOf
  <2>2. TimeScope(e.ver, w) \in {"inside", "uncontrolled"}
    BY <1>0, <1>1, LossInside
  <2> QED BY <1>1, <1>8, <1>10, <1>12, <2>1, <2>2 DEF Of, Doubts, Deaths
<1> QED BY <1>5, <1>11, <1>12

(* What the report's claim says of the facts. *)
Claims(facts, x) ==
    /\ x \in 1..Len(facts) /\ facts[x].play /\ facts[x].time = "inside" /\ facts[x].class \in Deaths
    /\ facts[x].pred \notin {"unknown_predecessor", "initial_residue_doomed"}
    /\ \A y \in 1..Len(facts) : facts[y].play /\ Doubts(facts[y]) => facts[x].seq <= facts[y].seq

(* And the report makes no other. *)
LEMMA ClaimSays ==
    ASSUME NEW records, NEW c, NEW facts, facts = Facts(records, c.residue, c.window), facts \in Seq(ClassifiedFact),
           \A x, y \in 1..Len(facts) : x <= y => facts[x].seq <= facts[y].seq,
           NEW k \in FirstKill(records, c)
    PROVE  Prerequisites(c) /\ \E x \in 1..Len(facts) : k = facts[x] /\ Claims(facts, x)
<1> DEFINE n == Len(facts)
           gameplay == {i \in 1..n : facts[i].play}
           proof == {i \in gameplay : facts[i].time = "inside"}
           uncontrolled == {i \in gameplay :
                               /\ facts[i].time = "uncontrolled"
                               /\ \/ facts[i].kind = "removal"
                                  \/ facts[i].class \in Deaths \cup {"death_after_dying", "already_dying",
                                                                      "phase_unclassified"}}
           confirmed == {i \in proof : facts[i].class \in Deaths}
           doubtful == {i \in confirmed : facts[i].pred \in {"unknown_predecessor", "initial_residue_doomed"}}
           unknown == doubtful
                      \cup {i \in proof : facts[i].class \in {"removal_unclassified", "phase_unclassified"}}
                      \cup {i \in proof : facts[i].missed}
                      \cup uncontrolled
           candidates == confirmed \ doubtful
           first == {i \in candidates : \A j \in candidates : i <= j}
<1>1. PICK x \in first : /\ k = facts[x] /\ Prerequisites(c) /\ uncontrolled = {}
                         /\ \A j \in unknown : facts[j].seq >= facts[x].seq
  <2>1. k \in {facts[i] : i \in {l \in first : /\ Prerequisites(c) /\ uncontrolled = {}
                                              /\ \A j \in unknown : facts[j].seq >= facts[l].seq}}
    BY DEF FirstKill
  <2> HIDE DEF first, unknown, uncontrolled
  <2> QED BY <2>1
<1>2. \A i \in 1..n : facts[i].seq \in Nat
  <2>1. \A i \in 1..n : facts[i] \in ClassifiedFact
    OBVIOUS
  <2> QED BY <2>1 DEF ClassifiedFact
<1>3. x \in candidates /\ \A j \in candidates : x <= j
  <2> HIDE DEF candidates
  <2> QED BY <1>1
<1>4. x \in 1..n /\ x \in confirmed /\ x \notin doubtful
  OBVIOUS
<1>5. ASSUME NEW y \in 1..n, facts[y].play, Doubts(facts[y]) PROVE facts[x].seq <= facts[y].seq
  <2>1. CASE facts[y].time = "inside" /\ facts[y].class = "removal_unclassified"
    <3>1. y \in unknown
      BY <1>5, <2>1
    <3> HIDE DEF unknown
    <3> QED BY <1>1, <1>2, <1>4, <3>1
  <2>2. CASE facts[y].time = "inside" /\ facts[y].class \in Deaths
    <3>1. y \in confirmed
      BY <1>5, <2>2
    <3>2. CASE y \in doubtful
      <4>1. y \in unknown
        BY <3>2
      <4> HIDE DEF unknown
      <4> QED BY <1>1, <1>2, <1>4, <4>1
    <3>3. CASE y \notin doubtful
      <4>1. y \in candidates
        BY <3>1, <3>3
      <4> HIDE DEF candidates
      <4>2. x <= y
        BY <1>3, <4>1
      <4> QED BY <1>4, <4>2
    <3> QED BY <3>2, <3>3
  <2>3. CASE facts[y].time = "uncontrolled"
    <3>1. y \in uncontrolled
      BY <1>5, <2>3 DEF Doubts
    <3> QED BY <1>1, <3>1
  <2> QED BY <1>5, <2>1, <2>2, <2>3 DEF Doubts
<1> HIDE DEF n
<1>6. Claims(facts, x)
  <2>1. facts[x].play /\ facts[x].time = "inside" /\ facts[x].class \in Deaths
    BY <1>4
  <2>2. facts[x].pred \notin {"unknown_predecessor", "initial_residue_doomed"}
    BY <1>4
  <2> HIDE DEF first
  <2> QED BY <1>4, <1>5, <2>1, <2>2 DEF Claims, n
<1> QED BY <1>1, <1>4, <1>6 DEF n
(* The zombie was killed, in the window, and before all other losses in it. *)
KilledFirst(z, a) ==
    \E i \in 1..Len(truth) :
        /\ LossAtIn(i, a, Len(frames) - 1) /\ truth[i].kill /\ truth[i].z = z
        /\ \A j \in 1..(i - 1) : ~LossAtIn(j, a, Len(frames) - 1)

(* And so was the one the report names. *)
LEMMA ClaimHolds ==
    ASSUME TypeInv, KillSound, NEW es, NEW residue, NEW w, NEW a, Reported(es, residue, w, a),
           NEW facts, facts = Knowledge(es, residue, w)[Len(es)].facts, NEW x, Claims(facts, x)
    PROVE  KilledFirst(facts[x].z, a)
<1> DEFINE N == Len(es)  past == Knowledge(es, residue, w)
<1>0. es \in Seq(Event) /\ Rises(es) /\ Cap = Members(es) /\ N \in Nat /\ N \in 0..N
  BY DEF Reported
<1>1. Learned(es, past, residue, w, N)
  BY <1>0, LearnedAll
<1>8. past = Knowledge(es, residue, w) /\ facts = past[N].facts
  OBVIOUS
<1> HIDE DEF past
<1>2. PICK n \in 1..N : FactAt(es, past, residue, w, facts[x], n)
  BY <1>1, <1>8 DEF Learned, Claims
<1>3. PICK i \in 1..Len(truth) : Of(es[n], truth[i]) /\ truth[i].kill
  BY <1>2, <1>8, ClaimIsKill DEF Claims
<1>4. /\ facts[x].z = es[n].z /\ facts[x].seq = es[n].seq /\ facts[x].play = es[n].play
      /\ facts[x].time = TimeScope(es[n].ver, w)
  BY <1>2 DEF FactAt, Classified
<1>5. truth[i].play /\ truth[i].z = facts[x].z /\ truth[i].seq = facts[x].seq
  BY <1>3, <1>4 DEF Of, Claims
<1>6. truth[i].at \in a..(Len(frames) - 1)
  <2>1. es[n] \in Cap
    BY <1>0 DEF Members
  <2>2. TimeScope(es[n].ver, w) = "inside"
    BY <1>4 DEF Claims
  <2> QED BY <1>3, <2>1, <2>2, LossInside
<1>7. ASSUME NEW j \in 1..(i - 1), LossAtIn(j, a, Len(frames) - 1) PROVE FALSE
  <2>1. j \in 1..Len(truth) /\ truth[j].seq < truth[i].seq
    <3>1. Len(truth) \in Nat
      BY DEF TypeInv, GameType
    <3>2. j \in 1..Len(truth)
      BY <3>1
    <3> QED BY <3>2 DEF KillSound, LossesCaptured
  <2>2. PICK y \in 1..Len(facts) : facts[y].play /\ facts[y].seq = truth[j].seq /\ Doubts(facts[y])
    BY <1>7, <2>1, LossDoubts
  <2>3. facts[x].seq <= facts[y].seq
    BY <2>2 DEF Claims
  <2> DEFINE p == truth[j].seq  q == truth[i].seq
  <2>4. p \in Nat /\ q \in Nat
    BY <2>1, LossParts DEF TypeInv
  <2>5. p < q /\ q <= p
    BY <1>5, <2>1, <2>2, <2>3
  <2> HIDE DEF p, q
  <2> QED BY <2>4, <2>5
<1> QED BY <1>3, <1>5, <1>6, <1>7 DEF LossAtIn, KilledFirst

(* The window the report is about, when the run reached its endpoint. *)
LEMMA WholeWindow ==
    ASSUME TypeInv, FullWindow(frames, Anchor, ending)
    PROVE  \E a \in 1..Len(frames) :
               /\ Anchor = {a} /\ End = {Len(frames)}
               /\ WindowFrames(frames, Anchor, End) # <<>>
               /\ WindowFrames(frames, Anchor, End)[1] = frames[a]
<1> DEFINE L == Len(frames)
           fits == {i \in 1..L : frames[i].ver = ending /\ \E a \in Anchor : i >= a}
<1>1. L \in Nat
  BY DEF TypeInv, RunType
<1>2. Anchor # {} /\ frames[L].ver = ending
  BY DEF FullWindow, Last
<1>3. PICK c \in Anchor : c \in 1..L
  BY <1>2 DEF Anchor, InitialAnchor
<1>4. L \in 1..L /\ L >= c
  BY <1>1, <1>3
<1>5. L \in fits /\ \A j \in fits : L >= j
  BY <1>1, <1>2, <1>3, <1>4
<1>6. L \in End
  <2>1. End = {i \in fits : \A j \in fits : i >= j}
    BY DEF End, WindowEnd
  <2> HIDE DEF fits, L
  <2> QED BY <1>5, <2>1
<1>7. PICK a, b \in 1..L :
          /\ Anchor = {a} /\ End = {b} /\ a <= b
          /\ Framing(WindowFrames(frames, Anchor, End), a, b)
  BY <1>6, WindowFramed
<1>8. End = {L}
  BY <1>6, <1>7
<1> DEFINE window == WindowFrames(frames, Anchor, End)
<1> HIDE DEF window
<1>9. /\ Len(window) = b - a + 1 /\ \A k \in 1..Len(window) : window[k] = frames[a + k - 1]
  BY <1>7 DEF Framing, window
<1>10. 1 \in 1..Len(window) /\ a + 1 - 1 = a /\ Len(window) > 0
  <2> HIDE DEF L
  <2> QED BY <1>1, <1>7, <1>9
<1>11. window # <<>> /\ window[1] = frames[a]
  <2>1. window # <<>>
    BY <1>10
  <2> QED BY <1>9, <1>10, <2>1
<1> QED BY <1>7, <1>8, <1>11 DEF window

(* A first kill that is claimed is real. *)
LEMMA KillHolds == TypeInv /\ WholeInv /\ SoundInv /\ KillInv => FirstKillReal
<1> DEFINE window == WindowFrames(frames, Anchor, End)
           c == [receiptValid |-> Validate(View(written, FALSE), FALSE) = "valid",
                 probes |-> block.enabled,
                 healthy |-> block.healthy,
                 fullWindow |-> FullWindow(frames, Anchor, ending),
                 residue |-> IF window = <<>> THEN <<>> ELSE Snapshot(window[1]),
                 window |-> IF Anchor = {} \/ End = {} THEN {}
                            ELSE {<<frames[a].ver, frames[b].ver>> : a \in Anchor, b \in End}]
<1>1. SUFFICES ASSUME TypeInv, WholeInv, SoundInv, KillInv, receipt # {}, NEW k \in FirstKill(written, c)
               PROVE  First # {} /\ \A i \in First : truth[i].kill /\ truth[i].z = k.z
  <2>1. ReportedKill(Validate(View(written, FALSE), FALSE), written, block, frames, initial, ending)
          = FirstKill(written, c)
    BY DEF ReportedKill, Anchor, End
  <2> HIDE DEF c
  <2> QED BY <2>1 DEF FirstKillReal
<1> DEFINE es == Events(written)
           past == Knowledge(es, c.residue, c.window)
           facts == past[Len(es)].facts
<1>2. phase = "closed" /\ faults = {}
  BY <1>1 DEF WholeInv, Receipted
<1>3. Sound /\ (block.enabled <=> probes) /\ spawnQueue = <<>> /\ probeQueue = <<>>
  BY <1>1, <1>2 DEF SoundInv, Announced
<1>4. es \in Seq(Event) /\ Rises(es) /\ Cap = Members(es) /\ \A i \in 1..Len(es) : es[i].seq \in Nat
  <2>1. Cap = Members(es)
    BY <1>3 DEF Cap, Members
  <2>2. es \in Seq(Event)
    BY <1>1, CapEvents
  <2>3. Rises(es)
    BY <1>3 DEF Sound, Ordered
  <2> HIDE DEF es
  <2>4. \A i \in 1..Len(es) : es[i] \in Event
    BY <2>2
  <2>5. \A i \in 1..Len(es) : es[i].seq \in Nat
    BY <2>4 DEF Event
  <2> QED BY <2>1, <2>2, <2>3, <2>5
<1>5. Facts(written, c.residue, c.window) = facts
  <2>1. InOrder(es) = es
    <3> HIDE DEF es
    <3> QED BY <1>4, RisingInOrder
  <2> HIDE DEF c
  <2> QED BY <2>1 DEF Facts
<1>6. /\ facts \in Seq(ClassifiedFact)
      /\ \A x, y \in 1..Len(facts) : x <= y => facts[x].seq <= facts[y].seq
  <2> HIDE DEF es, c
  <2>1. Len(es) \in 0..Len(es)
    BY <1>4
  <2>2. Learned(es, past, c.residue, c.window, Len(es))
    BY <1>4, <2>1, LearnedAll
  <2> QED BY <2>2 DEF Learned, Learning
<1>7. Prerequisites(c) /\ \E x \in 1..Len(facts) : k = facts[x] /\ Claims(facts, x)
  <2> HIDE DEF c, facts
  <2> QED BY <1>1, <1>5, <1>6, ClaimSays
<1>8. probes /\ FullWindow(frames, Anchor, ending)
  <2>1. c.probes = block.enabled /\ c.fullWindow = FullWindow(frames, Anchor, ending)
    OBVIOUS
  <2> HIDE DEF c
  <2> QED BY <1>3, <1>7, <2>1 DEF Prerequisites
<1>9. KillSound
  BY <1>1, <1>2, <1>8 DEF KillInv
<1>10. PICK a \in 1..Len(frames) :
           Anchor = {a} /\ End = {Len(frames)} /\ window # <<>> /\ window[1] = frames[a]
  BY <1>1, <1>8, WholeWindow
<1>11. c.residue = Snapshot(frames[a]) /\ c.window = {<<frames[a].ver, frames[Len(frames)].ver>>}
  <2> HIDE DEF window
  <2> QED BY <1>10
<1>12. \A i : InWindow(i) <=> LossAtIn(i, a, Len(frames) - 1)
  BY <1>10 DEF InWindow, LossAtIn
<1> HIDE DEF c, es, window
<1>13. Reported(es, c.residue, c.window, a)
  BY <1>2, <1>4, <1>11 DEF Reported
<1>14. PICK x \in 1..Len(facts) : k = facts[x] /\ Claims(facts, x)
  BY <1>7
<1>15. PICK i \in 1..Len(truth) :
           /\ LossAtIn(i, a, Len(frames) - 1) /\ truth[i].kill /\ truth[i].z = facts[x].z
           /\ \A j \in 1..(i - 1) : ~LossAtIn(j, a, Len(frames) - 1)
  <2>0. KilledFirst(facts[x].z, a) => \E i \in 1..Len(truth) :
           /\ LossAtIn(i, a, Len(frames) - 1) /\ truth[i].kill /\ truth[i].z = facts[x].z
           /\ \A j \in 1..(i - 1) : ~LossAtIn(j, a, Len(frames) - 1)
    BY DEF KilledFirst
  <2> DEFINE residue == c.residue  w == c.window
  <2>1. facts = Knowledge(es, residue, w)[Len(es)].facts /\ Reported(es, residue, w, a)
    BY <1>13
  <2>2. TypeInv /\ KillSound /\ Claims(facts, x)
    BY <1>1, <1>9, <1>14
  <2> HIDE DEF facts, residue, w
  <2>3. KilledFirst(facts[x].z, a)
    BY <2>1, <2>2, ClaimHolds
  <2> QED BY <2>0, <2>3
<1>16. i \in First
  <2>1. InWindow(i) /\ \A j \in 1..(i - 1) : ~InWindow(j)
    BY <1>12, <1>15
  <2> QED BY <2>1 DEF First
<1>17. \A j \in First : j = i
  <2>1. SUFFICES ASSUME NEW j \in First PROVE j = i
    OBVIOUS
  <2>2. j \in 1..Len(truth) /\ InWindow(j) /\ \A m \in 1..(j - 1) : ~InWindow(m)
    BY <2>1 DEF First
  <2>3. InWindow(i) /\ \A m \in 1..(i - 1) : ~InWindow(m)
    BY <1>12, <1>15
  <2>4. i \in Nat /\ j \in Nat /\ i >= 1 /\ j >= 1
    BY <2>2
  <2>5. ~(i < j)
    <3>1. i < j => i \in 1..(j - 1)
      BY <2>4
    <3> QED BY <2>2, <2>3, <3>1
  <2>6. ~(j < i)
    <3>1. j < i => j \in 1..(i - 1)
      BY <2>4
    <3> QED BY <2>2, <2>3, <3>1
  <2> QED BY <2>4, <2>5, <2>6
<1> QED BY <1>14, <1>15, <1>16, <1>17

(* A first kill that is proven is real: once the receipt is written, the zombie *)
(* the report names was killed in the window, and no zombie on the board was    *)
(* killed, or removed without a known cause, before it.                         *)
THEOREM KillProven == Spec => []FirstKillReal
<1>1. Init => TypeInv /\ WholeInv /\ SoundInv /\ KillInv
  BY TypeInit, WholeInit, SoundInit, KillInit
<1>2. TypeInv /\ WholeInv /\ SoundInv /\ KillInv /\ [CaptureStep]_vars
        => (TypeInv /\ WholeInv /\ SoundInv /\ KillInv)'
  BY TypeNext, WholeNext, SoundNext, KillNext
<1>3. TypeInv /\ WholeInv /\ SoundInv /\ KillInv => FirstKillReal
  BY KillHolds
<1> QED BY <1>1, <1>2, <1>3, PTL DEF Spec
=============================================================================
