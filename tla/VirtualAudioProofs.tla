--------------------------- MODULE VirtualAudioProofs ---------------------------
(***************************************************************************)
(* What VirtualAudio promises, for every soundscape and every bound.       *)
(* SilentInv: the two silent machines never hold a voice or a slot in use, *)
(* and agree on all the game reads.  WatchInv: in the observer's mixer     *)
(* each segment of a voice follows the one before it and none begins after *)
(* the tick.  SlotsInv: slots and voices of the feedback machine agree.    *)
(* MixInv: the events recorded so far, mixed again under either policy,    *)
(* account for every play, and are the observer's voices when they are     *)
(* admitted alike; and what was heard is where those voices' segments run. *)
(***************************************************************************)
EXTENDS VirtualAudio, FiniteSetTheorems, SequenceTheorems, WellFoundedInduction, TLAPS

\* A machine is a record of these fields.
Shaped(m) ==
    m \in [device : {m.device}, voices : {m.voices}, slots : {m.slots}, last : {m.last},
           draws : {m.draws}, told : {m.told}, said : {m.said}, watcher : {m.watcher}]

\* A machine that is given the slots and voices it has is the same machine.
LEMMA SameRecord ==
    ASSUME NEW m, Shaped(m)
    PROVE  /\ [m EXCEPT !.voices = m.voices, !.slots = m.slots] = m
           /\ [m EXCEPT !.slots = m.slots, !.voices = m.voices] = m
<1>1. [m EXCEPT !.voices = m.voices] = m /\ [m EXCEPT !.slots = m.slots] = m
  BY DEF Shaped
<1> QED BY <1>1

-----------------------------------------------------------------------------
(* The silent machines *)

FreeSlots(s) == [type \in s.types |-> [k \in 1..MaxFoleyInstances |-> FreeSlot]]

\* A machine without a device has no voice and every slot of it is free.
Silent(m, s) ==
    /\ Shaped(m)
    /\ m.device = "none"
    /\ m.voices = <<>>
    /\ m.slots = FreeSlots(s)

\* What the game reads of a machine.
SameGame(m, n) ==
    /\ m.draws = n.draws
    /\ m.last = n.last
    /\ m.told = n.told
    /\ m.said = n.said

SilentInv ==
    /\ Silent(plain, scape)
    /\ Silent(watched, scape)
    /\ SameGame(plain, watched)
    /\ asked[1] = asked[2]

\* A function on nothing is the empty sequence.
LEMMA NoVoices ==
    ASSUME NEW f, f = [i \in DOMAIN <<>> |-> f[i]]
    PROVE  f = <<>>
OBVIOUS

\* No slot of a silent machine is in use.
LEMMA SilentLive ==
    ASSUME NEW m, NEW s, Silent(m, s), NEW type \in s.types
    PROVE  Live(m, type) = {}
<1>1. \A k \in 1..MaxFoleyInstances : m.slots[type][k].refcount = 0
  BY DEF Silent, FreeSlots, FreeSlot
<1> QED BY <1>1 DEF Live

\* Nothing is let go by a silent machine.
LEMMA SilentLetGo ==
    ASSUME NEW m, NEW s, Silent(m, s), NEW t, NEW which
    PROVE  LetGo(m, t, which) = m
<1> DEFINE voices == [i \in DOMAIN m.voices |->
            IF \E type \in DOMAIN m.slots : \E k \in which[type] : m.slots[type][k].voice = i
            THEN ReleaseVoice(m.voices, t, i)[i] ELSE m.voices[i]]
           slots == [type \in DOMAIN m.slots |->
            [k \in 1..MaxFoleyInstances |->
                IF k \in which[type] THEN Emptied(m.slots[type][k]) ELSE m.slots[type][k]]]
<1>1. voices = <<>>
  BY NoVoices DEF Silent
<1>2. slots = m.slots
  <2>1. \A type \in s.types, k \in 1..MaxFoleyInstances : Emptied(m.slots[type][k]) = m.slots[type][k]
    <3>1. Emptied(FreeSlot) = FreeSlot
      <4>1. FreeSlot \in [refcount : {0}, paused : {FALSE}, start : {0}, voice : {0}, place : {0}]
        BY DEF FreeSlot, NoVoice
      <4>2. Emptied(FreeSlot) = [FreeSlot EXCEPT !.refcount = 0, !.voice = 0]
        BY DEF Emptied, NoVoice
      <4> HIDE DEF FreeSlot
      <4> QED BY <4>1, <4>2
    <3>2. \A type \in s.types, k \in 1..MaxFoleyInstances : m.slots[type][k] = FreeSlot
      BY DEF Silent, FreeSlots
    <3> QED BY <3>1, <3>2
  <2>2. \A type \in s.types : slots[type] = m.slots[type]
    <3> TAKE type \in s.types
    <3>1. slots[type] = [k \in 1..MaxFoleyInstances |-> m.slots[type][k]]
      BY <2>1 DEF Silent, FreeSlots
    <3> HIDE DEF slots
    <3>2. m.slots[type] = [k \in 1..MaxFoleyInstances |-> FreeSlot]
      BY DEF Silent, FreeSlots
    <3>3. m.slots[type] = [k \in 1..MaxFoleyInstances |-> m.slots[type][k]]
      BY <3>2
    <3> QED BY <3>1, <3>3
  <2> QED BY <2>2 DEF Silent, FreeSlots
<1>3. LetGo(m, t, which) = [m EXCEPT !.voices = voices, !.slots = slots]
  BY DEF LetGo
<1> HIDE DEF voices, slots
<1>4. Shaped(m) /\ voices = m.voices
  BY <1>1 DEF Silent
<1> QED BY <1>2, <1>3, <1>4, SameRecord

\* Nothing has finished on a silent machine.
LEMMA SilentRelease ==
    ASSUME NEW m, NEW s, Silent(m, s), NEW t
    PROVE  ReleaseFinished(m, t) = m
BY SilentLetGo DEF ReleaseFinished

\* What the game asks of the device when it plays, and the machine that asked.
IntentOf(m, s, t, type, pitch) ==
    [seq |-> m.told, tick |-> t, type |-> type,
     sound |-> s.sounds[type][Variation(m.draws, m.last[type], s, type)], rate |-> PitchRate[pitch]]

DrawnFor(m, s, t, type, pitch) ==
    [m EXCEPT !.draws = @ + 1, !.last[type] = Variation(m.draws, m.last[type], s, type),
              !.watcher = Intend(@, s, IntentOf(m, s, t, type, pitch))]

\* The fields of the machine that asked.
Asks(n, m, s, t, type, pitch) ==
    /\ Shaped(n)
    /\ n.device = m.device /\ n.voices = m.voices /\ n.slots = m.slots
    /\ n.draws = m.draws + 1
    /\ n.last = [m.last EXCEPT ![type] = Variation(m.draws, m.last[type], s, type)]
    /\ n.told = m.told /\ n.said = m.said
    /\ n.watcher = Intend(m.watcher, s, IntentOf(m, s, t, type, pitch))

\* The machine that asked has drawn, remembered its draw and told its observer.
LEMMA DrawnFields ==
    ASSUME NEW m, Shaped(m), NEW s, NEW t, NEW type, NEW pitch
    PROVE  Asks(DrawnFor(m, s, t, type, pitch), m, s, t, type, pitch)
BY DEF Shaped, DrawnFor, Asks

\* What a play does that finds a slot free.
LEMMA DrawnIs ==
    ASSUME NEW m, NEW s, NEW t, NEW type, NEW pitch
    PROVE  Drawn(m, s, t, type, pitch) =
              Allocated(DrawnFor(m, s, t, type, pitch), s, IntentOf(m, s, t, type, pitch), pitch,
                        FirstOf((1..MaxFoleyInstances) \ Live(m, type)))
BY DEF Drawn, DrawnFor, IntentOf

\* A play draws, tells its observer, and is answered that there is no instance.
LEMMA SilentPlay ==
    ASSUME NEW m, NEW s, Silent(m, s), NEW t, NEW type \in s.types, NEW pitch
    PROVE  PlayFoley(m, s, t, type, pitch) =
              Tell(DrawnFor(m, s, t, type, pitch), t, type, "no_instance")
<1>1. PlayFoley(m, s, t, type, pitch) = Admitted(m, s, t, type, pitch)
  BY SilentRelease DEF PlayFoley
<1>2. ~PlayedTooRecently(m, t, type) /\ Live(m, type) = {} /\ 1..MaxFoleyInstances # {}
  BY SilentLive, LimitsAssumption DEF PlayedTooRecently
<1>3. Admitted(m, s, t, type, pitch) = Drawn(m, s, t, type, pitch)
  BY <1>2 DEF Admitted
<1> DEFINE n == DrawnFor(m, s, t, type, pitch)
           intent == IntentOf(m, s, t, type, pitch)
<1>4. n.device = "none"
  <2>1. Asks(n, m, s, t, type, pitch)
    BY DrawnFields DEF Silent
  <2> HIDE DEF n
  <2> QED BY <2>1 DEF Silent, Asks
<1>5. intent.tick = t /\ intent.type = type
  BY DEF IntentOf
<1> HIDE DEF n, intent
<1>6. \A k : Allocated(n, s, intent, pitch, k) = Tell(n, t, type, "no_instance")
  BY <1>4, <1>5 DEF Allocated, Allocates
<1> QED BY <1>1, <1>3, <1>6, DrawnIs DEF n, intent

\* A stop reaches the observer only.
LEMMA SilentStop ==
    ASSUME NEW m, NEW s, Silent(m, s), NEW t, NEW type \in s.types
    PROVE  StopFoley(m, s, t, type) = [m EXCEPT !.watcher = WatchStop(@, t, type)]
<1> DEFINE n == [m EXCEPT !.watcher = WatchStop(@, t, type)]
<1>1. StopFoley(m, s, t, type) = Dropped(n, t, type)
  BY SilentRelease DEF StopFoley
<1>2. Silent(n, s)
  BY DEF Silent, Shaped
<1> HIDE DEF n
<1> QED BY <1>1, <1>2, SilentLive DEF Dropped, n

\* So does a pause, and it is recorded.
LEMMA SilentPause ==
    ASSUME NEW m, NEW s, Silent(m, s), NEW t, NEW entering
    PROVE  GamePause(m, s, t, entering) =
              Tell([m EXCEPT !.watcher = WatchPause(@, s, t, entering)], t, Nothing,
                   IF entering THEN "pause" ELSE "unpause")
<1> DEFINE n == [m EXCEPT !.watcher = WatchPause(@, s, t, entering)]
           which == Affected(n, s, entering)
           outcome == IF entering THEN "pause" ELSE "unpause"
<1>1. GamePause(m, s, t, entering) = Tell(Switched(n, t, entering, which), t, Nothing, outcome)
  BY SilentRelease DEF GamePause
<1>2. Silent(n, s)
  BY DEF Silent, Shaped
<1>3. \A type \in s.types : which[type] = {}
  BY <1>2, SilentLive DEF Affected, Muted
<1> HIDE DEF n, which, outcome
<1>4. Switched(n, t, entering, which) = n
  <2> DEFINE slots == [type \in DOMAIN n.slots |-> [k \in 1..MaxFoleyInstances |->
                IF k \notin which[type] THEN n.slots[type][k]
                ELSE IF entering THEN PausedSlot(n, n.slots[type][k], t)
                ELSE [n.slots[type][k] EXCEPT !.paused = FALSE]]]
             voices == [i \in DOMAIN n.voices |->
                IF SlotOf(n, which, i) = {} THEN n.voices[i]
                ELSE IF entering THEN StopVoice(n.voices, t, i)[i]
                ELSE LET slot == CHOOSE x \in SlotOf(n, which, i) : TRUE
                     IN  MovedVoice(RestartedVoice(n.voices[i], t), t, slot.place)]
  <2>1. voices = <<>>
    BY <1>2, NoVoices DEF Silent
  <2>2. \A type \in s.types : slots[type] = [k \in 1..MaxFoleyInstances |-> n.slots[type][k]]
    BY <1>2, <1>3 DEF Silent, FreeSlots
  <2>3. slots = [type \in s.types |-> slots[type]]
    BY <1>2 DEF Silent, FreeSlots
  <2>4. Switched(n, t, entering, which) = [n EXCEPT !.slots = slots, !.voices = voices]
    BY DEF Switched
  <2> HIDE DEF slots, voices
  <2>5. slots = n.slots
    <3>1. \A type \in s.types : n.slots[type] = [k \in 1..MaxFoleyInstances |-> n.slots[type][k]]
      BY <1>2 DEF Silent, FreeSlots
    <3>2. n.slots = [type \in s.types |-> n.slots[type]]
      BY <1>2 DEF Silent, FreeSlots
    <3> QED BY <2>2, <2>3, <3>1, <3>2
  <2>6. Shaped(n) /\ voices = n.voices
    BY <1>2, <2>1 DEF Silent
  <2> QED BY <2>4, <2>5, <2>6, SameRecord
<1> QED BY <1>1, <1>4 DEF n, outcome

\* A silent machine has no paused instance to cancel.
LEMMA SilentCancel ==
    ASSUME NEW m, NEW s, Silent(m, s), NEW t
    PROVE  CancelPaused(m, t) = m
BY SilentLetGo, SilentRelease DEF CancelPaused

\* A silent machine plays no type.
LEMMA SilentAsked ==
    ASSUME NEW m, NEW s, Silent(m, s), NEW t, NEW type \in s.types
    PROVE  Asked(m, t) = m /\ FoleyPlaying(m, t, type) = FALSE
BY SilentRelease, SilentLive DEF Asked, FoleyPlaying

\* The initial machines are silent.
LEMMA SilentInit == Init => SilentInv
<1> SUFFICES ASSUME Init PROVE SilentInv
  OBVIOUS
<1>1. \A w : /\ Silent(NewMachine("none", scape, w), scape)
             /\ SameGame(NewMachine("none", scape, w), NewMachine("none", scape, "off"))
  BY DEF Silent, Shaped, NewMachine, FreeSlots, SameGame
<1> QED BY <1>1 DEF Init, SilentInv, SameGame

\* What the observer hears is its own.
LEMMA SilentWatch ==
    ASSUME NEW m, NEW s, Silent(m, s), NEW w
    PROVE  Silent([m EXCEPT !.watcher = w], s) /\ SameGame([m EXCEPT !.watcher = w], m)
<1> DEFINE n == [m EXCEPT !.watcher = w]
<1>1. /\ Shaped(n) /\ n.device = m.device /\ n.voices = m.voices /\ n.slots = m.slots
      /\ n.draws = m.draws /\ n.last = m.last /\ n.told = m.told /\ n.said = m.said
  BY DEF Silent, Shaped
<1> HIDE DEF n
<1>2. Silent(n, s) /\ SameGame(n, m)
  BY <1>1 DEF Silent, SameGame
<1> QED BY <1>2 DEF n

\* The fields of a machine that was told.
LEMMA ToldFields ==
    ASSUME NEW m, Shaped(m), NEW t, NEW type, NEW outcome, NEW n, n = Tell(m, t, type, outcome)
    PROVE  /\ Shaped(n)
           /\ n.device = m.device /\ n.voices = m.voices /\ n.slots = m.slots
           /\ n.last = m.last /\ n.draws = m.draws /\ n.watcher = m.watcher
           /\ n.told = m.told + 1
BY DEF Shaped, Tell

\* What a machine was told last.
LEMMA ToldSaid ==
    ASSUME NEW m, Shaped(m), NEW t, NEW type, NEW outcome
    PROVE  Tell(m, t, type, outcome).said = [tick |-> t, type |-> type, outcome |-> outcome]
BY DEF Shaped, Tell

\* Two machines that are the same to the game are told the same.
LEMMA SameTold ==
    ASSUME NEW m, NEW n, NEW s, Silent(m, s), Silent(n, s), SameGame(m, n), NEW t, NEW type, NEW outcome
    PROVE  /\ Silent(Tell(m, t, type, outcome), s)
           /\ SameGame(Tell(m, t, type, outcome), Tell(n, t, type, outcome))
<1>1. Shaped(m) /\ Shaped(n)
  BY DEF Silent
<1> DEFINE a == Tell(m, t, type, outcome)
           b == Tell(n, t, type, outcome)
<1>2. /\ Shaped(a) /\ a.device = m.device /\ a.voices = m.voices /\ a.slots = m.slots
      /\ a.last = m.last /\ a.draws = m.draws /\ a.told = m.told + 1
  BY <1>1, ToldFields
<1>3. /\ b.last = n.last /\ b.draws = n.draws /\ b.told = n.told + 1
  BY <1>1, ToldFields
<1> DEFINE r == [tick |-> t, type |-> type, outcome |-> outcome]
<1>4. a.said = r
  BY <1>1, ToldSaid
<1>5. b.said = r
  BY <1>1, ToldSaid
<1> HIDE DEF a, b, r
<1>6. Silent(a, s) /\ SameGame(a, b)
  BY <1>2, <1>3, <1>4, <1>5 DEF Silent, SameGame
<1> QED BY <1>6 DEF a, b

\* A play leaves the two machines silent and draws the same variation in both.
LEMMA SamePlay ==
    ASSUME NEW m, NEW n, NEW s, Silent(m, s), Silent(n, s), SameGame(m, n),
           NEW t, NEW type \in s.types, NEW pitch
    PROVE  /\ Silent(PlayFoley(m, s, t, type, pitch), s)
           /\ SameGame(PlayFoley(m, s, t, type, pitch), PlayFoley(n, s, t, type, pitch))
<1> DEFINE a == DrawnFor(m, s, t, type, pitch)
           b == DrawnFor(n, s, t, type, pitch)
<1>1. /\ PlayFoley(m, s, t, type, pitch) = Tell(a, t, type, "no_instance")
      /\ PlayFoley(n, s, t, type, pitch) = Tell(b, t, type, "no_instance")
  BY SilentPlay
<1>2. Asks(a, m, s, t, type, pitch) /\ Asks(b, n, s, t, type, pitch)
  BY DrawnFields DEF Silent
<1> HIDE DEF a, b
<1>3. Silent(a, s) /\ Silent(b, s)
  BY <1>2 DEF Silent, Asks
<1>4. SameGame(a, b)
  BY <1>2 DEF SameGame, Asks
<1> QED BY <1>1, <1>3, <1>4, SameTold

\* A pause is the same to the game with and without the observer.
LEMMA SamePause ==
    ASSUME NEW m, NEW n, NEW s, Silent(m, s), Silent(n, s), SameGame(m, n), NEW t, NEW entering
    PROVE  /\ Silent(GamePause(m, s, t, entering), s)
           /\ SameGame(GamePause(m, s, t, entering), GamePause(n, s, t, entering))
<1> DEFINE a == [m EXCEPT !.watcher = WatchPause(@, s, t, entering)]
           b == [n EXCEPT !.watcher = WatchPause(@, s, t, entering)]
           outcome == IF entering THEN "pause" ELSE "unpause"
<1>1. /\ GamePause(m, s, t, entering) = Tell(a, t, Nothing, outcome)
      /\ GamePause(n, s, t, entering) = Tell(b, t, Nothing, outcome)
  BY SilentPause
<1>2. Silent(a, s) /\ Silent(b, s)
  BY SilentWatch
<1>3. SameGame(a, m) /\ SameGame(b, n)
  BY SilentWatch
<1>4. SameGame(a, b)
  BY <1>3 DEF SameGame
<1> HIDE DEF a, b, outcome
<1> QED BY <1>1, <1>2, <1>4, SameTold

\* So is a stop.
LEMMA SameStop ==
    ASSUME NEW m, NEW n, NEW s, Silent(m, s), Silent(n, s), SameGame(m, n), NEW t, NEW type \in s.types
    PROVE  /\ Silent(StopFoley(m, s, t, type), s)
           /\ SameGame(StopFoley(m, s, t, type), StopFoley(n, s, t, type))
<1> DEFINE a == [m EXCEPT !.watcher = WatchStop(@, t, type)]
           b == [n EXCEPT !.watcher = WatchStop(@, t, type)]
<1>1. StopFoley(m, s, t, type) = a /\ StopFoley(n, s, t, type) = b
  BY SilentStop
<1>2. Silent(a, s) /\ SameGame(a, m) /\ SameGame(b, n)
  BY SilentWatch
<1> HIDE DEF a, b
<1> QED BY <1>1, <1>2 DEF SameGame

\* Each operation keeps the two machines silent and the same to the game.
LEMMA SilentNext == ASSUME SilentInv, [Next]_vars PROVE SilentInv'
<1> USE DEF SilentInv
<1>1. CASE Play
  <2>1. PICK type \in scape.types, pitch \in DOMAIN PitchRate :
           Acted(LAMBDA m : PlayFoley(m, scape, tick, type, pitch))
    BY <1>1 DEF Play
  <2>2. /\ plain' = PlayFoley(plain, scape, tick, type, pitch)
        /\ watched' = PlayFoley(watched, scape, tick, type, pitch)
        /\ scape' = scape
        /\ asked' = asked
    BY <1>1, <2>1 DEF Acted, Play
  <2>3. SameGame(watched, plain)
    BY DEF SameGame
  <2>4. /\ Silent(PlayFoley(plain, scape, tick, type, pitch), scape)
        /\ Silent(PlayFoley(watched, scape, tick, type, pitch), scape)
        /\ SameGame(PlayFoley(plain, scape, tick, type, pitch), PlayFoley(watched, scape, tick, type, pitch))
    BY <2>3, SamePlay
  <2> QED BY <2>2, <2>4
<1>2. CASE Stop
  <2>1. PICK type \in scape.types : Acted(LAMBDA m : StopFoley(m, scape, tick, type))
    BY <1>2 DEF Stop
  <2>2. /\ plain' = StopFoley(plain, scape, tick, type)
        /\ watched' = StopFoley(watched, scape, tick, type)
        /\ scape' = scape
        /\ asked' = asked
    BY <1>2, <2>1 DEF Acted, Stop
  <2>3. SameGame(watched, plain)
    BY DEF SameGame
  <2>4. /\ Silent(StopFoley(plain, scape, tick, type), scape)
        /\ Silent(StopFoley(watched, scape, tick, type), scape)
        /\ SameGame(StopFoley(plain, scape, tick, type), StopFoley(watched, scape, tick, type))
    BY <2>3, SameStop
  <2> QED BY <2>2, <2>4
<1>3. CASE Pause
  <2>1. PICK entering \in BOOLEAN : Acted(LAMBDA m : GamePause(m, scape, tick, entering))
    BY <1>3 DEF Pause
  <2>2. /\ plain' = GamePause(plain, scape, tick, entering)
        /\ watched' = GamePause(watched, scape, tick, entering)
        /\ scape' = scape
        /\ asked' = asked
    BY <1>3, <2>1 DEF Acted, Pause
  <2>3. SameGame(watched, plain)
    BY DEF SameGame
  <2>4. /\ Silent(GamePause(plain, scape, tick, entering), scape)
        /\ Silent(GamePause(watched, scape, tick, entering), scape)
        /\ SameGame(GamePause(plain, scape, tick, entering), GamePause(watched, scape, tick, entering))
    BY <2>3, SamePause
  <2> QED BY <2>2, <2>4
<1>4. CASE Cancel
  <2>1. /\ plain' = CancelPaused(plain, tick)
        /\ watched' = CancelPaused(watched, tick)
        /\ scape' = scape
        /\ asked' = asked
    BY <1>4 DEF Acted, Cancel
  <2> QED BY <2>1, SilentCancel
<1>5. CASE Query
  <2>1. PICK type \in scape.types :
          /\ Acted(LAMBDA m : Asked(m, tick))
          /\ asked' = [k \in 1..3 |-> FoleyPlaying(machines[k], tick, type)]
    BY <1>5 DEF Query
  <2>2. /\ plain' = Asked(plain, tick)
        /\ watched' = Asked(watched, tick)
        /\ scape' = scape
    BY <2>1 DEF Acted
  <2>3. /\ asked'[1] = FoleyPlaying(plain, tick, type)
        /\ asked'[2] = FoleyPlaying(watched, tick, type)
    BY <2>1 DEF machines
  <2>4. plain' = plain /\ watched' = watched /\ asked'[1] = asked'[2]
    BY <2>2, <2>3, SilentAsked
  <2> QED BY <2>2, <2>4
<1>6. CASE EndTick \/ Render \/ UNCHANGED vars
  <2>1. UNCHANGED <<plain, watched, scape, asked>>
    BY <1>6 DEF EndTick, Render, vars
  <2> QED BY <2>1
<1> QED BY <1>1, <1>2, <1>3, <1>4, <1>5, <1>6 DEF Next

\* What the observer hears never reaches the game: with and without the observer the
\* frames, the outcomes, the draws and the answers are the same (compare_traces).
THEOREM ObservationHarmless == Spec => []ObserveOnly
<1>1. SilentInv => ObserveOnly
  BY DEF SilentInv, Silent, SameGame, ObserveOnly, Frame
<1> QED BY <1>1, SilentInit, SilentNext, PTL DEF Spec

-----------------------------------------------------------------------------
(* Segments and voices *)

Rates == (Nat \ {0}) \X (Nat \ {0})

Segments == [start : Nat, offset : Int, rate : Rates, end : Nat \union {Running}]

SegSeqs == Seq(Segments) \ {<<>>}

VoicesOf(s) ==
    [type : s.types, sound : DOMAIN s.duration, duration : Nat \ {0}, loop : BOOLEAN,
     segs : SegSeqs, stopped : BOOLEAN, paused : BOOLEAN, released : BOOLEAN, place : Int]

\* The last segment of a voice is one of its segments.
LEMMA LastSegment ==
    ASSUME NEW q \in SegSeqs
    PROVE  /\ Len(q) \in Nat \ {0}
           /\ Last(q) = q[Len(q)]
           /\ \A n \in 1..Len(q) : q[n] \in Segments
BY DEF SegSeqs, Last

\* A cut ends the last segment and leaves the others.
LEMMA CutSegments ==
    ASSUME NEW q \in SegSeqs, NEW t \in Nat
    PROVE  LET c == [q EXCEPT ![Len(q)].end = t]
           IN  /\ c \in SegSeqs
               /\ Len(c) = Len(q)
               /\ \A n \in 1..(Len(q) - 1) : c[n] = q[n]
               /\ c[Len(q)] = [q[Len(q)] EXCEPT !.end = t]
<1> DEFINE e == [q[Len(q)] EXCEPT !.end = t]
           c == [q EXCEPT ![Len(q)] = e]
<1>1. e \in Segments
  BY LastSegment DEF Segments
<1> HIDE DEF e
<1>2. /\ c \in Seq(Segments) /\ Len(c) = Len(q) /\ c[Len(q)] = e
      /\ \A n \in 1..(Len(q) - 1) : c[n] = q[n]
  BY <1>1, LastSegment, ExceptSeq DEF SegSeqs
<1>3. c # <<>>
  BY <1>2, LastSegment
<1> QED BY <1>2, <1>3 DEF SegSeqs, e

\* A new segment is the last one.
LEMMA AppendSegment ==
    ASSUME NEW q \in SegSeqs, NEW x \in Segments
    PROVE  /\ Append(q, x) \in SegSeqs
           /\ Len(Append(q, x)) = Len(q) + 1
           /\ \A n \in 1..Len(q) : Append(q, x)[n] = q[n]
           /\ Append(q, x)[Len(q) + 1] = x
           /\ Last(Append(q, x)) = x
<1>1. q \in Seq(Segments) /\ Len(q) \in Nat
  BY LastSegment DEF SegSeqs
<1>2. /\ Append(q, x) \in Seq(Segments) /\ Len(Append(q, x)) = Len(q) + 1
      /\ \A n \in 1..Len(q) : Append(q, x)[n] = q[n]
      /\ Append(q, x)[Len(q) + 1] = x
  BY <1>1, AppendProperties
<1>3. Append(q, x) # <<>>
  BY <1>1, <1>2
<1> QED BY <1>2, <1>3 DEF SegSeqs, Last

\* What a write may not change of a voice: all but its segments and its marks.
SameSource(w, v) ==
    /\ w.type = v.type
    /\ w.sound = v.sound
    /\ w.duration = v.duration
    /\ w.loop = v.loop
    /\ w.released = v.released

\* The segments of v with the last one ended at t.
EndedAt(c, q, t) ==
    /\ c \in SegSeqs
    /\ Len(c) = Len(q)
    /\ \A n \in 1..(Len(q) - 1) : c[n] = q[n]
    /\ c[Len(q)] = [q[Len(q)] EXCEPT !.end = t]

\* The cut of a voice ends the segment that runs, unless it begins later.
LEMMA CutVoice ==
    ASSUME NEW s, NEW v \in VoicesOf(s), NEW t \in Nat
    PROVE  /\ Cut(v, t) \in VoicesOf(s)
           /\ SameSource(Cut(v, t), v)
           /\ Cut(v, t).stopped = v.stopped /\ Cut(v, t).paused = v.paused /\ Cut(v, t).place = v.place
           /\ IF Seg(v).end = Running /\ t >= Seg(v).start
              THEN EndedAt(Cut(v, t).segs, v.segs, t) ELSE Cut(v, t) = v
<1>1. CASE ~(Seg(v).end = Running /\ t >= Seg(v).start)
  BY <1>1 DEF Cut, SameSource
<1>2. CASE Seg(v).end = Running /\ t >= Seg(v).start
  <2> DEFINE c == [v.segs EXCEPT ![Len(v.segs)].end = t]
  <2>1. v.segs \in SegSeqs
    BY DEF VoicesOf
  <2>2. EndedAt(c, v.segs, t)
    BY <2>1, CutSegments DEF EndedAt
  <2>3. Cut(v, t) = [v EXCEPT !.segs = c]
    BY <1>2 DEF Cut
  <2> HIDE DEF c
  <2>4. c \in SegSeqs
    BY <2>2 DEF EndedAt
  <2>5. /\ Cut(v, t) \in VoicesOf(s) /\ Cut(v, t).segs = c /\ SameSource(Cut(v, t), v)
        /\ Cut(v, t).stopped = v.stopped /\ Cut(v, t).paused = v.paused /\ Cut(v, t).place = v.place
    BY <2>3, <2>4 DEF VoicesOf, SameSource
  <2> QED BY <1>2, <2>2, <2>5
<1> QED BY <1>1, <1>2

\* A continued voice is open and its last segment is the new one.
LEMMA ContinuedVoice ==
    ASSUME NEW s, NEW v \in VoicesOf(s), NEW x \in Segments, x.end = Running
    PROVE  /\ Continue(v, x) \in VoicesOf(s)
           /\ SameSource(Continue(v, x), v)
           /\ IsOpen(Continue(v, x))
           /\ Seg(Continue(v, x)) = x
           /\ ~Continue(v, x).paused
           /\ Continue(v, x).segs = Append(v.segs, x)
<1> DEFINE q == Append(v.segs, x)
<1>1. v.segs \in SegSeqs
  BY DEF VoicesOf
<1>2. q \in SegSeqs /\ Last(q) = x
  BY <1>1, AppendSegment
<1>3. Continue(v, x) = [v EXCEPT !.segs = q, !.stopped = FALSE, !.paused = FALSE]
  BY DEF Continue
<1> HIDE DEF q
<1>4. /\ Continue(v, x) \in VoicesOf(s) /\ SameSource(Continue(v, x), v)
      /\ Continue(v, x).segs = q /\ Continue(v, x).stopped = FALSE /\ Continue(v, x).paused = FALSE
  BY <1>2, <1>3 DEF VoicesOf, SameSource
<1> QED BY <1>2, <1>4 DEF IsOpen, Seg, q

\* The last segment of a voice.
LEMMA SegOf ==
    ASSUME NEW s, NEW v \in VoicesOf(s)
    PROVE  Seg(v) \in Segments /\ Seg(v) = v.segs[Len(v.segs)] /\ Len(v.segs) \in Nat \ {0}
<1>1. v.segs \in SegSeqs
  BY DEF VoicesOf
<1> QED BY <1>1, LastSegment DEF Seg

\* The cursor of a segment is a number of samples.
LEMMA CursorInt ==
    ASSUME NEW x \in Segments, NEW t \in Int
    PROVE  Cursor(x, t) \in Int
<1>1. x.rate[1] \in Nat \ {0} /\ x.rate[2] \in Nat \ {0} /\ x.offset \in Int /\ x.start \in Nat
  BY DEF Segments, Rates
<1>2. (t - x.start) * SamplesPerTick * x.rate[1] \in Int
  BY <1>1, SamplesAssumption
<1> HIDE DEF Segments
<1> QED BY <1>1, <1>2 DEF Cursor

-----------------------------------------------------------------------------
(* Arithmetic of the cursor *)

\* Division rounds down.
LEMMA DivBounds ==
    ASSUME NEW a \in Int, NEW b \in Nat \ {0}
    PROVE  /\ a \div b \in Int
           /\ b * (a \div b) <= a
           /\ a < b * (a \div b) + b
OBVIOUS

\* A quotient is below a bound exactly when its dividend is below the bound's multiple.
LEMMA DivLess ==
    ASSUME NEW a \in Int, NEW b \in Nat \ {0}, NEW c \in Int
    PROVE  (a \div b < c) <=> (a < b * c)
<1> DEFINE q == a \div b
<1>1. q \in Int /\ b * q <= a /\ a < b * q + b
  BY DivBounds
<1> HIDE DEF q
<1>2. ASSUME q < c PROVE a < b * c
  <2>1. q + 1 <= c
    BY <1>1, <1>2
  <2>2. b * (q + 1) <= b * c
    BY <1>1, <2>1
  <2>3. b * (q + 1) = b * q + b
    BY <1>1
  <2> QED BY <1>1, <2>2, <2>3
<1>3. ASSUME ~(q < c) PROVE ~(a < b * c)
  <2>1. b * c <= b * q
    BY <1>1, <1>3
  <2> QED BY <1>1, <2>1
<1> QED BY <1>2, <1>3 DEF q

\* CeilDiv rounds up.
LEMMA CeilGreater ==
    ASSUME NEW a \in Int, NEW b \in Nat \ {0}, NEW c \in Int
    PROVE  CeilDiv(a, b) \in Int /\ ((c < CeilDiv(a, b)) <=> (b * c < a))
<1> DEFINE q == (-a) \div b
<1>1. q \in Int /\ b * q <= -a /\ -a < b * q + b
  BY DivBounds
<1>2. CeilDiv(a, b) = -q
  BY DEF CeilDiv
<1> HIDE DEF q
<1>3. ASSUME c < -q PROVE b * c < a
  <2>1. c + 1 <= -q
    BY <1>1, <1>3
  <2>2. b * (c + 1) <= b * (-q)
    BY <1>1, <2>1
  <2>3. b * (c + 1) = b * c + b /\ b * (-q) = -(b * q)
    BY <1>1
  <2> QED BY <1>1, <2>2, <2>3
<1>4. ASSUME ~(c < -q) PROVE ~(b * c < a)
  <2>1. b * (-q) <= b * c
    BY <1>1, <1>4
  <2>2. b * (-q) = -(b * q)
    BY <1>1
  <2> QED BY <1>1, <2>1, <2>2
<1> QED BY <1>1, <1>2, <1>3, <1>4

\* A buffer that does not loop has ended when the cursor has passed its last sample.
LEMMA EndsWhenPassed ==
    ASSUME NEW s, NEW v \in VoicesOf(s), NEW x \in Segments, NEW t \in Nat, t >= x.start
    PROVE  /\ NaturalEnd(v, x) \in Int
           /\ (t < NaturalEnd(v, x)) <=> (Cursor(x, t) < v.duration)
<1> DEFINE p == x.rate[1]
           q == x.rate[2]
           o == x.offset
           d == v.duration
           h == t - x.start
           S == SamplesPerTick
<1>1. p \in Nat \ {0} /\ q \in Nat \ {0} /\ o \in Int /\ x.start \in Nat
  BY DEF Segments, Rates
<1>2. d \in Nat \ {0} /\ h \in Nat /\ S \in Nat \ {0}
  BY <1>1, SamplesAssumption DEF VoicesOf
<1>3. Cursor(x, t) = o + (h * S * p) \div q
  BY DEF Cursor
<1>4. NaturalEnd(v, x) = IF d - o <= 0 THEN x.start ELSE x.start + CeilDiv((d - o) * q, p * S)
  BY DEF NaturalEnd
<1>5. t = x.start + h
  BY <1>1
<1> HIDE DEF p, q, o, d, h, S
<1> DEFINE a == h * S * p
           r == d - o
           z == a \div q
<1>6. a \in Nat /\ r \in Int
  BY <1>1, <1>2
<1>7. p * S \in Nat \ {0} /\ a = (p * S) * h
  BY <1>1, <1>2
<1>8. z \in Int /\ (z < r <=> a < q * r)
  BY <1>1, <1>6, DivBounds, DivLess
<1>9. (Cursor(x, t) < d) <=> (a < q * r)
  <2> HIDE DEF a
  <2>1. Cursor(x, t) = o + z
    BY <1>3 DEF a
  <2> HIDE DEF z
  <2>2. (o + z < d) <=> (z < r)
    BY <1>1, <1>2, <1>8
  <2> QED BY <2>1, <2>2, <1>8
<1>10. CASE r <= 0
  <2>1. q * r <= 0
    BY <1>1, <1>6, <1>10
  <2>2. ~(a < q * r)
    <3> HIDE DEF a
    <3> DEFINE y == q * r
    <3>1. y \in Int /\ y <= 0
      BY <1>1, <1>6, <2>1
    <3> HIDE DEF y
    <3>2. ~(a < y)
      BY <3>1, <1>6
    <3> QED BY <3>2 DEF y
  <2>3. NaturalEnd(v, x) = x.start
    BY <1>4, <1>10
  <2>4. ~(t < x.start)
    BY <1>1
  <2>5. ~(Cursor(x, t) < d)
    BY <1>9, <2>2
  <2> QED BY <1>1, <2>3, <2>4, <2>5 DEF d
<1>11. CASE ~(r <= 0)
  <2> DEFINE u == r * q
             w == p * S
             e == CeilDiv(u, w)
  <2>1. u \in Int /\ u = q * r
    BY <1>1, <1>6
  <2>2. w \in Nat \ {0} /\ a = w * h
    BY <1>7
  <2>3. NaturalEnd(v, x) = x.start + e
    BY <1>4, <1>11
  <2> HIDE DEF u, w, a, r
  <2>4. e \in Int /\ ((h < e) <=> (w * h < u))
    BY <2>1, <2>2, <1>2, CeilGreater
  <2> HIDE DEF e
  <2>5. (t < x.start + e) <=> (h < e)
    BY <1>1, <1>2, <1>5, <2>4
  <2>6. (h < e) <=> (a < q * r)
    BY <2>1, <2>2, <2>4
  <2>7. x.start + e \in Int
    BY <1>1, <2>4
  <2>8. (Cursor(x, t) < d) <=> (t < x.start + e)
    BY <1>9, <2>5, <2>6
  <2> QED BY <2>3, <2>7, <2>8 DEF d
<1> QED BY <1>10, <1>11

\* The position of an open voice is what its cursor has reached.
LEMMA PositionReached ==
    ASSUME NEW s, NEW v \in VoicesOf(s), NEW t \in Nat, IsOpen(v), Seg(v).start <= t
    PROVE  /\ Position(v, t) \in Int
           /\ Position(v, t) = IF v.loop THEN Cursor(Seg(v), t) % v.duration
                               ELSE LeastOf(Cursor(Seg(v), t), v.duration)
<1> DEFINE x == Seg(v)
           c == Cursor(x, t)
<1>1. x \in Segments /\ x.start \in Nat /\ v.duration \in Nat \ {0} /\ v.loop \in BOOLEAN
  BY SegOf DEF VoicesOf, Segments
<1>2. c \in Int
  BY <1>1, CursorInt
<1>3. /\ NaturalEnd(v, x) \in Int
      /\ (t < NaturalEnd(v, x)) <=> (c < v.duration)
  BY <1>1, EndsWhenPassed
<1>4. Position(v, t) = IF v.loop THEN c % v.duration
                       ELSE IF t >= NaturalEnd(v, x) THEN v.duration ELSE LeastOf(c, v.duration)
  BY <1>1 DEF Position
<1> HIDE DEF x, c
<1>5. c % v.duration \in Int
  <2> DEFINE d == v.duration
  <2> HIDE DEF d
  <2> SUFFICES c % d \in Int
    BY DEF d
  <2> QED BY <1>1, <1>2 DEF d
<1>6. t >= NaturalEnd(v, x) => LeastOf(c, v.duration) = v.duration
  BY <1>1, <1>2, <1>3 DEF LeastOf
<1>7. LeastOf(c, v.duration) \in Int
  BY <1>1, <1>2 DEF LeastOf
<1> QED BY <1>1, <1>4, <1>5, <1>6, <1>7 DEF x, c

\* A position is a number of samples.
LEMMA PositionInt ==
    ASSUME NEW s, NEW v \in VoicesOf(s), NEW t \in Nat
    PROVE  Position(v, t) \in Int
<1>1. CASE ~IsOpen(v) \/ t < Seg(v).start
  BY <1>1 DEF Position
<1>2. CASE IsOpen(v) /\ ~(t < Seg(v).start)
  <2>1. Seg(v).start \in Nat
    BY SegOf DEF Segments
  <2> QED BY <1>2, <2>1, PositionReached
<1> QED BY <1>1, <1>2

-----------------------------------------------------------------------------
(* The voices the observer hears *)

\* The second segment begins where the first one stopped, or later.
Follows(v, x, y) ==
    /\ x.end # Running
    /\ x.end <= y.start
    /\ y.offset = ReachedBy(v, x)

Chained(v) == \A n \in 2..Len(v.segs) : Follows(v, v.segs[n - 1], v.segs[n])

\* A voice that lost no sample until tick t: a paused one knows where it is to go on.
Kept(v, t) ==
    /\ Chained(v)
    /\ Seg(v).start <= t
    /\ Seg(v).end # Running => Seg(v).end <= t
    /\ v.paused => Seg(v).end # Running /\ v.place = ReachedBy(v, Seg(v))

\* Ending the last segment breaks no chain.
LEMMA EndedChain ==
    ASSUME NEW s, NEW v \in VoicesOf(s), NEW w \in VoicesOf(s), NEW t \in Nat,
           SameSource(w, v), EndedAt(w.segs, v.segs, t), Chained(v)
    PROVE  Chained(w) /\ Seg(w) = [Seg(v) EXCEPT !.end = t]
<1>1. /\ v.segs \in SegSeqs /\ w.segs \in SegSeqs
      /\ Len(w.segs) = Len(v.segs) /\ Len(v.segs) \in Nat \ {0}
      /\ \A n \in 1..(Len(v.segs) - 1) : w.segs[n] = v.segs[n]
      /\ w.segs[Len(v.segs)] = [v.segs[Len(v.segs)] EXCEPT !.end = t]
  BY LastSegment DEF EndedAt, VoicesOf
<1>2. Seg(w) = [Seg(v) EXCEPT !.end = t]
  BY <1>1, SegOf
<1>3. \A x : ReachedBy(w, x) = ReachedBy(v, x)
  BY DEF SameSource, ReachedBy
<1>4. ASSUME NEW n \in 2..Len(w.segs) PROVE Follows(w, w.segs[n - 1], w.segs[n])
  <2>1. n - 1 \in 1..(Len(v.segs) - 1) /\ n \in 2..Len(v.segs) /\ n \in 1..Len(v.segs)
    BY <1>1, <1>4
  <2>2. w.segs[n - 1] = v.segs[n - 1]
    BY <1>1, <2>1
  <2>3. w.segs[n].start = v.segs[n].start /\ w.segs[n].offset = v.segs[n].offset
    <3>1. CASE n = Len(v.segs)
      <4>1. v.segs[n] \in Segments
        BY <1>1, <2>1, LastSegment
      <4>2. w.segs[n] = [v.segs[n] EXCEPT !.end = t]
        BY <1>1, <3>1
      <4> QED BY <4>1, <4>2 DEF Segments
    <3>2. CASE n # Len(v.segs)
      <4>1. n \in 1..(Len(v.segs) - 1)
        BY <1>1, <2>1, <3>2
      <4> QED BY <1>1, <4>1
    <3> QED BY <3>1, <3>2
  <2>4. Follows(v, v.segs[n - 1], v.segs[n])
    BY <2>1 DEF Chained
  <2> QED BY <1>3, <2>2, <2>3, <2>4 DEF Follows
<1> QED BY <1>2, <1>4 DEF Chained

\* A segment that was ended reached what it had reached.
LEMMA EndedReached ==
    ASSUME NEW s, NEW v \in VoicesOf(s), NEW x \in Segments, NEW t \in Nat
    PROVE  LET y == [x EXCEPT !.end = t]
           IN  /\ y.end = t /\ y.start = x.start /\ y.rate = x.rate /\ y.offset = x.offset
               /\ ReachedBy(v, y) = IF v.loop THEN Cursor(x, t) % v.duration
                                    ELSE LeastOf(Cursor(x, t), v.duration)
<1> DEFINE y == [x EXCEPT !.end = t]
<1>1. y.end = t /\ y.start = x.start /\ y.rate = x.rate /\ y.offset = x.offset
  BY DEF Segments
<1> HIDE DEF y
<1>2. Cursor(y, y.end) = Cursor(x, t)
  BY <1>1 DEF Cursor
<1>3. ReachedBy(v, y) = IF v.loop THEN Cursor(x, t) % v.duration
                        ELSE LeastOf(Cursor(x, t), v.duration)
  BY <1>2 DEF ReachedBy
<1> QED BY <1>1, <1>3 DEF y

\* An open voice that is cut.
LEMMA OpenCut ==
    ASSUME NEW s, NEW v \in VoicesOf(s), NEW t \in Nat, IsOpen(v), Kept(v, t)
    PROVE  LET c == Cut(v, t)
           IN  /\ c \in VoicesOf(s) /\ SameSource(c, v)
               /\ c.stopped = v.stopped /\ c.paused = v.paused /\ c.place = v.place
               /\ Chained(c)
               /\ Seg(c).start = Seg(v).start /\ Seg(c).end = t
               /\ ReachedBy(c, Seg(c)) = Position(v, t)
<1> DEFINE c == Cut(v, t)
<1>1. Seg(v) \in Segments /\ Seg(v).start \in Nat /\ Seg(v).end = Running /\ Seg(v).start <= t
  BY SegOf DEF IsOpen, Kept, Segments
<1>2. /\ c \in VoicesOf(s) /\ SameSource(c, v)
      /\ c.stopped = v.stopped /\ c.paused = v.paused /\ c.place = v.place
      /\ EndedAt(c.segs, v.segs, t)
  BY <1>1, CutVoice
<1> HIDE DEF c
<1>3. Chained(c) /\ Seg(c) = [Seg(v) EXCEPT !.end = t]
  BY <1>2, EndedChain DEF Kept
<1>4. /\ Seg(c).start = Seg(v).start /\ Seg(c).end = t
      /\ ReachedBy(v, Seg(c)) = Position(v, t)
  BY <1>1, <1>3, EndedReached, PositionReached
<1>5. ReachedBy(c, Seg(c)) = ReachedBy(v, Seg(c))
  BY <1>2 DEF SameSource, ReachedBy
<1> QED BY <1>2, <1>3, <1>4, <1>5 DEF c

\* Marks and places are no segments.
LEMMA MarkedVoice ==
    ASSUME NEW s, NEW v \in VoicesOf(s), NEW w,
           w \in {[v EXCEPT !.stopped = TRUE, !.paused = FALSE], [v EXCEPT !.stopped = TRUE, !.paused = TRUE]}
    PROVE  w \in VoicesOf(s) /\ SameSource(w, v) /\ w.segs = v.segs /\ w.place = v.place
<1>1. CASE w = [v EXCEPT !.stopped = TRUE, !.paused = FALSE]
  BY <1>1 DEF VoicesOf, SameSource
<1>2. CASE w = [v EXCEPT !.stopped = TRUE, !.paused = TRUE]
  BY <1>2 DEF VoicesOf, SameSource
<1> QED BY <1>1, <1>2

\* A place is noted in the voice and changes nothing else of it.
LEMMA PlacedVoice ==
    ASSUME NEW s, NEW v \in VoicesOf(s), NEW p \in Int
    PROVE  LET w == [v EXCEPT !.place = p]
           IN  /\ w \in VoicesOf(s) /\ SameSource(w, v)
               /\ w.segs = v.segs /\ w.stopped = v.stopped /\ w.paused = v.paused /\ w.place = p
BY DEF VoicesOf, SameSource

\* Two voices of one source with the same segments.
LEMMA SameSegments ==
    ASSUME NEW v, NEW w, SameSource(w, v), w.segs = v.segs
    PROVE  /\ Seg(w) = Seg(v)
           /\ Chained(v) => Chained(w)
           /\ \A x : ReachedBy(w, x) = ReachedBy(v, x)
<1>1. \A x : ReachedBy(w, x) = ReachedBy(v, x)
  BY DEF SameSource, ReachedBy
<1> QED BY <1>1 DEF Seg, Chained, Follows

\* A stop loses nothing: the voice plays no more.
LEMMA StoppedKept ==
    ASSUME NEW s, NEW v \in VoicesOf(s), NEW t \in Nat, IsOpen(v), Kept(v, t)
    PROVE  StoppedVoice(v, t) \in VoicesOf(s) /\ Kept(StoppedVoice(v, t), t)
<1> DEFINE c == Cut(v, t)
           w == [c EXCEPT !.stopped = TRUE, !.paused = FALSE]
<1>1. /\ c \in VoicesOf(s) /\ Chained(c) /\ Seg(c).start = Seg(v).start /\ Seg(c).end = t
  BY OpenCut
<1>2. StoppedVoice(v, t) = w
  BY DEF StoppedVoice
<1> HIDE DEF c
<1>3. w.paused = FALSE
  BY <1>1 DEF VoicesOf
<1>4. w = [c EXCEPT !.stopped = TRUE, !.paused = FALSE]
  OBVIOUS
<1> HIDE DEF w
<1>5. w \in VoicesOf(s) /\ SameSource(w, c) /\ w.segs = c.segs
  BY <1>1, <1>4, MarkedVoice
<1>6. Seg(w) = Seg(c) /\ Chained(w)
  BY <1>1, <1>5, SameSegments
<1>7. Seg(v).start <= t
  BY DEF Kept
<1>8. Kept(w, t)
  BY <1>1, <1>3, <1>6, <1>7 DEF Kept
<1> QED BY <1>2, <1>5, <1>8

\* A pause notes the place before it ends the segment.
LEMMA PausedKept ==
    ASSUME NEW s, NEW v \in VoicesOf(s), NEW t \in Nat, IsOpen(v), Kept(v, t)
    PROVE  PausedVoice(v, t) \in VoicesOf(s) /\ Kept(PausedVoice(v, t), t)
<1> DEFINE p == Position(v, t)
           u == [v EXCEPT !.place = p]
           c == Cut(u, t)
           w == [c EXCEPT !.stopped = TRUE, !.paused = TRUE]
<1>1. PausedVoice(v, t) = w
  BY DEF PausedVoice
<1>2. p \in Int
  BY PositionInt
<1> HIDE DEF p
<1>3. /\ u \in VoicesOf(s) /\ SameSource(u, v) /\ u.segs = v.segs
      /\ u.stopped = v.stopped /\ u.paused = v.paused /\ u.place = p
  BY <1>2, PlacedVoice
<1> HIDE DEF u
<1>4. Seg(u) = Seg(v) /\ Chained(u)
  BY <1>3, SameSegments DEF Kept
<1>5. IsOpen(u) /\ Kept(u, t)
  BY <1>3, <1>4 DEF IsOpen, Kept
<1>6. Position(u, t) = p
  BY <1>3, <1>4, <1>5 DEF p, Position, NaturalEnd, SameSource, IsOpen
<1>7. /\ c \in VoicesOf(s) /\ SameSource(c, u) /\ c.place = u.place
      /\ Chained(c) /\ Seg(c).start = Seg(u).start /\ Seg(c).end = t
      /\ ReachedBy(c, Seg(c)) = p
  BY <1>3, <1>5, <1>6, OpenCut
<1> HIDE DEF c
<1>8. w = [c EXCEPT !.stopped = TRUE, !.paused = TRUE]
  OBVIOUS
<1> HIDE DEF w
<1>9. w \in VoicesOf(s) /\ SameSource(w, c) /\ w.segs = c.segs /\ w.place = c.place
  BY <1>7, <1>8, MarkedVoice
<1>10. Seg(w) = Seg(c) /\ Chained(w) /\ ReachedBy(w, Seg(w)) = p
  BY <1>7, <1>9, SameSegments
<1>11. t # Running /\ Seg(v).start <= t
  BY DEF Running, Kept
<1>12. Kept(w, t)
  BY <1>3, <1>4, <1>7, <1>9, <1>10, <1>11 DEF Kept
<1> QED BY <1>1, <1>9, <1>12

\* A resumed voice goes on where it was paused.
LEMMA ResumedKept ==
    ASSUME NEW s, NEW v \in VoicesOf(s), NEW t \in Nat, v.paused, Kept(v, t)
    PROVE  ResumedVoice(v, t) \in VoicesOf(s) /\ Kept(ResumedVoice(v, t), t)
<1> DEFINE x == Segment(t, v.place, Seg(v).rate)
           w == Continue(v, x)
<1>1. /\ v.segs \in SegSeqs /\ v.place \in Int /\ Seg(v) \in Segments
      /\ Seg(v) = v.segs[Len(v.segs)] /\ Len(v.segs) \in Nat \ {0}
  BY SegOf DEF VoicesOf
<1>2. x \in Segments /\ x.start = t /\ x.offset = v.place /\ x.end = Running
  BY <1>1 DEF Segment, Segments
<1>3. ResumedVoice(v, t) = w
  BY DEF ResumedVoice
<1> HIDE DEF x
<1>4. /\ w \in VoicesOf(s) /\ SameSource(w, v) /\ Seg(w) = x /\ ~w.paused
      /\ w.segs = Append(v.segs, x)
  BY <1>2, ContinuedVoice
<1> HIDE DEF w
<1>5. /\ Len(w.segs) = Len(v.segs) + 1
      /\ \A n \in 1..Len(v.segs) : w.segs[n] = v.segs[n]
      /\ w.segs[Len(v.segs) + 1] = x
  BY <1>1, <1>2, <1>4, AppendSegment
<1>6. \A y : ReachedBy(w, y) = ReachedBy(v, y)
  BY <1>4 DEF SameSource, ReachedBy
<1>7. Follows(w, Seg(v), x)
  <2>1. /\ Seg(v).end # Running /\ v.place = ReachedBy(v, Seg(v)) /\ Seg(v).end <= t
    BY DEF Kept
  <2> QED BY <2>1, <1>2, <1>6 DEF Follows
<1>8. ASSUME NEW n \in 2..Len(w.segs) PROVE Follows(w, w.segs[n - 1], w.segs[n])
  <2>1. CASE n = Len(v.segs) + 1
    <3>1. n - 1 = Len(v.segs) /\ n - 1 \in 1..Len(v.segs)
      BY <1>1, <2>1
    <3> QED BY <1>1, <1>5, <1>7, <2>1, <3>1
  <2>2. CASE n # Len(v.segs) + 1
    <3>1. n \in 2..Len(v.segs) /\ n \in 1..Len(v.segs) /\ n - 1 \in 1..Len(v.segs)
      BY <1>1, <1>5, <1>8, <2>2
    <3>2. Follows(v, v.segs[n - 1], v.segs[n])
      BY <3>1 DEF Kept, Chained
    <3>3. w.segs[n - 1] = v.segs[n - 1] /\ w.segs[n] = v.segs[n]
      BY <1>5, <3>1
    <3> QED BY <1>6, <3>2, <3>3 DEF Follows
  <2> QED BY <2>1, <2>2
<1>9. Kept(w, t)
  BY <1>2, <1>4, <1>8 DEF Kept, Chained
<1> QED BY <1>3, <1>4, <1>9

-----------------------------------------------------------------------------
(* The observer's mixer *)

Mixer(voices, s, t) ==
    /\ voices \in Seq(VoicesOf(s))
    /\ \A i \in DOMAIN voices : Kept(voices[i], t)

ObserverInv(w, s, t) ==
    /\ w \in [admission : {w.admission}, voices : {w.voices}, events : {w.events}, dropped : {w.dropped}]
    /\ Mixer(w.voices, s, t)

\* A set of naturals has a first member.
LEMMA FirstMember ==
    ASSUME NEW S, S \subseteq Nat, S # {}
    PROVE  FirstOf(S) \in S
<1>1. PICK x \in S : \A y \in S : ~(<<y, x>> \in OpToRel(<, Nat))
  BY NatLessThanWellFounded, WFMin
<1>2. ASSUME NEW y \in S PROVE x <= y
  <2>1. x \in Nat /\ y \in Nat /\ ~(y < x)
    BY <1>1 DEF OpToRel
  <2> QED BY <2>1
<1> QED BY <1>2 DEF FirstOf

\* A function on the indices of a sequence is a sequence.
LEMMA SameIndices ==
    ASSUME NEW V, NEW q \in Seq(V), NEW f, f = [i \in DOMAIN q |-> f[i]],
           \A i \in DOMAIN q : f[i] \in V
    PROVE  f \in Seq(V) /\ DOMAIN f = DOMAIN q /\ Len(f) = Len(q)
<1>1. DOMAIN q = 1..Len(q) /\ Len(q) \in Nat
  OBVIOUS
<1>2. f \in [1..Len(q) -> V]
  BY <1>1
<1> QED BY <1>1, <1>2

\* The mixer after some of its voices were rewritten.
LEMMA RewrittenMixer ==
    ASSUME NEW s, NEW voices, NEW t, Mixer(voices, s, t),
           NEW f, f = [i \in DOMAIN voices |-> f[i]],
           \A i \in DOMAIN voices : f[i] = voices[i] \/ (f[i] \in VoicesOf(s) /\ Kept(f[i], t))
    PROVE  Mixer(f, s, t)
<1>1. \A i \in DOMAIN voices : f[i] \in VoicesOf(s) /\ Kept(f[i], t)
  BY DEF Mixer
<1>2. voices \in Seq(VoicesOf(s))
  BY DEF Mixer
<1>3. f \in Seq(VoicesOf(s)) /\ DOMAIN f = DOMAIN voices
  BY <1>1, <1>2, SameIndices
<1> QED BY <1>1, <1>3 DEF Mixer

\* Each voice of a mixer has its type and keeps its place.
LEMMA MixerVoice ==
    ASSUME NEW s, NEW voices, NEW t, Mixer(voices, s, t), NEW i \in DOMAIN voices
    PROVE  voices[i] \in VoicesOf(s) /\ Kept(voices[i], t)
BY DEF Mixer

\* A stop by type writes one voice only.
LEMMA StopTypeKept ==
    ASSUME NEW s, NEW voices, NEW t \in Nat, Mixer(voices, s, t), NEW type
    PROVE  Mixer(StopType(voices, t, type), s, t)
<1> DEFINE reached == Reached(voices, type)
           k == FirstOf(reached)
           f == [voices EXCEPT ![k] = StoppedVoice(@, t)]
<1>1. CASE reached = {}
  BY <1>1 DEF StopType
<1>2. CASE reached # {}
  <2>1. DOMAIN voices \subseteq Nat
    BY DEF Mixer
  <2>2. k \in DOMAIN voices /\ IsOpen(voices[k])
    <3>1. reached \subseteq Nat
      BY <2>1 DEF Reached
    <3> HIDE DEF reached
    <3>2. k \in reached
      BY <1>2, <3>1, FirstMember
    <3> QED BY <3>2 DEF reached, Reached
  <2> HIDE DEF k
  <2>3. StoppedVoice(voices[k], t) \in VoicesOf(s) /\ Kept(StoppedVoice(voices[k], t), t)
    BY <2>2, MixerVoice, StoppedKept
  <2>4. /\ f = [i \in DOMAIN voices |-> f[i]]
        /\ \A i \in DOMAIN voices : f[i] = IF i = k THEN StoppedVoice(voices[k], t) ELSE voices[i]
    BY <2>2
  <2>5. StopType(voices, t, type) = f
    BY <1>2 DEF StopType, k
  <2> HIDE DEF f
  <2>6. \A i \in DOMAIN voices : f[i] = voices[i] \/ (f[i] \in VoicesOf(s) /\ Kept(f[i], t))
    BY <2>3, <2>4
  <2>7. Mixer(f, s, t)
    BY <2>4, <2>6, RewrittenMixer
  <2> QED BY <2>5, <2>7
<1> QED BY <1>1, <1>2

\* A pause of some types, and its end, keep every place.
LEMMA PauseTypesKept ==
    ASSUME NEW s, NEW voices, NEW t \in Nat, Mixer(voices, s, t), NEW types
    PROVE  Mixer(PauseTypes(voices, t, types), s, t) /\ Mixer(ResumeTypes(voices, t, types), s, t)
<1> DEFINE f == PauseTypes(voices, t, types)
           g == ResumeTypes(voices, t, types)
<1>1. f = [i \in DOMAIN voices |-> f[i]] /\ g = [i \in DOMAIN voices |-> g[i]]
  BY DEF PauseTypes, ResumeTypes
<1>2. \A i \in DOMAIN voices :
         /\ f[i] = IF voices[i].type \in types /\ IsOpen(voices[i])
                   THEN PausedVoice(voices[i], t) ELSE voices[i]
         /\ g[i] = IF voices[i].type \in types /\ voices[i].paused /\ ~voices[i].released
                   THEN ResumedVoice(voices[i], t) ELSE voices[i]
  BY DEF PauseTypes, ResumeTypes
<1> HIDE DEF f, g
<1>3. ASSUME NEW i \in DOMAIN voices
      PROVE  /\ f[i] = voices[i] \/ (f[i] \in VoicesOf(s) /\ Kept(f[i], t))
             /\ g[i] = voices[i] \/ (g[i] \in VoicesOf(s) /\ Kept(g[i], t))
  <2>1. voices[i] \in VoicesOf(s) /\ Kept(voices[i], t)
    BY MixerVoice
  <2>2. f[i] = voices[i] \/ (f[i] \in VoicesOf(s) /\ Kept(f[i], t))
    BY <1>2, <2>1, PausedKept
  <2>3. g[i] = voices[i] \/ (g[i] \in VoicesOf(s) /\ Kept(g[i], t))
    BY <1>2, <2>1, ResumedKept
  <2> QED BY <2>2, <2>3
<1>4. Mixer(f, s, t)
  BY <1>1, <1>3, RewrittenMixer
<1>5. Mixer(g, s, t)
  BY <1>1, <1>3, RewrittenMixer
<1> QED BY <1>4, <1>5 DEF f, g

\* What the device or the observer is asked to play.
Intents(s, t) ==
    [seq : Int, tick : {t}, type : s.types, sound : DOMAIN s.duration, rate : Rates]

\* A new voice has one segment.
LEMMA VoicedKept ==
    ASSUME NEW s \in Soundscapes, NEW t \in Nat, NEW intent \in Intents(s, t)
    PROVE  /\ Voiced(s, intent) \in VoicesOf(s)
           /\ Kept(Voiced(s, intent), t)
           /\ Voiced(s, intent).type = intent.type
           /\ Voiced(s, intent).released = FALSE
           /\ IsOpen(Voiced(s, intent))
<1> DEFINE x == Segment(t, 0, intent.rate)
           d == s.duration[intent.sound]
           l == intent.type \in Flagged(s, "loop")
           v == [type |-> intent.type, sound |-> intent.sound, duration |-> d, loop |-> l,
                 segs |-> <<x>>, stopped |-> FALSE, paused |-> FALSE, released |-> FALSE, place |-> 0]
<1>1. /\ intent.tick = t /\ intent.type \in s.types /\ intent.sound \in DOMAIN s.duration
      /\ intent.rate \in Rates
  BY DEF Intents
<1>2. x \in Segments /\ x.start = t /\ x.end = Running
  BY <1>1 DEF Segment, Segments
<1>3. d \in Nat \ {0}
  BY <1>1, SoundscapesAssumption
<1>4. Voiced(s, intent) = v
  BY <1>1 DEF Voiced, NewVoice
<1> HIDE DEF x, d
<1>5. <<x>> \in SegSeqs /\ Len(<<x>>) = 1 /\ Last(<<x>>) = x
  BY <1>2 DEF SegSeqs, Last
<1>6. l \in BOOLEAN
  OBVIOUS
<1> HIDE DEF l
<1>7. /\ v \in VoicesOf(s) /\ v.segs = <<x>> /\ v.paused = FALSE /\ v.stopped = FALSE
      /\ v.type = intent.type /\ v.released = FALSE
  BY <1>1, <1>3, <1>5, <1>6 DEF VoicesOf
<1> HIDE DEF v
<1>8. Seg(v) = x
  BY <1>5, <1>7 DEF Seg
<1>9. Chained(v)
  BY <1>5, <1>7 DEF Chained
<1>10. Kept(v, t) /\ IsOpen(v)
  BY <1>2, <1>7, <1>8, <1>9 DEF Kept, IsOpen
<1> QED BY <1>4, <1>7, <1>10

\* A voice is added behind the others.
LEMMA AddedKept ==
    ASSUME NEW s, NEW voices, NEW t, Mixer(voices, s, t), NEW v \in VoicesOf(s), Kept(v, t)
    PROVE  Mixer(Append(voices, v), s, t)
<1>1. voices \in Seq(VoicesOf(s))
  BY DEF Mixer
<1>2. /\ Append(voices, v) \in Seq(VoicesOf(s))
      /\ Len(Append(voices, v)) = Len(voices) + 1
      /\ \A i \in 1..Len(voices) : Append(voices, v)[i] = voices[i]
      /\ Append(voices, v)[Len(voices) + 1] = v
  BY <1>1, AppendProperties
<1>3. ASSUME NEW i \in DOMAIN Append(voices, v) PROVE Kept(Append(voices, v)[i], t)
  <2>1. i \in 1..(Len(voices) + 1) /\ DOMAIN voices = 1..Len(voices) /\ Len(voices) \in Nat
    BY <1>1, <1>2
  <2>2. CASE i = Len(voices) + 1
    BY <1>2, <2>2
  <2>3. CASE i # Len(voices) + 1
    <3>1. i \in 1..Len(voices)
      BY <2>1, <2>3
    <3> QED BY <1>2, <2>1, <3>1 DEF Mixer
  <2> QED BY <2>2, <2>3
<1> QED BY <1>2, <1>3 DEF Mixer

\* What the observer's policy admits joins its mixer.
LEMMA IntendKept ==
    ASSUME NEW s \in Soundscapes, NEW t \in Nat, NEW w, ObserverInv(w, s, t), NEW intent \in Intents(s, t)
    PROVE  ObserverInv(Intend(w, s, intent), s, t)
<1> DEFINE e == Append(w.events, [kind |-> "play", intent |-> intent])
           q == Append(w.voices, Voiced(s, intent))
           u == [w EXCEPT !.events = e, !.voices = q]
           d == [w EXCEPT !.dropped = @ + 1]
<1>1. Intend(w, s, intent) \in {w, d, u}
  BY DEF Intend
<1>2. Mixer(q, s, t)
  BY VoicedKept, AddedKept DEF ObserverInv
<1> HIDE DEF e, q
<1>3. ObserverInv(u, s, t)
  <2>1. /\ u \in [admission : {u.admission}, voices : {u.voices}, events : {u.events}, dropped : {u.dropped}]
        /\ u.voices = q
    BY DEF ObserverInv
  <2> HIDE DEF u
  <2> QED BY <1>2, <2>1 DEF ObserverInv
<1>4. ObserverInv(d, s, t)
  <2>1. /\ d \in [admission : {d.admission}, voices : {d.voices}, events : {d.events}, dropped : {d.dropped}]
        /\ d.voices = w.voices
    BY DEF ObserverInv
  <2> HIDE DEF d
  <2> QED BY <2>1 DEF ObserverInv
<1> QED BY <1>1, <1>3, <1>4

\* The observer's mixer keeps its places when a type is stopped.
LEMMA WatchStopKept ==
    ASSUME NEW s, NEW t \in Nat, NEW w, ObserverInv(w, s, t), NEW type
    PROVE  ObserverInv(WatchStop(w, t, type), s, t)
<1> DEFINE e == Append(w.events, Other("stop", Len(w.events), t, type))
           q == StopType(w.voices, t, type)
           u == [w EXCEPT !.voices = q, !.events = e]
<1>1. WatchStop(w, t, type) \in {w, u}
  BY DEF WatchStop
<1>2. Mixer(q, s, t)
  BY StopTypeKept DEF ObserverInv
<1> HIDE DEF e, q
<1>3. ObserverInv(u, s, t)
  <2>1. /\ u \in [admission : {u.admission}, voices : {u.voices}, events : {u.events}, dropped : {u.dropped}]
        /\ u.voices = q
    BY DEF ObserverInv
  <2> HIDE DEF u
  <2> QED BY <1>2, <2>1 DEF ObserverInv
<1> QED BY <1>1, <1>3

\* And when the game is paused or goes on.
LEMMA WatchPauseKept ==
    ASSUME NEW s, NEW t \in Nat, NEW w, ObserverInv(w, s, t), NEW entering \in BOOLEAN
    PROVE  ObserverInv(WatchPause(w, s, t, entering), s, t)
<1> DEFINE muted == Flagged(s, "mute_on_pause")
           e == Append(w.events, Other(IF entering THEN "pause" ELSE "resume", Len(w.events), t, 0))
           q == IF entering THEN PauseTypes(w.voices, t, muted) ELSE ResumeTypes(w.voices, t, muted)
           u == [w EXCEPT !.voices = q, !.events = e]
<1>1. WatchPause(w, s, t, entering) \in {w, u}
  BY DEF WatchPause
<1>2. Mixer(q, s, t)
  BY PauseTypesKept DEF ObserverInv
<1> HIDE DEF e, q
<1>3. ObserverInv(u, s, t)
  <2>1. /\ u \in [admission : {u.admission}, voices : {u.voices}, events : {u.events}, dropped : {u.dropped}]
        /\ u.voices = q
    BY DEF ObserverInv
  <2> HIDE DEF u
  <2> QED BY <1>2, <2>1 DEF ObserverInv
<1> QED BY <1>1, <1>3

-----------------------------------------------------------------------------
(* No sample is lost *)

\* The last of the candidates: there is one, because a type has one to spare.
LEMMA LastCandidate ==
    ASSUME NEW s \in Soundscapes, NEW type \in s.types, NEW last
    PROVE  LET C == Candidates(last, s, type)
           IN  /\ C \subseteq 1..Len(s.sounds[type]) /\ IsFiniteSet(C)
               /\ \E g \in C : \A k \in C : k <= g
<1> DEFINE n == Len(s.sounds[type])
           C == Candidates(last, s, type)
<1>1. /\ n \in Nat /\ DOMAIN s.sounds[type] = 1..n
      /\ n >= IF type \in Flagged(s, "dont_repeat") THEN 2 ELSE 1
  BY SoundscapesAssumption
<1>2. \A k : k \in C <=> k \in 1..n /\ ~(type \in Flagged(s, "dont_repeat") /\ last = k)
  BY <1>1 DEF Candidates
<1> HIDE DEF n, C
<1>3. C \subseteq 1..n
  BY <1>2
<1>4. IsFiniteSet(C)
  BY <1>1, <1>3, FS_Interval, FS_Subset
<1>5. CASE n \in C
  <2>1. \A k \in C : k <= n
    BY <1>1, <1>3
  <2> QED BY <1>3, <1>4, <1>5, <2>1 DEF C, n
<1>6. CASE n \notin C
  <2>1. n \in 1..n
    BY <1>1
  <2>2. type \in Flagged(s, "dont_repeat") /\ last = n
    BY <1>2, <1>6, <2>1
  <2>3. n - 1 \in 1..n /\ n - 1 # n
    BY <1>1, <2>2
  <2>4. n - 1 \in C
    BY <1>2, <2>2, <2>3
  <2>5. \A k \in C : k <= n - 1
    BY <1>1, <1>3, <1>6
  <2> QED BY <1>3, <1>4, <2>4, <2>5 DEF C, n
<1> QED BY <1>5, <1>6

\* The variation that is drawn is one of the type's.
LEMMA VariationIn ==
    ASSUME NEW s \in Soundscapes, NEW type \in s.types, NEW last, NEW draws \in Nat
    PROVE  s.sounds[type][Variation(draws, last, s, type)] \in DOMAIN s.duration
<1> DEFINE n == Len(s.sounds[type])
           C == Candidates(last, s, type)
           r == Rand(draws, Cardinality(C))
           Before(k) == {j \in C : j < k}
           K == {k \in C : Cardinality(Before(k)) >= r}
<1>1. C \subseteq 1..n /\ IsFiniteSet(C) /\ \E g \in C : \A k \in C : k <= g
  BY LastCandidate
<1>2. s.sounds[type] \in Seq(DOMAIN s.duration) /\ n \in Nat
  BY SoundscapesAssumption
<1>3. Variation(draws, last, s, type) = FirstOf(K)
  BY DEF Variation
<1> HIDE DEF n, C
<1>4. PICK g \in C : \A k \in C : k <= g
  BY <1>1
<1>5. Before(g) = C \ {g}
  <2>1. g \in Int /\ C \subseteq Int
    BY <1>1, <1>2, <1>4
  <2>2. \A j \in C : j < g <=> j # g
    BY <1>4, <2>1
  <2> QED BY <2>2
<1>6. Cardinality(Before(g)) = Cardinality(C) - 1 /\ Cardinality(C) \in Nat \ {0}
  <2>1. Cardinality(C \ {g}) = Cardinality(C) - 1
    BY <1>1, <1>4, FS_RemoveElement
  <2>2. Cardinality(C) \in Nat /\ Cardinality(C) # 0
    BY <1>1, <1>4, FS_CardinalityType, FS_EmptySet
  <2> QED BY <1>5, <2>1, <2>2
<1>7. r \in 0..(Cardinality(C) - 1)
  <2> DEFINE c == Cardinality(C)
  <2>1. c \in Nat \ {0}
    BY <1>6
  <2> HIDE DEF c
  <2>2. (draws + 1) % c \in 0..(c - 1)
    BY <2>1
  <2> QED BY <2>2 DEF Rand, c
<1> HIDE DEF r, Before
<1>8. g \in K
  BY <1>4, <1>6, <1>7
<1>9. K \subseteq C /\ C \subseteq Nat
  BY <1>1, <1>2
<1>10. K # {}
  BY <1>8
<1> HIDE DEF K
<1>11. FirstOf(K) \in K
  BY <1>9, <1>10, FirstMember
<1>12. FirstOf(K) \in 1..n
  BY <1>1, <1>9, <1>11
<1> QED BY <1>2, <1>3, <1>12 DEF n

WatchInv ==
    /\ scape \in Soundscapes
    /\ tick \in Nat
    /\ watched.draws \in Nat
    /\ watched.told \in Nat
    /\ ObserverInv(watched.watcher, scape, tick)

\* What the device is asked for is one of the type's sounds, at one of the rates.
LEMMA IntentIn ==
    ASSUME NEW m, NEW s \in Soundscapes, m.draws \in Nat, m.told \in Nat,
           NEW t \in Nat, NEW type \in s.types, NEW pitch \in DOMAIN PitchRate
    PROVE  IntentOf(m, s, t, type, pitch) \in Intents(s, t)
<1> DEFINE sound == s.sounds[type][Variation(m.draws, m.last[type], s, type)]
<1>1. sound \in DOMAIN s.duration
  BY VariationIn
<1>2. PitchRate[pitch] \in Rates
  BY RatesAssumption DEF Rates
<1>3. IntentOf(m, s, t, type, pitch) =
        [seq |-> m.told, tick |-> t, type |-> type, sound |-> sound, rate |-> PitchRate[pitch]]
  BY DEF IntentOf
<1> HIDE DEF sound
<1> QED BY <1>1, <1>2, <1>3 DEF Intents

\* A later tick leaves the voices as they are.
LEMMA LaterKept ==
    ASSUME NEW s, NEW t \in Nat, NEW w, ObserverInv(w, s, t)
    PROVE  ObserverInv(w, s, t + 1)
<1>1. ASSUME NEW i \in DOMAIN w.voices PROVE Kept(w.voices[i], t + 1)
  <2>1. w.voices[i] \in VoicesOf(s) /\ Kept(w.voices[i], t)
    BY MixerVoice DEF ObserverInv
  <2>2. Seg(w.voices[i]).start \in Nat /\ Seg(w.voices[i]).end \in Nat \union {Running}
    BY <2>1, SegOf DEF Segments
  <2> QED BY <2>1, <2>2 DEF Kept, Running
<1> QED BY <1>1 DEF ObserverInv, Mixer

\* What the operations leave of the observed machine.
Observed(n, w, draws, told) ==
    /\ n.watcher = w
    /\ n.draws = draws
    /\ n.told = told

\* What a play does to a silent machine's observer.
LEMMA ObservedPlay ==
    ASSUME NEW m, NEW s, Silent(m, s), NEW t, NEW type \in s.types, NEW pitch
    PROVE  Observed(PlayFoley(m, s, t, type, pitch),
                    Intend(m.watcher, s, IntentOf(m, s, t, type, pitch)), m.draws + 1, m.told + 1)
<1> DEFINE a == DrawnFor(m, s, t, type, pitch)
           n == Tell(a, t, type, "no_instance")
<1>1. PlayFoley(m, s, t, type, pitch) = n
  BY SilentPlay
<1>2. Asks(a, m, s, t, type, pitch)
  BY DrawnFields DEF Silent
<1> HIDE DEF a
<1>3. Shaped(a)
  BY <1>2 DEF Asks
<1>4. n.watcher = a.watcher /\ n.draws = a.draws /\ n.told = a.told + 1
  BY <1>3, ToldFields
<1> HIDE DEF n
<1>5. Observed(n, Intend(m.watcher, s, IntentOf(m, s, t, type, pitch)), m.draws + 1, m.told + 1)
  BY <1>2, <1>4 DEF Asks, Observed
<1> QED BY <1>1, <1>5

\* What a pause does to it.
LEMMA ObservedPause ==
    ASSUME NEW m, NEW s, Silent(m, s), NEW t, NEW entering
    PROVE  Observed(GamePause(m, s, t, entering), WatchPause(m.watcher, s, t, entering), m.draws, m.told + 1)
<1> DEFINE w == WatchPause(m.watcher, s, t, entering)
           a == [m EXCEPT !.watcher = w]
           outcome == IF entering THEN "pause" ELSE "unpause"
           n == Tell(a, t, Nothing, outcome)
<1>1. GamePause(m, s, t, entering) = n
  BY SilentPause
<1> HIDE DEF w, outcome
<1>2. Shaped(a) /\ a.watcher = w /\ a.draws = m.draws /\ a.told = m.told
  BY DEF Silent, Shaped
<1> HIDE DEF a
<1>3. n.watcher = a.watcher /\ n.draws = a.draws /\ n.told = a.told + 1
  BY <1>2, ToldFields
<1> HIDE DEF n
<1>4. Observed(n, w, m.draws, m.told + 1)
  BY <1>2, <1>3 DEF Observed
<1> QED BY <1>1, <1>4 DEF w

\* What a stop does to it.
LEMMA ObservedStop ==
    ASSUME NEW m, NEW s, Silent(m, s), NEW t, NEW type \in s.types
    PROVE  Observed(StopFoley(m, s, t, type), WatchStop(m.watcher, t, type), m.draws, m.told)
<1> DEFINE w == WatchStop(m.watcher, t, type)
           a == [m EXCEPT !.watcher = w]
<1>1. StopFoley(m, s, t, type) = a
  BY SilentStop
<1> HIDE DEF w
<1>2. a.watcher = w /\ a.draws = m.draws /\ a.told = m.told
  BY DEF Silent, Shaped
<1> HIDE DEF a
<1>3. Observed(a, w, m.draws, m.told)
  BY <1>2 DEF Observed
<1> QED BY <1>1, <1>3 DEF w

\* At first the observer's mixer is empty.
LEMMA WatchInit == Init => WatchInv
<1> SUFFICES ASSUME Init PROVE WatchInv
  OBVIOUS
<1> DEFINE w == Watcher(admission)
<1>1. scape \in Soundscapes /\ tick = 0 /\ watched = NewMachine("none", scape, admission)
  BY DEF Init
<1>2. watched.draws = 0 /\ watched.told = 0 /\ watched.watcher = w
  BY <1>1 DEF NewMachine
<1>3. /\ w \in [admission : {w.admission}, voices : {w.voices}, events : {w.events}, dropped : {w.dropped}]
      /\ w.voices = <<>>
  BY DEF Watcher
<1> HIDE DEF w
<1>4. ObserverInv(w, scape, 0)
  BY <1>3 DEF ObserverInv, Mixer
<1> QED BY <1>1, <1>2, <1>4 DEF WatchInv

\* Every step keeps the places of the observer's mixer.
LEMMA WatchNext == ASSUME SilentInv, WatchInv, [Next]_vars PROVE WatchInv'
<1> DEFINE m == watched
<1>1. /\ Silent(m, scape) /\ scape \in Soundscapes /\ tick \in Nat /\ m.draws \in Nat /\ m.told \in Nat
      /\ ObserverInv(m.watcher, scape, tick)
  BY DEF SilentInv, WatchInv
<1>2. CASE Play
  <2>1. PICK type \in scape.types, pitch \in DOMAIN PitchRate :
           Acted(LAMBDA x : PlayFoley(x, scape, tick, type, pitch))
    BY <1>2 DEF Play
  <2>2. watched' = PlayFoley(m, scape, tick, type, pitch) /\ scape' = scape /\ tick' = tick
    BY <2>1 DEF Acted
  <2> DEFINE intent == IntentOf(m, scape, tick, type, pitch)
  <2>3. intent \in Intents(scape, tick)
    BY <1>1, IntentIn
  <2>4. Observed(watched', Intend(m.watcher, scape, intent), m.draws + 1, m.told + 1)
    BY <1>1, <2>2, ObservedPlay
  <2> HIDE DEF intent
  <2>5. ObserverInv(Intend(m.watcher, scape, intent), scape, tick)
    BY <1>1, <2>3, IntendKept
  <2> QED BY <1>1, <2>2, <2>4, <2>5 DEF WatchInv, Observed
<1>3. CASE Stop
  <2>1. PICK type \in scape.types : Acted(LAMBDA x : StopFoley(x, scape, tick, type))
    BY <1>3 DEF Stop
  <2>2. watched' = StopFoley(m, scape, tick, type) /\ scape' = scape /\ tick' = tick
    BY <2>1 DEF Acted
  <2>3. Observed(watched', WatchStop(m.watcher, tick, type), m.draws, m.told)
    BY <1>1, <2>2, ObservedStop
  <2>4. ObserverInv(WatchStop(m.watcher, tick, type), scape, tick)
    BY <1>1, WatchStopKept
  <2> QED BY <1>1, <2>2, <2>3, <2>4 DEF WatchInv, Observed
<1>4. CASE Pause
  <2>1. PICK entering \in BOOLEAN : Acted(LAMBDA x : GamePause(x, scape, tick, entering))
    BY <1>4 DEF Pause
  <2>2. watched' = GamePause(m, scape, tick, entering) /\ scape' = scape /\ tick' = tick
    BY <2>1 DEF Acted
  <2>3. Observed(watched', WatchPause(m.watcher, scape, tick, entering), m.draws, m.told + 1)
    BY <1>1, <2>2, ObservedPause
  <2>4. ObserverInv(WatchPause(m.watcher, scape, tick, entering), scape, tick)
    BY <1>1, WatchPauseKept
  <2> QED BY <1>1, <2>2, <2>3, <2>4 DEF WatchInv, Observed
<1>5. CASE Cancel \/ Query
  <2>1. /\ watched' = CancelPaused(m, tick) \/ watched' = Asked(m, tick)
        /\ scape' = scape /\ tick' = tick
    BY <1>5 DEF Cancel, Query, Acted
  <2>2. CancelPaused(m, tick) = m
    BY <1>1, SilentCancel
  <2>3. Asked(m, tick) = m
    BY <1>1, SilentRelease DEF Asked
  <2> QED BY <1>1, <2>1, <2>2, <2>3 DEF WatchInv
<1>6. CASE EndTick
  <2>1. watched' = watched /\ scape' = scape /\ tick' = tick + 1
    BY <1>6 DEF EndTick
  <2>2. ObserverInv(m.watcher, scape, tick + 1)
    BY <1>1, LaterKept
  <2> QED BY <1>1, <2>1, <2>2 DEF WatchInv
<1>7. CASE Render \/ UNCHANGED vars
  <2>1. UNCHANGED <<watched, scape, tick>>
    BY <1>7 DEF Render, vars
  <2> QED BY <2>1 DEF WatchInv
<1> QED BY <1>2, <1>3, <1>4, <1>5, <1>6, <1>7 DEF Next

\* In the observer's mixer no sample is lost or repeated over a pause, and a voice is
\* said to play exactly until its cursor has passed its last sample (TickMixer).
THEOREM PausesLoseNothing == Spec => []PlaceKept
<1>1. WatchInv => PlaceKept
  <2> SUFFICES ASSUME WatchInv, NEW i \in DOMAIN watched.watcher.voices
               PROVE  LET v == watched.watcher.voices[i]
                      IN  /\ \A n \in 2..Len(v.segs) :
                                /\ v.segs[n-1].end # Running
                                /\ v.segs[n-1].end <= v.segs[n].start
                                /\ v.segs[n].offset = ReachedBy(v, v.segs[n-1])
                          /\ IsOpen(v) /\ ~v.loop =>
                                (IsPlaying(v, tick) <=> Cursor(Seg(v), tick) < v.duration)
    BY DEF PlaceKept
  <2> DEFINE v == watched.watcher.voices[i]
  <2>1. v \in VoicesOf(scape) /\ Kept(v, tick) /\ tick \in Nat
    BY MixerVoice DEF WatchInv, ObserverInv
  <2> HIDE DEF v
  <2>2. Seg(v) \in Segments /\ Seg(v).start \in Nat /\ tick >= Seg(v).start
    BY <2>1, SegOf DEF Kept, Segments
  <2>3. (tick < NaturalEnd(v, Seg(v))) <=> (Cursor(Seg(v), tick) < v.duration)
    BY <2>1, <2>2, EndsWhenPassed
  <2>4. IsOpen(v) /\ ~v.loop => (IsPlaying(v, tick) <=> Cursor(Seg(v), tick) < v.duration)
    BY <2>2, <2>3 DEF IsPlaying
  <2>5. \A n \in 2..Len(v.segs) :
           /\ v.segs[n-1].end # Running
           /\ v.segs[n-1].end <= v.segs[n].start
           /\ v.segs[n].offset = ReachedBy(v, v.segs[n-1])
    BY <2>1 DEF Kept, Chained, Follows
  <2> QED BY <2>4, <2>5 DEF v
<1>2. SilentInv /\ WatchInv /\ [Next]_vars => SilentInv' /\ WatchInv'
  BY SilentNext, WatchNext
<1> QED BY <1>1, <1>2, SilentInit, WatchInit, PTL DEF Spec

-----------------------------------------------------------------------------
(* The machine that reads a mixer back: voices *)

\* A stopped voice is not open.
LEMMA StoppedTyped ==
    ASSUME NEW s, NEW v \in VoicesOf(s), NEW t \in Nat
    PROVE  /\ StoppedVoice(v, t) \in VoicesOf(s)
           /\ SameSource(StoppedVoice(v, t), v)
           /\ ~IsOpen(StoppedVoice(v, t))
<1> DEFINE c == Cut(v, t)
           w == [c EXCEPT !.stopped = TRUE, !.paused = FALSE]
<1>1. c \in VoicesOf(s) /\ SameSource(c, v)
  BY CutVoice
<1>2. StoppedVoice(v, t) = w
  BY DEF StoppedVoice
<1> HIDE DEF c
<1>3. w = [c EXCEPT !.stopped = TRUE, !.paused = FALSE] /\ w.stopped = TRUE
  BY <1>1 DEF VoicesOf
<1> HIDE DEF w
<1>4. w \in VoicesOf(s) /\ SameSource(w, c)
  BY <1>1, <1>3, MarkedVoice
<1> QED BY <1>1, <1>2, <1>3, <1>4 DEF SameSource, IsOpen

\* A released voice is not held.
LEMMA ReleasedTyped ==
    ASSUME NEW s, NEW voices \in Seq(VoicesOf(s)), NEW t \in Nat, NEW i \in DOMAIN voices
    PROVE  /\ ReleaseVoice(voices, t, i)[i] \in VoicesOf(s)
           /\ IsOpen(voices[i]) => ReleaseVoice(voices, t, i)[i].released = TRUE
           /\ ~IsOpen(voices[i]) => ReleaseVoice(voices, t, i)[i] = voices[i]
<1>1. voices[i] \in VoicesOf(s)
  OBVIOUS
<1>2. CASE ~IsOpen(voices[i])
  BY <1>1, <1>2 DEF ReleaseVoice
<1>3. CASE IsOpen(voices[i])
  <2> DEFINE c == StoppedVoice(voices[i], t)
             q == [voices EXCEPT ![i] = c]
             w == [c EXCEPT !.released = TRUE]
  <2>1. c \in VoicesOf(s) /\ SameSource(c, voices[i])
    BY <1>1, StoppedTyped
  <2>2. StopVoice(voices, t, i) = q
    BY <1>3 DEF StopVoice
  <2> HIDE DEF c
  <2>3. q[i] = c /\ DOMAIN q = DOMAIN voices
    OBVIOUS
  <2>4. ReleaseVoice(voices, t, i) = [q EXCEPT ![i].released = TRUE]
    BY <1>3, <2>2 DEF ReleaseVoice
  <2> HIDE DEF q
  <2>5. ReleaseVoice(voices, t, i)[i] = w
    BY <2>3, <2>4
  <2>6. w \in VoicesOf(s) /\ w.released = TRUE /\ w.type = c.type
    BY <2>1 DEF VoicesOf
  <2> QED BY <1>3, <2>1, <2>5, <2>6 DEF SameSource
<1> QED BY <1>2, <1>3

\* The rate a voice has.
LEMMA NewSegment ==
    ASSUME NEW t \in Nat, NEW o \in Int, NEW r \in Rates
    PROVE  Segment(t, o, r) \in Segments /\ Segment(t, o, r).end = Running
BY DEF Segment, Segments

\* A voice that was started again is open.
LEMMA RestartedTyped ==
    ASSUME NEW s, NEW v \in VoicesOf(s), NEW t \in Nat
    PROVE  /\ RestartedVoice(v, t) \in VoicesOf(s)
           /\ SameSource(RestartedVoice(v, t), v)
           /\ IsOpen(RestartedVoice(v, t))
<1> DEFINE c == Cut(v, t)
           x == Segment(t, 0, Seg(v).rate)
<1>1. c \in VoicesOf(s) /\ SameSource(c, v)
  BY CutVoice
<1>2. Seg(v).rate \in Rates
  BY SegOf DEF Segments
<1>3. x \in Segments /\ x.end = Running
  BY <1>2, NewSegment
<1>4. RestartedVoice(v, t) = Continue(c, x)
  BY DEF RestartedVoice
<1> HIDE DEF c, x
<1>5. Continue(c, x) \in VoicesOf(s) /\ SameSource(Continue(c, x), c) /\ IsOpen(Continue(c, x))
  BY <1>1, <1>3, ContinuedVoice
<1> QED BY <1>1, <1>4, <1>5 DEF SameSource

\* A voice whose cursor is moved stays open.
LEMMA MovedTyped ==
    ASSUME NEW s, NEW v \in VoicesOf(s), NEW t \in Nat, NEW o \in Int, IsOpen(v)
    PROVE  /\ MovedVoice(v, t, o) \in VoicesOf(s)
           /\ SameSource(MovedVoice(v, t, o), v)
           /\ IsOpen(MovedVoice(v, t, o))
<1> DEFINE c == Cut(v, t)
           x == Segment(t, o, Seg(v).rate)
<1>1. c \in VoicesOf(s) /\ SameSource(c, v)
  BY CutVoice
<1>2. Seg(v).rate \in Rates
  BY SegOf DEF Segments
<1>3. x \in Segments /\ x.end = Running
  BY <1>2, NewSegment
<1>4. MovedVoice(v, t, o) = Continue(c, x)
  BY DEF MovedVoice
<1> HIDE DEF c, x
<1>5. Continue(c, x) \in VoicesOf(s) /\ SameSource(Continue(c, x), c) /\ IsOpen(Continue(c, x))
  BY <1>1, <1>3, ContinuedVoice
<1> QED BY <1>1, <1>4, <1>5 DEF SameSource

\* A voice whose rate is set keeps its source.
LEMMA RetunedTyped ==
    ASSUME NEW s, NEW v \in VoicesOf(s), NEW t \in Nat, NEW r \in Rates
    PROVE  RetunedVoice(v, t, r) \in VoicesOf(s) /\ SameSource(RetunedVoice(v, t, r), v)
<1>1. CASE ~IsOpen(v)
  BY <1>1 DEF RetunedVoice, SameSource
<1>2. CASE IsOpen(v)
  <2> DEFINE c == Cut(v, t)
             x == Segment(t, Cursor(Seg(v), t), r)
  <2>1. c \in VoicesOf(s) /\ SameSource(c, v)
    BY CutVoice
  <2>2. Cursor(Seg(v), t) \in Int
    BY SegOf, CursorInt
  <2>3. x \in Segments /\ x.end = Running
    BY <2>2, NewSegment
  <2>4. RetunedVoice(v, t, r) = Continue(c, x)
    BY <1>2 DEF RetunedVoice
  <2> HIDE DEF c, x
  <2>5. Continue(c, x) \in VoicesOf(s) /\ SameSource(Continue(c, x), c)
    BY <2>1, <2>3, ContinuedVoice
  <2> QED BY <2>1, <2>4, <2>5 DEF SameSource
<1> QED BY <1>1, <1>2

\* A voice of the type that nobody has stopped, paused or released.
Opened(v, s, type) == v \in VoicesOf(s) /\ IsOpen(v) /\ v.type = type /\ v.released = FALSE

\* The instance that answers an intent is open.
LEMMA InstanceTyped ==
    ASSUME NEW s \in Soundscapes, NEW t \in Nat, NEW intent \in Intents(s, t), NEW m,
           NEW pitch \in DOMAIN PitchRate
    PROVE  Opened(Instance(m, s, intent, pitch), s, intent.type)
<1> DEFINE a == Voiced(s, intent)
           b == IF pitch = 1 THEN a ELSE RetunedVoice(a, t, PitchRate[pitch])
           c == IF intent.type \in Flagged(s, "uses_music_volume")
                THEN RetunedVoice(b, t, Seg(b).rate) ELSE b
           d == RestartedVoice(c, t)
<1>1. intent.tick = t
  BY DEF Intents
<1>2. Instance(m, s, intent, pitch) = d
  BY <1>1 DEF Instance
<1>3. a \in VoicesOf(s) /\ a.type = intent.type /\ a.released = FALSE
  BY VoicedKept
<1>4. PitchRate[pitch] \in Rates
  BY RatesAssumption DEF Rates
<1> HIDE DEF a
<1>5. b \in VoicesOf(s) /\ b.type = intent.type /\ b.released = FALSE
  BY <1>3, <1>4, RetunedTyped DEF SameSource
<1> HIDE DEF b
<1>6. Seg(b).rate \in Rates
  BY <1>5, SegOf DEF Segments
<1>7. c \in VoicesOf(s) /\ c.type = intent.type /\ c.released = FALSE
  BY <1>5, <1>6, RetunedTyped DEF SameSource
<1> HIDE DEF c
<1>8. d \in VoicesOf(s) /\ IsOpen(d) /\ d.type = intent.type /\ d.released = FALSE
  BY <1>7, RestartedTyped DEF SameSource
<1> QED BY <1>2, <1>8 DEF Opened

-----------------------------------------------------------------------------
(* The machine that reads a mixer back: slots *)

Slots == [refcount : Nat, paused : BOOLEAN, start : Int, voice : Nat, place : Int]

SlotTable(s) == [s.types -> [1..MaxFoleyInstances -> Slots]]

\* The slots of a type that are in use.
Used(slots, type) == {k \in 1..MaxFoleyInstances : slots[type][k].refcount > 0}

\* Slots and voices agree.
Holds(voices, slots, s) ==
    \A type \in s.types : \A k \in Used(slots, type) :
        LET i == slots[type][k].voice
        IN  /\ i \in DOMAIN voices
            /\ voices[i].released = FALSE
            /\ voices[i].type = type
            /\ slots[type][k].paused = ~IsOpen(voices[i])

Apart(slots, s) ==
    \A type \in s.types, u \in s.types :
        \A k \in Used(slots, type), l \in Used(slots, u) :
        slots[type][k].voice = slots[u][l].voice => type = u /\ k = l

Owned(voices, slots, s) ==
    \A i \in DOMAIN voices :
        voices[i].released = FALSE /\ IsOpen(voices[i]) =>
            \E type \in s.types : \E k \in Used(slots, type) : slots[type][k].voice = i

HeldOf(voices) == {i \in DOMAIN voices : voices[i].released = FALSE}

Agree(voices, slots, s) ==
    /\ voices \in Seq(VoicesOf(s))
    /\ slots \in SlotTable(s)
    /\ Holds(voices, slots, s)
    /\ Apart(slots, s)
    /\ Owned(voices, slots, s)
    /\ Cardinality(HeldOf(voices)) <= MaxManagerChannels

\* The voices held are finitely many.
LEMMA HeldFinite ==
    ASSUME NEW s, NEW voices \in Seq(VoicesOf(s))
    PROVE  IsFiniteSet(HeldOf(voices)) /\ HeldOf(voices) \subseteq 1..Len(voices) /\ Len(voices) \in Nat
<1>1. DOMAIN voices = 1..Len(voices) /\ Len(voices) \in Nat
  OBVIOUS
<1>2. HeldOf(voices) \subseteq 1..Len(voices)
  BY <1>1 DEF HeldOf
<1>3. IsFiniteSet(1..Len(voices))
  BY <1>1, FS_Interval
<1> QED BY <1>1, <1>2, <1>3, FS_Subset

\* The slots in use of x are slots of slots, with the voices they had, and agree with v.
Keeps(v, x, slots, s) ==
    \A type \in s.types : \A k \in Used(x, type) :
        /\ k \in Used(slots, type)
        /\ x[type][k].voice = slots[type][k].voice
        /\ v[x[type][k].voice].released = FALSE
        /\ v[x[type][k].voice].type = type
        /\ x[type][k].paused = ~IsOpen(v[x[type][k].voice])

NoneRevived(v, voices) == \A i \in DOMAIN voices : v[i].released = FALSE => voices[i].released = FALSE

\* A change that gives no slot a voice and releases or closes what nobody holds.
LEMMA StillAgree ==
    ASSUME NEW s, NEW voices, NEW slots, Agree(voices, slots, s),
           NEW v \in Seq(VoicesOf(s)), DOMAIN v = DOMAIN voices, NEW x \in SlotTable(s),
           Keeps(v, x, slots, s), NoneRevived(v, voices), Owned(v, x, s)
    PROVE  Agree(v, x, s)
<1>1. Holds(v, x, s)
  BY DEF Agree, Holds, Keeps
<1>2. Apart(x, s)
  BY DEF Agree, Apart, Keeps
<1>3. HeldOf(v) \subseteq HeldOf(voices)
  BY DEF HeldOf, NoneRevived
<1>4. Cardinality(HeldOf(v)) <= MaxManagerChannels
  <2>1. IsFiniteSet(HeldOf(voices))
    BY HeldFinite DEF Agree
  <2>2. /\ IsFiniteSet(HeldOf(v)) /\ Cardinality(HeldOf(v)) <= Cardinality(HeldOf(voices))
    BY <1>3, <2>1, FS_Subset
  <2>3. Cardinality(HeldOf(v)) \in Nat /\ Cardinality(HeldOf(voices)) \in Nat
    BY <2>1, <2>2, FS_CardinalityType
  <2>4. Cardinality(HeldOf(voices)) <= MaxManagerChannels
    BY DEF Agree
  <2> QED BY <2>2, <2>3, <2>4, LimitsAssumption
<1> QED BY <1>1, <1>2, <1>4 DEF Agree

DeviceInv(m, s) ==
    /\ Shaped(m)
    /\ m.device = "feedback"
    /\ m.draws \in Nat
    /\ m.told \in Nat
    /\ Agree(m.voices, m.slots, s)

\* A machine with the same voices and slots agrees as well.
LEMMA DeviceTold ==
    ASSUME NEW m, NEW s, DeviceInv(m, s), NEW t, NEW type, NEW outcome
    PROVE  DeviceInv(Tell(m, t, type, outcome), s)
<1> DEFINE n == Tell(m, t, type, outcome)
<1>1. /\ Shaped(n) /\ n.device = m.device /\ n.voices = m.voices /\ n.slots = m.slots
      /\ n.draws = m.draws /\ n.told = m.told + 1
  BY ToldFields DEF DeviceInv
<1> HIDE DEF n
<1>2. DeviceInv(n, s)
  BY <1>1 DEF DeviceInv
<1> QED BY <1>2 DEF n

\* What the observer hears changes neither voices nor slots.
LEMMA DeviceWatched ==
    ASSUME NEW m, NEW s, DeviceInv(m, s), NEW w
    PROVE  LET n == [m EXCEPT !.watcher = w]
           IN  DeviceInv(n, s) /\ n.voices = m.voices /\ n.slots = m.slots
<1> DEFINE n == [m EXCEPT !.watcher = w]
<1>1. /\ Shaped(n) /\ n.device = m.device /\ n.voices = m.voices /\ n.slots = m.slots
      /\ n.draws = m.draws /\ n.told = m.told
  BY DEF DeviceInv, Shaped
<1> HIDE DEF n
<1>2. DeviceInv(n, s)
  BY <1>1 DEF DeviceInv
<1> QED BY <1>1, <1>2 DEF n

\* n is m with the voices v and the slots x.
Rewrites(n, m, v, x) ==
    /\ Shaped(n) /\ n.device = m.device /\ n.draws = m.draws /\ n.told = m.told
    /\ n.voices = v /\ n.slots = x

\* A machine whose voices and slots were rewritten.
LEMMA DeviceRewritten ==
    ASSUME NEW m, NEW s, DeviceInv(m, s), NEW v, NEW x, Agree(v, x, s), NEW n, Rewrites(n, m, v, x)
    PROVE  DeviceInv(n, s)
BY DEF DeviceInv, Rewrites

\* The slots that are given up keep no voice open; the others keep theirs.
LEMMA DeviceLetGo ==
    ASSUME NEW m, NEW s, DeviceInv(m, s), NEW t \in Nat, NEW which,
           \A type \in s.types : which[type] \subseteq Live(m, type)
    PROVE  /\ DeviceInv(LetGo(m, t, which), s)
           /\ \A type \in s.types, k \in 1..MaxFoleyInstances :
                 LetGo(m, t, which).slots[type][k] =
                    IF k \in which[type] THEN Emptied(m.slots[type][k]) ELSE m.slots[type][k]
<1> DEFINE voices == m.voices
           slots == m.slots
           Gone(i) == \E type \in s.types : \E k \in which[type] : slots[type][k].voice = i
           v == [i \in DOMAIN voices |-> IF Gone(i) THEN ReleaseVoice(voices, t, i)[i] ELSE voices[i]]
           x == [type \in s.types |-> [k \in 1..MaxFoleyInstances |->
                    IF k \in which[type] THEN Emptied(slots[type][k]) ELSE slots[type][k]]]
<1>1. /\ Agree(voices, slots, s) /\ voices \in Seq(VoicesOf(s)) /\ slots \in SlotTable(s)
      /\ Holds(voices, slots, s) /\ Apart(slots, s) /\ Owned(voices, slots, s)
  BY DEF DeviceInv, Agree
<1>2. DOMAIN slots = s.types
  BY <1>1 DEF SlotTable
<1> DEFINE n == LetGo(m, t, which)
<1>3. Rewrites(n, m, v, x)
  <2>1. n = [m EXCEPT !.voices = v, !.slots = x]
    BY <1>2 DEF LetGo
  <2>2. Shaped(m)
    BY DEF DeviceInv
  <2> HIDE DEF v, x, n
  <2>3. /\ Shaped(n) /\ n.device = m.device /\ n.draws = m.draws /\ n.told = m.told
        /\ n.voices = v /\ n.slots = x
    BY <2>1, <2>2 DEF Shaped
  <2> QED BY <2>3 DEF Rewrites
<1>4. \A type \in s.types : which[type] \subseteq Used(slots, type)
  BY DEF Live, Used
<1>5. /\ v = [i \in DOMAIN voices |-> v[i]] /\ DOMAIN v = DOMAIN voices
      /\ \A i \in DOMAIN voices : v[i] = IF Gone(i) THEN ReleaseVoice(voices, t, i)[i] ELSE voices[i]
  OBVIOUS
<1>6. \A type \in s.types, k \in 1..MaxFoleyInstances :
         x[type][k] = IF k \in which[type] THEN Emptied(slots[type][k]) ELSE slots[type][k]
  OBVIOUS
<1>7. x \in SlotTable(s)
  <2>1. ASSUME NEW type \in s.types, NEW k \in 1..MaxFoleyInstances PROVE x[type][k] \in Slots
    <3>1. slots[type][k] \in Slots
      BY <1>1 DEF SlotTable
    <3>2. Emptied(slots[type][k]) \in Slots
      BY <3>1 DEF Slots, Emptied, NoVoice
    <3> QED BY <1>6, <3>1, <3>2
  <2> QED BY <2>1 DEF SlotTable
<1>8. \A type \in s.types : \A k \in which[type] : Emptied(slots[type][k]).refcount = 0
  <2> TAKE type \in s.types
  <2> TAKE k \in which[type]
  <2>1. slots[type][k] \in Slots
    BY <1>1, <1>4 DEF SlotTable, Used
  <2> QED BY <2>1 DEF Slots, Emptied
<1> HIDE DEF voices, slots, v, x, n, Gone
<1>9. \A i \in DOMAIN voices :
         /\ v[i] \in VoicesOf(s)
         /\ ~Gone(i) => v[i] = voices[i]
         /\ Gone(i) /\ IsOpen(voices[i]) => v[i].released = TRUE
         /\ Gone(i) /\ ~IsOpen(voices[i]) => v[i] = voices[i]
  <2> TAKE i \in DOMAIN voices
  <2>1. /\ ReleaseVoice(voices, t, i)[i] \in VoicesOf(s)
        /\ IsOpen(voices[i]) => ReleaseVoice(voices, t, i)[i].released = TRUE
        /\ ~IsOpen(voices[i]) => ReleaseVoice(voices, t, i)[i] = voices[i]
    BY <1>1, ReleasedTyped
  <2>2. v[i] = IF Gone(i) THEN ReleaseVoice(voices, t, i)[i] ELSE voices[i]
    BY <1>5
  <2>3. voices[i] \in VoicesOf(s)
    BY <1>1
  <2> QED BY <2>1, <2>2, <2>3
<1>10. v \in Seq(VoicesOf(s))
  BY <1>1, <1>5, <1>9, SameIndices
<1>11. \A type \in s.types : \A k \in Used(x, type) :
          /\ k \in Used(slots, type) /\ k \notin which[type] /\ x[type][k] = slots[type][k]
          /\ ~Gone(slots[type][k].voice)
  <2> TAKE type \in s.types
  <2> TAKE k \in Used(x, type)
  <2>1. k \in 1..MaxFoleyInstances /\ x[type][k].refcount > 0
    BY DEF Used
  <2>2. k \notin which[type]
    BY <1>6, <1>8, <2>1
  <2>3. x[type][k] = slots[type][k]
    BY <1>6, <2>1, <2>2
  <2>4. k \in Used(slots, type)
    BY <2>1, <2>3 DEF Used
  <2>5. ~Gone(slots[type][k].voice)
    <3> SUFFICES ASSUME NEW u \in s.types, NEW l \in which[u], slots[u][l].voice = slots[type][k].voice
                 PROVE  FALSE
      BY DEF Gone
    <3>1. l \in Used(slots, u)
      BY <1>4
    <3>2. u = type /\ l = k
      BY <1>1, <2>4, <3>1 DEF Apart
    <3> QED BY <2>2, <3>2
  <2> QED BY <2>2, <2>3, <2>4, <2>5
<1>12. Keeps(v, x, slots, s)
  <2> SUFFICES ASSUME NEW type \in s.types, NEW k \in Used(x, type)
               PROVE  /\ k \in Used(slots, type)
                      /\ x[type][k].voice = slots[type][k].voice
                      /\ v[x[type][k].voice].released = FALSE
                      /\ v[x[type][k].voice].type = type
                      /\ x[type][k].paused = ~IsOpen(v[x[type][k].voice])
    BY DEF Keeps
  <2> DEFINE i == slots[type][k].voice
  <2>1. k \in Used(slots, type) /\ x[type][k] = slots[type][k] /\ ~Gone(i)
    BY <1>11
  <2>2. /\ i \in DOMAIN voices /\ voices[i].released = FALSE /\ voices[i].type = type
        /\ slots[type][k].paused = ~IsOpen(voices[i])
    BY <1>1, <2>1 DEF Holds
  <2>3. v[i] = voices[i]
    BY <1>9, <2>1, <2>2
  <2> QED BY <2>1, <2>2, <2>3
<1>13. NoneRevived(v, voices)
  BY <1>9 DEF NoneRevived
<1>14. Owned(v, x, s)
  <2> SUFFICES ASSUME NEW i \in DOMAIN voices, v[i].released = FALSE, IsOpen(v[i])
               PROVE  \E type \in s.types : \E k \in Used(x, type) : x[type][k].voice = i
    BY <1>5 DEF Owned
  <2>1. ~Gone(i) /\ v[i] = voices[i]
    BY <1>9
  <2>2. PICK type \in s.types : \E k \in Used(slots, type) : slots[type][k].voice = i
    BY <1>1, <2>1 DEF Owned
  <2>3. PICK k \in Used(slots, type) : slots[type][k].voice = i
    BY <2>2
  <2>4. k \notin which[type]
    BY <2>1, <2>3 DEF Gone
  <2>5. x[type][k] = slots[type][k] /\ k \in Used(x, type)
    BY <1>6, <2>3, <2>4 DEF Used
  <2> QED BY <2>3, <2>5
<1>15. Agree(v, x, s)
  <2>1. DOMAIN v = DOMAIN voices
    BY <1>5
  <2> QED BY <1>1, <1>7, <1>10, <1>12, <1>13, <1>14, <2>1, StillAgree
<1>16. DeviceInv(n, s) /\ n.slots = x
  BY <1>3, <1>15, DeviceRewritten DEF Rewrites
<1> QED BY <1>6, <1>16 DEF slots, n

\* What has finished is let go, and so is what is asked about.
LEMMA DeviceReleased ==
    ASSUME NEW m, NEW s, DeviceInv(m, s), NEW t \in Nat
    PROVE  DeviceInv(ReleaseFinished(m, t), s)
<1> DEFINE which == [type \in DOMAIN m.slots |-> Finished(m, type, t)]
<1>1. DOMAIN m.slots = s.types
  BY DEF DeviceInv, Agree, SlotTable
<1>2. \A type \in s.types : which[type] \subseteq Live(m, type)
  BY <1>1 DEF Finished
<1> HIDE DEF which
<1>3. DeviceInv(LetGo(m, t, which), s)
  BY <1>2, DeviceLetGo
<1> QED BY <1>3 DEF ReleaseFinished, which

\* The paused instances are let go.
LEMMA DeviceCancelled ==
    ASSUME NEW m, NEW s, DeviceInv(m, s), NEW t \in Nat
    PROVE  DeviceInv(CancelPaused(m, t), s)
<1> DEFINE r == ReleaseFinished(m, t)
           which == [type \in DOMAIN r.slots |-> {k \in Live(r, type) : r.slots[type][k].paused}]
<1>1. DeviceInv(r, s)
  BY DeviceReleased
<1>2. CancelPaused(m, t) = LetGo(r, t, which)
  BY DEF CancelPaused
<1> HIDE DEF r
<1>3. DOMAIN r.slots = s.types
  BY <1>1 DEF DeviceInv, Agree, SlotTable
<1>4. \A type \in s.types : which[type] \subseteq Live(r, type)
  BY <1>3
<1> HIDE DEF which
<1> QED BY <1>1, <1>2, <1>4, DeviceLetGo

\* One slot in use changes its count or its start.
LEMMA DeviceSlot ==
    ASSUME NEW m, NEW s, DeviceInv(m, s), NEW type \in s.types, NEW k \in Live(m, type),
           NEW r \in Slots, r.refcount > 0, r.voice = m.slots[type][k].voice,
           r.paused = m.slots[type][k].paused,
           NEW n, Rewrites(n, m, m.voices, [m.slots EXCEPT ![type][k] = r])
    PROVE  DeviceInv(n, s)
<1> DEFINE voices == m.voices
           slots == m.slots
           x == [slots EXCEPT ![type][k] = r]
<1>1. /\ Agree(voices, slots, s) /\ voices \in Seq(VoicesOf(s)) /\ slots \in SlotTable(s)
      /\ Holds(voices, slots, s) /\ Owned(voices, slots, s)
  BY DEF DeviceInv, Agree
<1>2. k \in Used(slots, type) /\ k \in 1..MaxFoleyInstances
  BY DEF Live, Used
<1>3. Rewrites(n, m, voices, x)
  OBVIOUS
<1>4. r.voice = slots[type][k].voice /\ r.paused = slots[type][k].paused
  OBVIOUS
<1> HIDE DEF voices, slots
<1>5. x \in SlotTable(s)
  BY <1>1, <1>2 DEF SlotTable
<1>6. \A u \in s.types, l \in 1..MaxFoleyInstances :
         x[u][l] = IF u = type /\ l = k THEN r ELSE slots[u][l]
  BY <1>1 DEF SlotTable
<1> HIDE DEF x
<1>7. \A u \in s.types : \A l \in 1..MaxFoleyInstances :
         /\ x[u][l].voice = slots[u][l].voice /\ x[u][l].paused = slots[u][l].paused
         /\ l \in Used(x, u) <=> l \in Used(slots, u)
  BY <1>2, <1>4, <1>6 DEF Used
<1>8. Keeps(voices, x, slots, s)
  BY <1>1, <1>7 DEF Keeps, Holds, Used
<1>9. Owned(voices, x, s)
  <2> SUFFICES ASSUME NEW i \in DOMAIN voices, voices[i].released = FALSE, IsOpen(voices[i])
               PROVE  \E u \in s.types : \E l \in Used(x, u) : x[u][l].voice = i
    BY DEF Owned
  <2>1. PICK u \in s.types : \E l \in Used(slots, u) : slots[u][l].voice = i
    BY <1>1 DEF Owned
  <2>2. PICK l \in Used(slots, u) : slots[u][l].voice = i
    BY <2>1
  <2>3. l \in 1..MaxFoleyInstances
    BY DEF Used
  <2> QED BY <1>7, <2>2, <2>3
<1>10. NoneRevived(voices, voices)
  BY DEF NoneRevived
<1>11. Agree(voices, x, s)
  BY <1>1, <1>5, <1>8, <1>9, <1>10, StillAgree
<1> QED BY <1>3, <1>11, DeviceRewritten

\* The first slot in use.
LEMMA FirstLive ==
    ASSUME NEW m, NEW s, DeviceInv(m, s), NEW type \in s.types, Live(m, type) # {}
    PROVE  /\ FirstOf(Live(m, type)) \in Live(m, type)
           /\ m.slots[type][FirstOf(Live(m, type))] \in Slots
<1>1. Live(m, type) \subseteq 1..MaxFoleyInstances /\ Live(m, type) \subseteq Nat
  BY LimitsAssumption DEF Live
<1>2. FirstOf(Live(m, type)) \in Live(m, type)
  BY <1>1, FirstMember
<1>3. m.slots \in SlotTable(s)
  BY DEF DeviceInv, Agree
<1> QED BY <1>1, <1>2, <1>3 DEF SlotTable

\* A stop drops one reference, and at the last one the instance.
LEMMA DeviceDropped ==
    ASSUME NEW m, NEW s, DeviceInv(m, s), NEW t \in Nat, NEW type \in s.types
    PROVE  DeviceInv(Dropped(m, t, type), s)
<1> DEFINE k == FirstOf(Live(m, type))
<1>1. CASE Live(m, type) = {}
  BY <1>1 DEF Dropped
<1>2. CASE Live(m, type) # {} /\ m.slots[type][k].refcount > 1
  <2> DEFINE r == [m.slots[type][k] EXCEPT !.refcount = @ - 1]
             n == [m EXCEPT !.slots[type][k].refcount = @ - 1]
  <2>1. k \in Live(m, type) /\ m.slots[type][k] \in Slots
    BY <1>2, FirstLive
  <2>2. /\ r \in Slots /\ r.refcount > 0 /\ r.voice = m.slots[type][k].voice
        /\ r.paused = m.slots[type][k].paused
    BY <1>2, <2>1 DEF Slots
  <2>3. Rewrites(n, m, m.voices, [m.slots EXCEPT ![type][k] = r])
    <3>1. n = [m EXCEPT !.slots = [m.slots EXCEPT ![type][k] = r]]
      OBVIOUS
    <3>2. Shaped(m)
      BY DEF DeviceInv
    <3> HIDE DEF n, r
    <3> QED BY <3>1, <3>2 DEF Shaped, Rewrites
  <2>4. Dropped(m, t, type) = Tell(n, t, type, "stop")
    BY <1>2 DEF Dropped
  <2> HIDE DEF r, n, k
  <2>5. DeviceInv(n, s)
    BY <2>1, <2>2, <2>3, DeviceSlot
  <2> QED BY <2>4, <2>5, DeviceTold
<1>3. CASE Live(m, type) # {} /\ ~(m.slots[type][k].refcount > 1)
  <2> DEFINE which == [u \in DOMAIN m.slots |-> IF u = type THEN {k} ELSE {}]
  <2>1. k \in Live(m, type)
    BY <1>3, FirstLive
  <2>2. DOMAIN m.slots = s.types
    BY DEF DeviceInv, Agree, SlotTable
  <2>3. \A u \in s.types : which[u] \subseteq Live(m, u)
    BY <2>1, <2>2
  <2>4. Dropped(m, t, type) = Tell(LetGo(m, t, which), t, type, "stop")
    BY <1>3 DEF Dropped
  <2> HIDE DEF which
  <2>5. DeviceInv(LetGo(m, t, which), s)
    BY <2>3, DeviceLetGo
  <2> QED BY <2>4, <2>5, DeviceTold
<1> QED BY <1>1, <1>2, <1>3

\* A stop releases what has finished, then drops one reference.
LEMMA DeviceStop ==
    ASSUME NEW m, NEW s, DeviceInv(m, s), NEW t \in Nat, NEW type \in s.types
    PROVE  DeviceInv(StopFoley(m, s, t, type), s)
<1> DEFINE r == ReleaseFinished(m, t)
           w == WatchStop(r.watcher, t, type)
           n == [r EXCEPT !.watcher = w]
<1>1. DeviceInv(r, s)
  BY DeviceReleased
<1>2. StopFoley(m, s, t, type) = Dropped(n, t, type)
  BY DEF StopFoley
<1> HIDE DEF r, w
<1>3. DeviceInv(n, s)
  BY <1>1, DeviceWatched
<1> HIDE DEF n
<1> QED BY <1>2, <1>3, DeviceDropped

\* A free slot is given a voice while the device has a channel left.
LEMMA DeviceGiven ==
    ASSUME NEW m, NEW s, DeviceInv(m, s), NEW type \in s.types,
           NEW k \in (1..MaxFoleyInstances) \ Live(m, type),
           Cardinality(HeldOf(m.voices)) < MaxManagerChannels,
           NEW v \in VoicesOf(s), IsOpen(v), v.type = type, v.released = FALSE,
           NEW r \in Slots, r.refcount > 0, r.paused = FALSE, r.voice = Len(m.voices) + 1,
           NEW n, Rewrites(n, m, Append(m.voices, v), [m.slots EXCEPT ![type][k] = r])
    PROVE  DeviceInv(n, s)
<1> DEFINE voices == m.voices
           slots == m.slots
           q == Append(voices, v)
           x == [slots EXCEPT ![type][k] = r]
           i == Len(voices) + 1
<1>1. /\ Agree(voices, slots, s) /\ voices \in Seq(VoicesOf(s)) /\ slots \in SlotTable(s)
      /\ Holds(voices, slots, s) /\ Apart(slots, s) /\ Owned(voices, slots, s)
      /\ Cardinality(HeldOf(voices)) < MaxManagerChannels
  BY DEF DeviceInv, Agree
<1>2. k \notin Used(slots, type) /\ k \in 1..MaxFoleyInstances
  BY DEF Live, Used
<1>3. Rewrites(n, m, q, x)
  OBVIOUS
<1>4. r.voice = i
  OBVIOUS
<1> HIDE DEF voices, slots
<1>5. x \in SlotTable(s)
  BY <1>1, <1>2 DEF SlotTable
<1>6. \A u \in s.types, l \in 1..MaxFoleyInstances :
         x[u][l] = IF u = type /\ l = k THEN r ELSE slots[u][l]
  BY <1>1 DEF SlotTable
<1>7. /\ q \in Seq(VoicesOf(s)) /\ DOMAIN q = DOMAIN voices \union {i} /\ i \notin DOMAIN voices
      /\ q[i] = v /\ \A j \in DOMAIN voices : q[j] = voices[j]
      /\ Len(voices) \in Nat
  BY <1>1
<1> HIDE DEF q, x, i
<1>8. \A u \in s.types : \A l \in Used(x, u) :
         \/ u = type /\ l = k /\ x[u][l] = r
         \/ ~(u = type /\ l = k) /\ l \in Used(slots, u) /\ x[u][l] = slots[u][l]
  BY <1>6 DEF Used
<1>9. \A u \in s.types : \A l \in Used(slots, u) : l \in Used(x, u) /\ x[u][l] = slots[u][l]
  BY <1>2, <1>6 DEF Used
<1>10. \A u \in s.types : \A l \in Used(slots, u) : slots[u][l].voice \in DOMAIN voices
  BY <1>1 DEF Holds
<1>11. Holds(q, x, s)
  <2> SUFFICES ASSUME NEW u \in s.types, NEW l \in Used(x, u)
               PROVE  /\ x[u][l].voice \in DOMAIN q
                      /\ q[x[u][l].voice].released = FALSE
                      /\ q[x[u][l].voice].type = u
                      /\ x[u][l].paused = ~IsOpen(q[x[u][l].voice])
    BY DEF Holds
  <2>1. CASE u = type /\ l = k /\ x[u][l] = r
    BY <1>4, <1>7, <2>1
  <2>2. CASE l \in Used(slots, u) /\ x[u][l] = slots[u][l]
    <3>1. /\ slots[u][l].voice \in DOMAIN voices
          /\ voices[slots[u][l].voice].released = FALSE
          /\ voices[slots[u][l].voice].type = u
          /\ slots[u][l].paused = ~IsOpen(voices[slots[u][l].voice])
      BY <1>1, <2>2 DEF Holds
    <3> QED BY <1>7, <2>2, <3>1
  <2> QED BY <1>8, <2>1, <2>2
<1>12. Apart(x, s)
  <2> SUFFICES ASSUME NEW u \in s.types, NEW w \in s.types, NEW l \in Used(x, u), NEW h \in Used(x, w),
                      x[u][l].voice = x[w][h].voice
               PROVE  u = w /\ l = h
    BY DEF Apart
  <2>1. CASE x[u][l] = slots[u][l] /\ l \in Used(slots, u) /\ x[w][h] = slots[w][h] /\ h \in Used(slots, w)
    BY <1>1, <2>1 DEF Apart
  <2> QED BY <1>4, <1>7, <1>8, <1>10, <2>1
<1>13. Owned(q, x, s)
  <2> SUFFICES ASSUME NEW j \in DOMAIN q, q[j].released = FALSE, IsOpen(q[j])
               PROVE  \E u \in s.types : \E l \in Used(x, u) : x[u][l].voice = j
    BY DEF Owned
  <2>1. CASE j = i
    <3>1. x[type][k] = r
      BY <1>2, <1>6
    <3>2. k \in Used(x, type)
      BY <1>2, <3>1 DEF Used
    <3> QED BY <1>4, <2>1, <3>1, <3>2
  <2>2. CASE j \in DOMAIN voices
    <3>1. PICK u \in s.types : \E l \in Used(slots, u) : slots[u][l].voice = j
      BY <1>1, <1>7, <2>2 DEF Owned
    <3> QED BY <1>9, <3>1
  <2> QED BY <1>7, <2>1, <2>2
<1>14. Cardinality(HeldOf(q)) <= MaxManagerChannels
  <2>1. IsFiniteSet(HeldOf(voices)) /\ Cardinality(HeldOf(voices)) \in Nat
    BY <1>1, HeldFinite, FS_CardinalityType
  <2>2. HeldOf(q) = HeldOf(voices) \union {i} /\ i \notin HeldOf(voices)
    BY <1>7 DEF HeldOf
  <2>3. Cardinality(HeldOf(q)) = Cardinality(HeldOf(voices)) + 1
    BY <2>1, <2>2, FS_AddElement
  <2> QED BY <1>1, <2>1, <2>3, LimitsAssumption
<1>15. Agree(q, x, s)
  BY <1>5, <1>7, <1>11, <1>12, <1>13, <1>14 DEF Agree
<1> QED BY <1>3, <1>15, DeviceRewritten

\* An allocation that fails changes nothing but what is told.
LEMMA DeviceAllocated ==
    ASSUME NEW m, NEW s \in Soundscapes, DeviceInv(m, s), NEW t \in Nat, NEW intent \in Intents(s, t),
           NEW pitch \in DOMAIN PitchRate, NEW k \in (1..MaxFoleyInstances) \ Live(m, intent.type)
    PROVE  DeviceInv(Allocated(m, s, intent, pitch, k), s)
<1> DEFINE type == intent.type
           v == Instance(m, s, intent, pitch)
           r == [refcount |-> 1, paused |-> FALSE, start |-> t, voice |-> Len(m.voices) + 1, place |-> 0]
           n == [m EXCEPT !.voices = Append(m.voices, v), !.slots[type][k] = r]
<1>1. intent.tick = t /\ type \in s.types
  BY DEF Intents
<1>2. m.voices \in Seq(VoicesOf(s)) /\ Len(m.voices) \in Nat
  BY DEF DeviceInv, Agree
<1>3. CASE ~Allocates(m)
  <2>1. Allocated(m, s, intent, pitch, k) = Tell(m, t, type, "no_instance")
    BY <1>1, <1>3 DEF Allocated
  <2> QED BY <2>1, DeviceTold
<1>4. CASE Allocates(m)
  <2>1. Allocated(m, s, intent, pitch, k) = Tell(n, t, type, "played")
    BY <1>1, <1>4 DEF Allocated
  <2>2. v \in VoicesOf(s) /\ IsOpen(v) /\ v.type = type /\ v.released = FALSE
    <3>1. Opened(v, s, type)
      BY InstanceTyped
    <3> HIDE DEF v, n, type
    <3> QED BY <3>1 DEF Opened
  <2>3. r \in Slots /\ r.refcount > 0 /\ r.paused = FALSE /\ r.voice = Len(m.voices) + 1
    BY <1>2 DEF Slots
  <2>4. Cardinality(HeldOf(m.voices)) < MaxManagerChannels
    <3>1. \A i \in DOMAIN m.voices : m.voices[i].released \in BOOLEAN
      <4> TAKE i \in DOMAIN m.voices
      <4>1. m.voices[i] \in VoicesOf(s)
        BY <1>2
      <4> QED BY <4>1 DEF VoicesOf
    <3>2. HeldOf(m.voices) = Held(m)
      BY <3>1 DEF HeldOf, Held
    <3> QED BY <1>4, <3>2 DEF Allocates
  <2>5. Rewrites(n, m, Append(m.voices, v), [m.slots EXCEPT ![type][k] = r])
    <3> DEFINE q == Append(m.voices, v)
               x == [m.slots EXCEPT ![type][k] = r]
               a == [m EXCEPT !.voices = q]
    <3>1. Shaped(m)
      BY DEF DeviceInv
    <3>2. n = [a EXCEPT !.slots[type][k] = r]
      OBVIOUS
    <3> HIDE DEF n, r, q
    <3>3. /\ Shaped(a) /\ a.device = m.device /\ a.draws = m.draws /\ a.told = m.told
          /\ a.voices = q /\ a.slots = m.slots
      BY <3>1 DEF Shaped
    <3> HIDE DEF a
    <3>4. n = [a EXCEPT !.slots = x]
      BY <3>2, <3>3
    <3> HIDE DEF x
    <3> QED BY <3>3, <3>4 DEF Shaped, Rewrites, q, x
  <2>6. k \in (1..MaxFoleyInstances) \ Live(m, type)
    OBVIOUS
  <2> HIDE DEF n, r, v, type
  <2>7. DeviceInv(n, s)
    BY <1>1, <2>2, <2>3, <2>4, <2>5, <2>6, DeviceGiven
  <2> QED BY <2>1, <2>7, DeviceTold
<1> QED BY <1>3, <1>4

\* A play draws before it asks the device.
LEMMA DeviceDrawn ==
    ASSUME NEW m, NEW s \in Soundscapes, DeviceInv(m, s), NEW t \in Nat, NEW type \in s.types,
           NEW pitch \in DOMAIN PitchRate, Live(m, type) # 1..MaxFoleyInstances
    PROVE  DeviceInv(Drawn(m, s, t, type, pitch), s)
<1> DEFINE n == DrawnFor(m, s, t, type, pitch)
           intent == IntentOf(m, s, t, type, pitch)
           free == (1..MaxFoleyInstances) \ Live(m, type)
           k == FirstOf(free)
<1>1. Shaped(m) /\ m.draws \in Nat /\ m.told \in Nat /\ Agree(m.voices, m.slots, s) /\ m.device = "feedback"
  BY DEF DeviceInv
<1>2. intent \in Intents(s, t)
  BY <1>1, IntentIn
<1>3. intent.type = type
  BY DEF IntentOf
<1>4. Asks(n, m, s, t, type, pitch)
  BY <1>1, DrawnFields
<1>5. Drawn(m, s, t, type, pitch) = Allocated(n, s, intent, pitch, k)
  BY DrawnIs
<1> HIDE DEF n, intent
<1>6. DeviceInv(n, s) /\ n.slots = m.slots
  BY <1>1, <1>4 DEF Asks, DeviceInv
<1>7. k \in free
  <2>1. Live(m, type) \subseteq 1..MaxFoleyInstances
    BY DEF Live
  <2>2. free # {}
    BY <2>1
  <2>3. 1..MaxFoleyInstances \subseteq Nat
    BY LimitsAssumption
  <2>4. free \subseteq Nat
    BY <2>3
  <2> HIDE DEF free
  <2> QED BY <2>2, <2>4, FirstMember
<1>8. Live(n, type) = Live(m, type)
  BY <1>6 DEF Live
<1> HIDE DEF k
<1>9. k \in (1..MaxFoleyInstances) \ Live(n, intent.type)
  BY <1>3, <1>7, <1>8
<1> QED BY <1>2, <1>5, <1>6, <1>9, DeviceAllocated

\* A play starts an instance, shares one, or is refused.
LEMMA DevicePlay ==
    ASSUME NEW m, NEW s \in Soundscapes, DeviceInv(m, s), NEW t \in Nat, NEW type \in s.types,
           NEW pitch \in DOMAIN PitchRate
    PROVE  DeviceInv(PlayFoley(m, s, t, type, pitch), s)
<1> DEFINE r == ReleaseFinished(m, t)
           k == FirstOf(Live(r, type))
           x == Shared(r.slots[type][k], t)
           n == [r EXCEPT !.slots[type][k] = Shared(@, t)]
           a == Admitted(r, s, t, type, pitch)
<1>1. DeviceInv(r, s) /\ PlayFoley(m, s, t, type, pitch) = a
  BY DeviceReleased DEF PlayFoley
<1> HIDE DEF r
<1>2. \/ a = Tell(r, t, type, "recent")
      \/ Live(r, type) # {} /\ a = Tell(n, t, type, "reuse")
      \/ a = Tell(r, t, type, "no_slot")
      \/ Live(r, type) # 1..MaxFoleyInstances /\ a = Drawn(r, s, t, type, pitch)
  BY DEF Admitted
<1>3. CASE a = Tell(r, t, type, "recent") \/ a = Tell(r, t, type, "no_slot")
  BY <1>1, <1>3, DeviceTold
<1>4. CASE Live(r, type) # {} /\ a = Tell(n, t, type, "reuse")
  <2>1. k \in Live(r, type) /\ r.slots[type][k] \in Slots
    BY <1>1, <1>4, FirstLive
  <2>2. /\ x \in Slots /\ x.refcount > 0 /\ x.voice = r.slots[type][k].voice
        /\ x.paused = r.slots[type][k].paused
    <3> DEFINE o == r.slots[type][k]
    <3>1. o \in Slots /\ o.refcount > 0
      BY <2>1 DEF Live
    <3> HIDE DEF o
    <3> DEFINE c == [o EXCEPT !.refcount = @ + 1]
    <3>2. x = [c EXCEPT !.start = t]
      BY DEF Shared, o
    <3>3. c \in Slots /\ c.refcount > 0 /\ c.voice = o.voice /\ c.paused = o.paused
      BY <3>1 DEF Slots
    <3> HIDE DEF x, n, c
    <3>4. x \in Slots /\ x.refcount > 0 /\ x.voice = c.voice /\ x.paused = c.paused
      BY <3>2, <3>3 DEF Slots
    <3> QED BY <3>3, <3>4 DEF o
  <2>3. Rewrites(n, r, r.voices, [r.slots EXCEPT ![type][k] = x])
    <3>1. n = [r EXCEPT !.slots = [r.slots EXCEPT ![type][k] = x]]
      OBVIOUS
    <3>2. Shaped(r)
      BY <1>1 DEF DeviceInv
    <3> HIDE DEF n, x
    <3> QED BY <3>1, <3>2 DEF Shaped, Rewrites
  <2> HIDE DEF x, n, k
  <2>4. DeviceInv(n, s)
    BY <1>1, <2>1, <2>2, <2>3, DeviceSlot
  <2> HIDE DEF a
  <2> QED BY <1>1, <1>4, <2>4, DeviceTold
<1>5. CASE Live(r, type) # 1..MaxFoleyInstances /\ a = Drawn(r, s, t, type, pitch)
  <2> HIDE DEF a
  <2> QED BY <1>1, <1>5, DeviceDrawn
<1> QED BY <1>1, <1>2, <1>3, <1>4, <1>5

\* The voices of the slots that are switched are those with a slot of them.
LEMMA SlotOfIs ==
    ASSUME NEW m, NEW which, NEW i
    PROVE  /\ \A x \in SlotOf(m, which, i) :
                 \E type \in DOMAIN which : \E k \in which[type] :
                     x = m.slots[type][k] /\ m.slots[type][k].voice = i
           /\ \A type \in DOMAIN which : \A k \in which[type] :
                 m.slots[type][k].voice = i => m.slots[type][k] \in SlotOf(m, which, i)
BY DEF SlotOf

\* A pause stops the voices of its slots, its end starts them again where they were.
SwitchedVoice(m, t, entering, which, i) ==
    IF SlotOf(m, which, i) = {} THEN m.voices[i]
    ELSE IF entering THEN StopVoice(m.voices, t, i)[i]
    ELSE LET slot == CHOOSE x \in SlotOf(m, which, i) : TRUE
         IN  MovedVoice(RestartedVoice(m.voices[i], t), t, slot.place)

SwitchedSlot(m, t, entering, which, type, k) ==
    IF k \notin which[type] THEN m.slots[type][k]
    ELSE IF entering THEN PausedSlot(m, m.slots[type][k], t)
    ELSE [m.slots[type][k] EXCEPT !.paused = FALSE]

\* A switched voice is open exactly when the game goes on.
LEMMA SwitchedVoiceTyped ==
    ASSUME NEW m, NEW s, DeviceInv(m, s), NEW t \in Nat, NEW entering, NEW which,
           DOMAIN which = s.types, \A type \in s.types : which[type] \subseteq Live(m, type),
           NEW i \in DOMAIN m.voices, SlotOf(m, which, i) # {}
    PROVE  /\ SwitchedVoice(m, t, entering, which, i) \in VoicesOf(s)
           /\ SameSource(SwitchedVoice(m, t, entering, which, i), m.voices[i])
           /\ (IsOpen(SwitchedVoice(m, t, entering, which, i)) <=> ~entering)
<1> DEFINE v == m.voices[i]
           slot == CHOOSE x \in SlotOf(m, which, i) : TRUE
           w == SwitchedVoice(m, t, entering, which, i)
<1>1. v \in VoicesOf(s)
  BY DEF DeviceInv, Agree
<1>2. CASE entering
  <2>1. w = IF IsOpen(v) THEN StoppedVoice(v, t) ELSE v
    BY <1>2 DEF SwitchedVoice, StopVoice
  <2> HIDE DEF w, v
  <2>2. w \in VoicesOf(s) /\ SameSource(w, v) /\ ~IsOpen(w)
    BY <1>1, <2>1, StoppedTyped DEF SameSource
  <2> QED BY <1>2, <2>2 DEF v, w
<1>3. CASE ~entering
  <2> DEFINE a == RestartedVoice(v, t)
  <2>1. slot \in SlotOf(m, which, i)
    OBVIOUS
  <2> HIDE DEF slot
  <2>2. PICK type \in s.types : \E k \in which[type] : slot = m.slots[type][k]
    BY <2>1, SlotOfIs
  <2>3. PICK k \in which[type] : slot = m.slots[type][k]
    BY <2>2
  <2>4. k \in 1..MaxFoleyInstances
    BY DEF Live
  <2>5. m.slots \in SlotTable(s)
    BY DEF DeviceInv, Agree
  <2>6. slot \in Slots
    BY <2>3, <2>4, <2>5 DEF SlotTable
  <2>7. slot.place \in Int
    BY <2>6 DEF Slots
  <2>8. a \in VoicesOf(s) /\ SameSource(a, v) /\ IsOpen(a)
    BY <1>1, RestartedTyped
  <2>9. w = MovedVoice(a, t, slot.place)
    BY <1>3 DEF SwitchedVoice, slot
  <2> HIDE DEF a, v, w
  <2>10. w \in VoicesOf(s) /\ SameSource(w, a) /\ IsOpen(w)
    BY <2>7, <2>8, <2>9, MovedTyped
  <2>11. SameSource(w, v)
    BY <2>8, <2>10 DEF SameSource
  <2> QED BY <1>3, <2>10, <2>11 DEF v, w
<1> QED BY <1>2, <1>3

\* x is the slot o, paused or no longer so.
SlotAs(x, o, entering) ==
    /\ x \in Slots
    /\ x.refcount = o.refcount
    /\ x.voice = o.voice
    /\ x.paused <=> entering

\* The pause of a slot keeps the voice it has, and what it was counted.
LEMMA SwitchedSlotTyped ==
    ASSUME NEW m, NEW s, DeviceInv(m, s), NEW t \in Nat, NEW entering, NEW which,
           \A type \in s.types : which[type] \subseteq Live(m, type),
           NEW type \in s.types, NEW k \in which[type]
    PROVE  SlotAs(SwitchedSlot(m, t, entering, which, type, k), m.slots[type][k], entering)
<1> DEFINE o == m.slots[type][k]
           x == SwitchedSlot(m, t, entering, which, type, k)
           v == m.voices[o.voice]
<1>1. /\ m.voices \in Seq(VoicesOf(s)) /\ m.slots \in SlotTable(s) /\ Holds(m.voices, m.slots, s)
  BY DEF DeviceInv, Agree
<1>2. k \in Used(m.slots, type) /\ k \in 1..MaxFoleyInstances
  BY DEF Live, Used
<1>3. o \in Slots
  BY <1>1, <1>2 DEF SlotTable
<1>4. o.voice \in DOMAIN m.voices
  BY <1>1, <1>2 DEF Holds
<1>5. v \in VoicesOf(s)
  BY <1>1, <1>4
<1>6. CASE entering
  <2> DEFINE p == Position(v, t)
  <2>1. p \in Int
    BY <1>5, PositionInt
  <2>2. x = [o EXCEPT !.paused = TRUE, !.place = p]
    BY <1>6 DEF SwitchedSlot, PausedSlot
  <2> DEFINE c == [o EXCEPT !.paused = TRUE]
  <2>3. x = [c EXCEPT !.place = p]
    BY <2>2
  <2> HIDE DEF o, p, x
  <2>4. c \in Slots /\ c.refcount = o.refcount /\ c.voice = o.voice /\ c.paused = TRUE
    BY <1>3 DEF Slots
  <2> HIDE DEF c
  <2>5. x \in Slots /\ x.refcount = c.refcount /\ x.voice = c.voice /\ x.paused = TRUE
    BY <2>1, <2>3, <2>4 DEF Slots
  <2>6. SlotAs(x, o, entering)
    BY <1>6, <2>4, <2>5 DEF SlotAs
  <2> QED BY <2>6 DEF o, x
<1>7. CASE ~entering
  <2>1. x = [o EXCEPT !.paused = FALSE]
    BY <1>7 DEF SwitchedSlot
  <2> HIDE DEF o, x
  <2>2. x \in Slots /\ x.refcount = o.refcount /\ x.voice = o.voice /\ x.paused = FALSE
    BY <1>3, <2>1 DEF Slots
  <2>3. SlotAs(x, o, entering)
    BY <1>7, <2>2 DEF SlotAs
  <2> QED BY <2>3 DEF o, x
<1> QED BY <1>6, <1>7

\* Every slot that is switched holds a voice no other slot holds, and follows it.
LEMMA DeviceSwitched ==
    ASSUME NEW m, NEW s, DeviceInv(m, s), NEW t \in Nat, NEW entering, NEW which,
           DOMAIN which = s.types, \A type \in s.types : which[type] \subseteq Live(m, type)
    PROVE  DeviceInv(Switched(m, t, entering, which), s)
<1> DEFINE voices == m.voices
           slots == m.slots
           V(i) == SwitchedVoice(m, t, entering, which, i)
           X(type, k) == SwitchedSlot(m, t, entering, which, type, k)
           v == [i \in DOMAIN voices |-> V(i)]
           x == [type \in s.types |-> [k \in 1..MaxFoleyInstances |-> X(type, k)]]
           n == Switched(m, t, entering, which)
           Hit(i) == \E type \in s.types : \E k \in which[type] : slots[type][k].voice = i
<1>1. /\ Agree(voices, slots, s) /\ voices \in Seq(VoicesOf(s)) /\ slots \in SlotTable(s)
      /\ Holds(voices, slots, s) /\ Apart(slots, s) /\ Owned(voices, slots, s)
  BY DEF DeviceInv, Agree
<1>2. DOMAIN slots = s.types
  BY <1>1 DEF SlotTable
<1>3. Rewrites(n, m, v, x)
  <2>1. n = [m EXCEPT !.slots = x, !.voices = v]
    BY <1>2 DEF Switched, SwitchedVoice, SwitchedSlot
  <2>2. Shaped(m)
    BY DEF DeviceInv
  <2> HIDE DEF v, x, n
  <2>3. /\ Shaped(n) /\ n.device = m.device /\ n.draws = m.draws /\ n.told = m.told
        /\ n.voices = v /\ n.slots = x
    BY <2>1, <2>2 DEF Shaped
  <2> QED BY <2>3 DEF Rewrites
<1>4. \A type \in s.types : which[type] \subseteq Used(slots, type)
  BY DEF Live, Used
<1>5. \A i : SlotOf(m, which, i) = {} <=> ~Hit(i)
  BY SlotOfIs
<1>6. \A i \in DOMAIN voices :
         /\ V(i) \in VoicesOf(s) /\ SameSource(V(i), voices[i])
         /\ ~Hit(i) => V(i) = voices[i]
         /\ Hit(i) => (IsOpen(V(i)) <=> ~entering)
  <2> TAKE i \in DOMAIN voices
  <2>1. voices[i] \in VoicesOf(s)
    BY <1>1
  <2>2. CASE ~Hit(i)
    <3>1. V(i) = voices[i]
      BY <1>5, <2>2 DEF SwitchedVoice
    <3> HIDE DEF V, voices, Hit
    <3> QED BY <2>1, <2>2, <3>1 DEF SameSource
  <2>3. CASE Hit(i)
    <3>1. SlotOf(m, which, i) # {}
      BY <1>5, <2>3
    <3>2. /\ V(i) \in VoicesOf(s) /\ SameSource(V(i), voices[i])
          /\ (IsOpen(V(i)) <=> ~entering)
      BY <3>1, SwitchedVoiceTyped
    <3> QED BY <2>3, <3>2
  <2> QED BY <2>2, <2>3
<1>7. \A type \in s.types : \A k \in 1..MaxFoleyInstances :
         /\ X(type, k) \in Slots
         /\ X(type, k).refcount = slots[type][k].refcount
         /\ X(type, k).voice = slots[type][k].voice
         /\ k \in which[type] => (X(type, k).paused <=> entering)
         /\ k \notin which[type] => X(type, k) = slots[type][k]
  <2> TAKE type \in s.types
  <2> TAKE k \in 1..MaxFoleyInstances
  <2>1. CASE k \in which[type]
    <3>1. SlotAs(X(type, k), slots[type][k], entering)
      BY <2>1, SwitchedSlotTyped
    <3> HIDE DEF slots, X
    <3> QED BY <2>1, <3>1 DEF SlotAs
  <2>2. CASE k \notin which[type]
    <3>1. X(type, k) = slots[type][k]
      BY <2>2 DEF SwitchedSlot
    <3>2. slots[type][k] \in Slots
      BY <1>1 DEF SlotTable
    <3> QED BY <2>2, <3>1, <3>2
  <2> QED BY <2>1, <2>2
<1> HIDE DEF V, X
<1>8. /\ v = [i \in DOMAIN voices |-> v[i]] /\ DOMAIN v = DOMAIN voices
      /\ \A i \in DOMAIN voices : v[i] = V(i)
  OBVIOUS
<1>9. \A type \in s.types : \A k \in 1..MaxFoleyInstances : x[type][k] = X(type, k)
  OBVIOUS
<1>10. x \in SlotTable(s)
  BY <1>7 DEF SlotTable
<1> HIDE DEF voices, slots, v, x, n, Hit
<1>11. v \in Seq(VoicesOf(s))
  BY <1>1, <1>6, <1>8, SameIndices
<1>12. \A type \in s.types : \A k \in 1..MaxFoleyInstances : k \in Used(x, type) <=> k \in Used(slots, type)
  BY <1>7, <1>9 DEF Used
<1>13. \A type \in s.types : \A k \in Used(slots, type) :
          k \notin which[type] => ~Hit(slots[type][k].voice)
  <2> SUFFICES ASSUME NEW type \in s.types, NEW k \in Used(slots, type), k \notin which[type],
                      NEW u \in s.types, NEW l \in which[u], slots[u][l].voice = slots[type][k].voice
               PROVE  FALSE
    BY DEF Hit
  <2>1. l \in Used(slots, u)
    BY <1>4
  <2>2. u = type /\ l = k
    BY <1>1, <2>1 DEF Apart
  <2> QED BY <2>2
<1>14. Keeps(v, x, slots, s)
  <2> SUFFICES ASSUME NEW type \in s.types, NEW k \in Used(x, type)
               PROVE  /\ k \in Used(slots, type)
                      /\ x[type][k].voice = slots[type][k].voice
                      /\ v[x[type][k].voice].released = FALSE
                      /\ v[x[type][k].voice].type = type
                      /\ x[type][k].paused = ~IsOpen(v[x[type][k].voice])
    BY DEF Keeps
  <2> DEFINE i == slots[type][k].voice
  <2>1. k \in 1..MaxFoleyInstances /\ k \in Used(slots, type)
    BY <1>12 DEF Used
  <2>2. /\ i \in DOMAIN voices /\ voices[i].released = FALSE /\ voices[i].type = type
        /\ slots[type][k].paused = ~IsOpen(voices[i])
    BY <1>1, <2>1 DEF Holds
  <2>3. x[type][k].voice = i /\ v[i] = V(i)
    BY <1>7, <1>8, <1>9, <2>1, <2>2
  <2>4. V(i).released = FALSE /\ V(i).type = type
    BY <1>6, <2>2 DEF SameSource
  <2>5. x[type][k].paused = ~IsOpen(V(i))
    <3>1. CASE k \in which[type]
      <4>1. Hit(i)
        BY <3>1 DEF Hit
      <4>2. x[type][k] \in Slots /\ (x[type][k].paused <=> entering)
        BY <1>7, <1>9, <2>1, <3>1
      <4>3. IsOpen(V(i)) <=> ~entering
        BY <1>6, <2>2, <4>1
      <4>4. x[type][k].paused \in BOOLEAN
        BY <4>2 DEF Slots
      <4> QED BY <4>2, <4>3, <4>4
    <3>2. CASE k \notin which[type]
      <4>1. V(i) = voices[i]
        BY <1>6, <1>13, <2>1, <2>2, <3>2
      <4>2. x[type][k] = slots[type][k]
        BY <1>7, <1>9, <2>1, <3>2
      <4> QED BY <2>2, <4>1, <4>2
    <3> QED BY <3>1, <3>2
  <2> QED BY <2>1, <2>3, <2>4, <2>5
<1>15. NoneRevived(v, voices)
  BY <1>6, <1>8 DEF NoneRevived, SameSource
<1>16. Owned(v, x, s)
  <2> SUFFICES ASSUME NEW i \in DOMAIN voices, v[i].released = FALSE, IsOpen(v[i])
               PROVE  \E type \in s.types : \E k \in Used(x, type) : x[type][k].voice = i
    BY <1>8 DEF Owned
  <2>1. CASE Hit(i)
    <3>1. PICK type \in s.types : \E k \in which[type] : slots[type][k].voice = i
      BY <2>1 DEF Hit
    <3>2. PICK k \in which[type] : slots[type][k].voice = i
      BY <3>1
    <3>3. k \in Used(slots, type) /\ k \in 1..MaxFoleyInstances
      BY <1>4 DEF Used
    <3> QED BY <1>7, <1>9, <1>12, <3>2, <3>3
  <2>2. CASE ~Hit(i)
    <3>1. v[i] = voices[i]
      BY <1>6, <1>8, <2>2
    <3>2. PICK type \in s.types : \E k \in Used(slots, type) : slots[type][k].voice = i
      BY <1>1, <3>1 DEF Owned
    <3>3. PICK k \in Used(slots, type) : slots[type][k].voice = i
      BY <3>2
    <3>4. k \in 1..MaxFoleyInstances
      BY DEF Used
    <3> QED BY <1>7, <1>9, <1>12, <3>3, <3>4
  <2> QED BY <2>1, <2>2
<1>17. Agree(v, x, s)
  <2>1. DOMAIN v = DOMAIN voices
    BY <1>8
  <2> QED BY <1>1, <1>10, <1>11, <1>14, <1>15, <1>16, <2>1, StillAgree
<1>18. DeviceInv(n, s)
  BY <1>3, <1>17, DeviceRewritten
<1> QED BY <1>18 DEF n

\* A pause, or its end, switches the slots of the types that are muted.
LEMMA DevicePause ==
    ASSUME NEW m, NEW s, DeviceInv(m, s), NEW t \in Nat, NEW entering
    PROVE  DeviceInv(GamePause(m, s, t, entering), s)
<1> DEFINE r == ReleaseFinished(m, t)
           w == WatchPause(r.watcher, s, t, entering)
           n == [r EXCEPT !.watcher = w]
           which == Affected(n, s, entering)
           outcome == IF entering THEN "pause" ELSE "unpause"
<1>1. DeviceInv(r, s)
  BY DeviceReleased
<1>2. GamePause(m, s, t, entering) = Tell(Switched(n, t, entering, which), t, Nothing, outcome)
  BY DEF GamePause
<1> HIDE DEF r, w
<1>3. DeviceInv(n, s)
  BY <1>1, DeviceWatched
<1> HIDE DEF n
<1>4. DOMAIN which = s.types /\ \A type \in s.types : which[type] \subseteq Live(n, type)
  BY DEF Affected, Muted
<1> HIDE DEF which, outcome
<1>5. DeviceInv(Switched(n, t, entering, which), s)
  BY <1>3, <1>4, DeviceSwitched
<1> QED BY <1>2, <1>5, DeviceTold

-----------------------------------------------------------------------------
(* The machine that reads a mixer back: the stream *)

SlotsInv ==
    /\ scape \in Soundscapes
    /\ tick \in Nat
    /\ DeviceInv(feedback, scape)

\* A new machine has no slot in use and no voice.
LEMMA SlotsInit == Init => SlotsInv
<1> SUFFICES ASSUME Init PROVE SlotsInv
  OBVIOUS
<1> DEFINE slots == FreeSlots(scape)
<1>1. scape \in Soundscapes /\ tick = 0 /\ feedback = NewMachine("feedback", scape, "off")
  BY DEF Init
<1>2. /\ Shaped(feedback) /\ feedback.device = "feedback" /\ feedback.draws = 0 /\ feedback.told = 0
      /\ feedback.voices = <<>> /\ feedback.slots = slots
  BY <1>1 DEF NewMachine, Shaped, FreeSlots
<1>3. slots \in SlotTable(scape)
  BY DEF SlotTable, Slots, FreeSlots, FreeSlot, NoVoice
<1>4. \A type \in scape.types : Used(slots, type) = {}
  BY DEF Used, FreeSlots, FreeSlot
<1> HIDE DEF slots
<1>5. Holds(<<>>, slots, scape) /\ Apart(slots, scape) /\ Owned(<<>>, slots, scape)
  BY <1>4 DEF Holds, Apart, Owned
<1>6. HeldOf(<<>>) = {}
  BY DEF HeldOf
<1>7. Cardinality(HeldOf(<<>>)) <= MaxManagerChannels
  BY <1>6, FS_EmptySet, LimitsAssumption
<1>8. Agree(<<>>, slots, scape)
  BY <1>3, <1>5, <1>7 DEF Agree
<1> QED BY <1>1, <1>2, <1>8 DEF SlotsInv, DeviceInv

\* Every step keeps the slots and the voices in agreement.
LEMMA SlotsNext == ASSUME SlotsInv, [Next]_vars PROVE SlotsInv'
<1> DEFINE m == feedback
<1>1. scape \in Soundscapes /\ tick \in Nat /\ DeviceInv(m, scape)
  BY DEF SlotsInv
<1>2. CASE Play
  <2>1. PICK type \in scape.types, pitch \in DOMAIN PitchRate :
           Acted(LAMBDA x : PlayFoley(x, scape, tick, type, pitch))
    BY <1>2 DEF Play
  <2>2. feedback' = PlayFoley(m, scape, tick, type, pitch) /\ scape' = scape /\ tick' = tick
    BY <2>1 DEF Acted
  <2>3. DeviceInv(PlayFoley(m, scape, tick, type, pitch), scape)
    BY <1>1, DevicePlay
  <2> QED BY <1>1, <2>2, <2>3 DEF SlotsInv
<1>3. CASE Stop
  <2>1. PICK type \in scape.types : Acted(LAMBDA x : StopFoley(x, scape, tick, type))
    BY <1>3 DEF Stop
  <2>2. feedback' = StopFoley(m, scape, tick, type) /\ scape' = scape /\ tick' = tick
    BY <2>1 DEF Acted
  <2>3. DeviceInv(StopFoley(m, scape, tick, type), scape)
    BY <1>1, DeviceStop
  <2> QED BY <1>1, <2>2, <2>3 DEF SlotsInv
<1>4. CASE Pause
  <2>1. PICK entering \in BOOLEAN : Acted(LAMBDA x : GamePause(x, scape, tick, entering))
    BY <1>4 DEF Pause
  <2>2. feedback' = GamePause(m, scape, tick, entering) /\ scape' = scape /\ tick' = tick
    BY <2>1 DEF Acted
  <2>3. DeviceInv(GamePause(m, scape, tick, entering), scape)
    BY <1>1, DevicePause
  <2> QED BY <1>1, <2>2, <2>3 DEF SlotsInv
<1>5. CASE Cancel \/ Query
  <2>1. /\ feedback' = CancelPaused(m, tick) \/ feedback' = Asked(m, tick)
        /\ scape' = scape /\ tick' = tick
    BY <1>5 DEF Cancel, Query, Acted
  <2>2. DeviceInv(CancelPaused(m, tick), scape)
    BY <1>1, DeviceCancelled
  <2>3. DeviceInv(Asked(m, tick), scape)
    BY <1>1, DeviceReleased DEF Asked
  <2> QED BY <1>1, <2>1, <2>2, <2>3 DEF SlotsInv
<1>6. CASE EndTick \/ Render \/ UNCHANGED vars
  <2>1. feedback' = feedback /\ scape' = scape /\ (tick' = tick \/ tick' = tick + 1)
    BY <1>6 DEF EndTick, Render, vars
  <2> QED BY <1>1, <2>1 DEF SlotsInv
<1> QED BY <1>2, <1>3, <1>4, <1>5, <1>6 DEF Next

\* A slot in use holds a voice of its type that no other slot holds and that was not
\* released; an open voice that is held is some slot's; and the device never holds more
\* voices than it has channels (FoleyMachine behind TickVirtualDevice).
THEOREM SlotsAgree == Spec => []SlotsHold
<1>1. SlotsInv => SlotsHold
  <2> SUFFICES ASSUME SlotsInv PROVE SlotsHold
    OBVIOUS
  <2> DEFINE voices == feedback.voices
             slots == feedback.slots
  <2>1. /\ voices \in Seq(VoicesOf(scape)) /\ slots \in SlotTable(scape)
        /\ Holds(voices, slots, scape) /\ Apart(slots, scape) /\ Owned(voices, slots, scape)
        /\ Cardinality(HeldOf(voices)) <= MaxManagerChannels
    BY DEF SlotsInv, DeviceInv, Agree
  <2>2. HeldOf(voices) = Held(feedback)
    <3>1. \A i \in DOMAIN voices : voices[i].released \in BOOLEAN
      <4> TAKE i \in DOMAIN voices
      <4>1. voices[i] \in VoicesOf(scape)
        BY <2>1
      <4> QED BY <4>1 DEF VoicesOf
    <3> QED BY <3>1 DEF HeldOf, Held
  <2>3. \A s \in InUse : s = <<s[1], s[2]>> /\ s[1] \in scape.types /\ s[2] \in Used(slots, s[1])
    BY DEF InUse, Used
  <2>4. \A type \in scape.types : \A k \in Used(slots, type) : <<type, k>> \in InUse
    BY DEF InUse, Used
  <2>5. ASSUME NEW s \in InUse
        PROVE  /\ VoiceOf(s) \in Held(feedback)
               /\ voices[VoiceOf(s)].type = s[1]
               /\ slots[s[1]][s[2]].paused = ~IsOpen(voices[VoiceOf(s)])
               /\ \A r \in InUse : VoiceOf(r) = VoiceOf(s) => r = s
    <3> DEFINE i == slots[s[1]][s[2]].voice
    <3>1. VoiceOf(s) = i
      BY DEF VoiceOf
    <3>2. /\ i \in DOMAIN voices /\ voices[i].released = FALSE /\ voices[i].type = s[1]
          /\ slots[s[1]][s[2]].paused = ~IsOpen(voices[i])
      BY <2>1, <2>3 DEF Holds
    <3>3. i \in Held(feedback)
      BY <2>2, <3>2 DEF HeldOf
    <3>4. ASSUME NEW r \in InUse, VoiceOf(r) = VoiceOf(s) PROVE r = s
      <4>1. slots[r[1]][r[2]].voice = slots[s[1]][s[2]].voice
        BY <3>4 DEF VoiceOf
      <4>2. r[1] = s[1] /\ r[2] = s[2]
        BY <2>1, <2>3, <4>1 DEF Apart
      <4> QED BY <2>3, <4>2
    <3> QED BY <3>1, <3>2, <3>3, <3>4
  <2>6. ASSUME NEW i \in Held(feedback), IsOpen(voices[i])
        PROVE  \E s \in InUse : VoiceOf(s) = i
    <3>1. i \in DOMAIN voices /\ voices[i].released = FALSE
      BY <2>2 DEF HeldOf
    <3>2. PICK type \in scape.types : \E k \in Used(slots, type) : slots[type][k].voice = i
      BY <2>1, <2>6, <3>1 DEF Owned
    <3>3. PICK k \in Used(slots, type) : slots[type][k].voice = i
      BY <3>2
    <3>4. <<type, k>> \in InUse /\ VoiceOf(<<type, k>>) = i
      BY <2>4, <3>3 DEF VoiceOf
    <3> QED BY <3>4
  <2> QED BY <2>1, <2>2, <2>5, <2>6 DEF SlotsHold
<1> QED BY <1>1, SlotsInit, SlotsNext, PTL DEF Spec

-----------------------------------------------------------------------------
(* Least and greatest numbers *)

\* What holds of zero and of each number's successor holds up to a bound.
LEMMA UpTo ==
    ASSUME NEW n \in Nat, NEW S, 0 \in S, \A k \in 0..(n - 1) : k \in S => (k + 1) \in S
    PROVE  \A k \in 0..n : k \in S
<1> DEFINE Out == {k \in 0..n : k \notin S}
<1>1. SUFFICES ASSUME Out # {} PROVE FALSE
  OBVIOUS
<1>2. Out \subseteq Nat
  OBVIOUS
<1>3. PICK x \in Out : \A y \in Out : ~(<<y, x>> \in OpToRel(<, Nat))
  BY <1>1, <1>2, NatLessThanWellFounded, WFMin
<1>4. x \in 0..n /\ x \notin S /\ x # 0
  OBVIOUS
<1>5. x - 1 \in 0..(n - 1) /\ x - 1 \in Nat /\ x \in Nat /\ x - 1 < x
  BY <1>4
<1>6. x - 1 \notin Out
  BY <1>3, <1>5 DEF OpToRel
<1>7. x - 1 \in S
  BY <1>5, <1>6
<1>8. (x - 1) + 1 \in S
  BY <1>5, <1>7
<1> QED BY <1>4, <1>5, <1>8

\* The least of some numbers is one of them and none is less.
LEMMA LeastIs ==
    ASSUME NEW S, S \subseteq Int, NEW x \in S, \A y \in S : x <= y
    PROVE  LeastIn(S) = x
<1>1. LeastIn(S) \in S /\ \A y \in S : LeastIn(S) <= y
  BY DEF LeastIn
<1>2. LeastIn(S) <= x /\ x <= LeastIn(S) /\ LeastIn(S) \in Int /\ x \in Int
  BY <1>1
<1> QED BY <1>2

\* Naturals have a least.
LEMMA LeastNat ==
    ASSUME NEW S, S \subseteq Nat, S # {}
    PROVE  LeastIn(S) \in S /\ \A y \in S : LeastIn(S) <= y
<1>1. FirstOf(S) \in S
  BY FirstMember
<1>2. PICK x \in S : \A y \in S : ~(<<y, x>> \in OpToRel(<, Nat))
  BY NatLessThanWellFounded, WFMin
<1>3. ASSUME NEW y \in S PROVE x <= y
  <2>1. x \in Nat /\ y \in Nat /\ ~(y < x)
    BY <1>2 DEF OpToRel
  <2> QED BY <2>1
<1> QED BY <1>3 DEF LeastIn

\* Naturals that do not pass a bound have a greatest.
LEMMA GreatestNat ==
    ASSUME NEW S, S \subseteq Nat, S # {}, NEW b \in Nat, \A x \in S : x <= b
    PROVE  GreatestIn(S) \in S /\ \A y \in S : GreatestIn(S) >= y
<1> DEFINE T == {b - x : x \in S}
<1>1. T \subseteq Nat /\ T # {}
  <2>1. \A x \in S : b - x \in Nat
    OBVIOUS
  <2>2. PICK x \in S : TRUE
    OBVIOUS
  <2>3. b - x \in T
    BY <2>2
  <2> QED BY <2>1, <2>3
<1> HIDE DEF T
<1>2. LeastIn(T) \in T /\ \A y \in T : LeastIn(T) <= y
  BY <1>1, LeastNat
<1>3. PICK x \in S : LeastIn(T) = b - x
  BY <1>2 DEF T
<1>4. ASSUME NEW y \in S PROVE x >= y
  <2>1. b - y \in T
    BY DEF T
  <2>2. b - x <= b - y /\ x \in Nat /\ y \in Nat
    BY <1>2, <1>3, <2>1
  <2> QED BY <2>2
<1> QED BY <1>4 DEF GreatestIn

\* Finitely many naturals do not pass some bound.
LEMMA Bounded ==
    ASSUME NEW n \in Nat, NEW f, \A i \in 1..n : f[i] \in Nat
    PROVE  \E b \in Nat : \A i \in 1..n : f[i] <= b
<1> DEFINE S == {k \in 0..n : \E b \in Nat : \A i \in 1..k : f[i] <= b}
<1>1. 0 \in S
  <2>1. \A i \in 1..0 : f[i] <= 0
    OBVIOUS
  <2> QED BY <2>1
<1>2. ASSUME NEW k \in 0..(n - 1), k \in S PROVE k + 1 \in S
  <2>1. PICK b \in Nat : \A i \in 1..k : f[i] <= b
    BY <1>2
  <2>2. k + 1 \in 1..n /\ k + 1 \in 0..n
    OBVIOUS
  <2> DEFINE c == f[k + 1]
  <2>3. c \in Nat
    BY <2>2
  <2>4. ASSUME NEW i \in 1..(k + 1) PROVE f[i] <= b + c
    <3>1. CASE i = k + 1
      BY <2>3, <3>1
    <3>2. CASE i # k + 1
      <4>1. i \in 1..k /\ i \in 1..n
        BY <3>2
      <4>2. f[i] <= b /\ f[i] \in Nat
        BY <2>1, <4>1
      <4> HIDE DEF c
      <4> QED BY <2>3, <4>2
    <3> QED BY <3>1, <3>2
  <2>5. b + c \in Nat
    BY <2>3
  <2> QED BY <2>2, <2>4, <2>5
<1>3. n \in S
  <2> HIDE DEF S
  <2>1. \A k \in 0..n : k \in S
    BY <1>1, <1>2, UpTo
  <2> QED BY <2>1
<1> QED BY <1>3

-----------------------------------------------------------------------------
(* Folds over a sequence *)

\* The greatest of a part of 1..n.
LEMMA GreatestOf ==
    ASSUME NEW n \in Nat, NEW S \in SUBSET (1..(n + 1)), n + 1 \in S
    PROVE  Max(S) = n + 1
<1>1. \A y \in S : n + 1 >= y
  OBVIOUS
<1>2. Max(S) \in S /\ \A y \in S : Max(S) >= y
  BY <1>1 DEF Max
<1>3. Max(S) \in 1..(n + 1) /\ Max(S) >= n + 1
  BY <1>2
<1> DEFINE x == Max(S)
<1> HIDE DEF x
<1>4. x \in 1..(n + 1) /\ x >= n + 1
  BY <1>3 DEF x
<1>5. x = n + 1
  BY <1>4
<1> QED BY <1>5 DEF x

\* The fold that mixes a stream of events again.
Mixing(g, n, events, s, policy) ==
    g = [S \in SUBSET (1..n) |->
            IF S = {} THEN Watcher(policy) ELSE Heard(g[S \ {Max(S)}], s, events[Max(S)])]

\* There is such a fold.
LEMMA MixingExists ==
    ASSUME NEW n \in Nat, NEW events, NEW s, NEW policy
    PROVE  \E g : Mixing(g, n, events, s, policy)
<1> DEFINE K == {k \in 0..n : \E g : Mixing(g, k, events, s, policy)}
<1>1. 0 \in K
  <2> DEFINE g == [S \in SUBSET (1..0) |-> Watcher(policy)]
  <2>1. g = [S \in SUBSET (1..0) |->
            IF S = {} THEN Watcher(policy) ELSE Heard(g[S \ {Max(S)}], s, events[Max(S)])]
    <3>1. \A S \in SUBSET (1..0) : S = {}
      OBVIOUS
    <3> QED BY <3>1
  <2> HIDE DEF g
  <2>2. Mixing(g, 0, events, s, policy)
    BY <2>1 DEF Mixing
  <2> QED BY <2>2
<1>2. ASSUME NEW k \in 0..(n - 1), k \in K PROVE k + 1 \in K
  <2>1. PICK g : Mixing(g, k, events, s, policy)
    BY <1>2
  <2> DEFINE h == [S \in SUBSET (1..(k + 1)) |->
                     IF k + 1 \in S THEN Heard(g[S \ {k + 1}], s, events[k + 1]) ELSE g[S]]
  <2>2. ASSUME NEW S \in SUBSET (1..(k + 1))
        PROVE  h[S] = IF S = {} THEN Watcher(policy) ELSE Heard(h[S \ {Max(S)}], s, events[Max(S)])
    <3>1. CASE k + 1 \in S
      <4>1. Max(S) = k + 1
        BY <3>1, GreatestOf
      <4>2. S \ {k + 1} \in SUBSET (1..(k + 1)) /\ k + 1 \notin S \ {k + 1} /\ S # {}
        BY <3>1
      <4>3. h[S \ {k + 1}] = g[S \ {k + 1}]
        BY <4>2
      <4>4. h[S] = Heard(g[S \ {k + 1}], s, events[k + 1])
        BY <3>1
      <4> QED BY <4>1, <4>2, <4>3, <4>4
    <3>2. CASE k + 1 \notin S
      <4>1. S \in SUBSET (1..k)
        BY <3>2
      <4>2. g[S] = IF S = {} THEN Watcher(policy) ELSE Heard(g[S \ {Max(S)}], s, events[Max(S)])
        BY <2>1, <4>1 DEF Mixing
      <4> DEFINE R == S \ {Max(S)}
      <4>3. R \in SUBSET (1..(k + 1)) /\ k + 1 \notin R
        BY <3>2
      <4> HIDE DEF R
      <4>4. h[R] = g[R] /\ h[S] = g[S]
        BY <3>2, <4>3
      <4> HIDE DEF h
      <4> QED BY <4>2, <4>4 DEF R
    <3> QED BY <3>1, <3>2
  <2>3. h = [S \in SUBSET (1..(k + 1)) |->
               IF S = {} THEN Watcher(policy) ELSE Heard(h[S \ {Max(S)}], s, events[Max(S)])]
    <3>1. h = [S \in SUBSET (1..(k + 1)) |-> h[S]]
      OBVIOUS
    <3> HIDE DEF h
    <3> QED BY <2>2, <3>1
  <2> HIDE DEF h
  <2>4. Mixing(h, k + 1, events, s, policy)
    BY <2>3 DEF Mixing
  <2> QED BY <2>4
<1>3. n \in K
  <2> HIDE DEF K
  <2>1. \A k \in 0..n : k \in K
    BY <1>1, <1>2, UpTo
  <2> QED BY <2>1
<1> QED BY <1>3

\* Two streams that begin alike are mixed alike so far.
LEMMA MixingAgree ==
    ASSUME NEW n \in Nat, NEW m \in Nat, n <= m, NEW events, NEW more, NEW s, NEW policy,
           \A i \in 1..n : more[i] = events[i],
           NEW g, Mixing(g, n, events, s, policy), NEW h, Mixing(h, m, more, s, policy)
    PROVE  h[1..n] = g[1..n]
<1> DEFINE K == {k \in 0..n : h[1..k] = g[1..k]}
<1>1. 0 \in K
  <2>1. 1..0 = {} /\ {} \in SUBSET (1..n) /\ {} \in SUBSET (1..m)
    OBVIOUS
  <2>2. g[{}] = Watcher(policy) /\ h[{}] = Watcher(policy)
    BY <2>1 DEF Mixing
  <2> QED BY <2>1, <2>2
<1>2. ASSUME NEW k \in 0..(n - 1), k \in K PROVE k + 1 \in K
  <2> DEFINE S == 1..(k + 1)
  <2>1. S \in SUBSET (1..n) /\ S \in SUBSET (1..m) /\ S # {} /\ S \ {k + 1} = 1..k /\ k + 1 \in 1..n
        /\ k + 1 \in S
    OBVIOUS
  <2>2. Max(S) = k + 1
    <3>1. k \in Nat
      OBVIOUS
    <3> QED BY <2>1, <3>1, GreatestOf
  <2> HIDE DEF S
  <2>3. g[S] = Heard(g[1..k], s, events[k + 1]) /\ h[S] = Heard(h[1..k], s, more[k + 1])
    BY <2>1, <2>2 DEF Mixing
  <2>4. h[S] = g[S]
    BY <1>2, <2>1, <2>3
  <2> QED BY <2>4 DEF S
<1>3. n \in K
  <2> HIDE DEF K
  <2>1. \A k \in 0..n : k \in K
    BY <1>1, <1>2, UpTo
  <2> QED BY <2>1
<1> QED BY <1>3

\* The fold mixes event by event.
LEMMA RemixedIs ==
    ASSUME NEW events, NEW n \in Nat, DOMAIN events = 1..n, NEW s, NEW policy
    PROVE  \E g : Mixing(g, n, events, s, policy) /\ Remixed(events, s, policy) = g[1..n]
<1>1. Remixed(events, s, policy) =
        (CHOOSE g : g = [S \in SUBSET DOMAIN events |->
            IF S = {} THEN Watcher(policy) ELSE Heard(g[S \ {Max(S)}], s, events[Max(S)])])[DOMAIN events]
  BY DEF Remixed, FoldLeft, MapThenFoldSet
<1>2. PICK f : Mixing(f, n, events, s, policy)
  BY MixingExists
<1>3. Mixing(CHOOSE g : g = [S \in SUBSET DOMAIN events |->
            IF S = {} THEN Watcher(policy) ELSE Heard(g[S \ {Max(S)}], s, events[Max(S)])], n, events, s, policy)
  BY <1>2 DEF Mixing
<1> QED BY <1>1, <1>3

\* No event mixes nothing, and one more event is heard after the others.
LEMMA RemixedNext ==
    ASSUME NEW E, NEW events \in Seq(E), NEW e \in E, NEW s, NEW policy
    PROVE  /\ Remixed(<<>>, s, policy) = Watcher(policy)
           /\ Remixed(Append(events, e), s, policy) = Heard(Remixed(events, s, policy), s, e)
<1> DEFINE n == Len(events)
           more == Append(events, e)
<1>1. /\ n \in Nat /\ DOMAIN events = 1..n /\ DOMAIN more = 1..(n + 1)
      /\ \A i \in 1..n : more[i] = events[i]
      /\ more[n + 1] = e
  OBVIOUS
<1> HIDE DEF n, more
<1>2. PICK g : Mixing(g, n, events, s, policy) /\ Remixed(events, s, policy) = g[1..n]
  BY <1>1, RemixedIs
<1>3. PICK h : Mixing(h, n + 1, more, s, policy) /\ Remixed(more, s, policy) = h[1..(n + 1)]
  BY <1>1, RemixedIs
<1>4. h[1..n] = g[1..n]
  BY <1>1, <1>2, <1>3, MixingAgree
<1> DEFINE S == 1..(n + 1)
<1>5. S \in SUBSET (1..(n + 1)) /\ S # {} /\ S \ {n + 1} = 1..n /\ n + 1 \in S
  <2>1. n \in Nat
    BY <1>1
  <2> QED BY ONLY <2>1
<1>6. Max(S) = n + 1
  BY <1>1, <1>5, GreatestOf
<1> HIDE DEF S
<1>7. h[S] = Heard(h[1..n], s, more[n + 1])
  BY <1>3, <1>5, <1>6 DEF Mixing
<1>8. Remixed(more, s, policy) = Heard(Remixed(events, s, policy), s, e)
  BY <1>1, <1>2, <1>3, <1>4, <1>7 DEF S
<1>9. Remixed(<<>>, s, policy) = Watcher(policy)
  <2> DEFINE none == <<>>
  <2>1. DOMAIN none = 1..0 /\ 0 \in Nat
    OBVIOUS
  <2> HIDE DEF none
  <2>2. PICK f : Mixing(f, 0, none, s, policy) /\ Remixed(none, s, policy) = f[1..0]
    BY <2>1, RemixedIs
  <2>3. 1..0 = {} /\ {} \in SUBSET (1..0)
    OBVIOUS
  <2>4. f[{}] = Watcher(policy)
    BY <2>2, <2>3 DEF Mixing
  <2> QED BY <2>2, <2>3, <2>4 DEF none
<1> QED BY <1>8, <1>9 DEF more

-----------------------------------------------------------------------------
(* The parts of a voice *)

\* The part a segment leaves in a track of a given end, and whether it leaves one.
PartAt(v, n, end) == Part(v, v.segs[n], PartEnd(v, v.segs[n], end))
Lasting(v, end) == {n \in 1..Len(v.segs) : ~(PartEnd(v, v.segs[n], end) < v.segs[n].start)}
Made(v, end) == {PartAt(v, n, end) : n \in Lasting(v, end)}

\* The parts after one more segment.
Laying(parts, v, n, end) ==
    IF PartEnd(v, v.segs[n], end) < v.segs[n].start THEN parts ELSE Append(parts, PartAt(v, n, end))

\* The fold that lays the first n segments.
LaysOut(g, n, v, end) ==
    g = [S \in SUBSET (1..n) |-> IF S = {} THEN <<>> ELSE Laying(g[S \ {Max(S)}], v, Max(S), end)]

\* There is such a fold.
LEMMA LaysOutExists ==
    ASSUME NEW n \in Nat, NEW v, NEW end
    PROVE  \E g : LaysOut(g, n, v, end)
<1> DEFINE K == {k \in 0..n : \E g : LaysOut(g, k, v, end)}
<1>1. 0 \in K
  <2> DEFINE g == [S \in SUBSET (1..0) |-> <<>>]
  <2>1. g = [S \in SUBSET (1..0) |-> IF S = {} THEN <<>> ELSE Laying(g[S \ {Max(S)}], v, Max(S), end)]
    <3>1. \A S \in SUBSET (1..0) : S = {}
      OBVIOUS
    <3> QED BY <3>1
  <2> HIDE DEF g
  <2>2. LaysOut(g, 0, v, end)
    BY <2>1 DEF LaysOut
  <2> QED BY <2>2
<1>2. ASSUME NEW k \in 0..(n - 1), k \in K PROVE k + 1 \in K
  <2>1. PICK g : LaysOut(g, k, v, end)
    BY <1>2
  <2> DEFINE h == [S \in SUBSET (1..(k + 1)) |->
                     IF k + 1 \in S THEN Laying(g[S \ {k + 1}], v, k + 1, end) ELSE g[S]]
  <2>2. ASSUME NEW S \in SUBSET (1..(k + 1))
        PROVE  h[S] = IF S = {} THEN <<>> ELSE Laying(h[S \ {Max(S)}], v, Max(S), end)
    <3>1. CASE k + 1 \in S
      <4>1. Max(S) = k + 1
        BY <3>1, GreatestOf
      <4>2. S \ {k + 1} \in SUBSET (1..(k + 1)) /\ k + 1 \notin S \ {k + 1} /\ S # {}
        BY <3>1
      <4>3. h[S \ {k + 1}] = g[S \ {k + 1}]
        BY <4>2
      <4>4. h[S] = Laying(g[S \ {k + 1}], v, k + 1, end)
        BY <3>1
      <4> QED BY <4>1, <4>2, <4>3, <4>4
    <3>2. CASE k + 1 \notin S
      <4>1. S \in SUBSET (1..k)
        BY <3>2
      <4>2. g[S] = IF S = {} THEN <<>> ELSE Laying(g[S \ {Max(S)}], v, Max(S), end)
        BY <2>1, <4>1 DEF LaysOut
      <4> DEFINE R == S \ {Max(S)}
      <4>3. R \in SUBSET (1..(k + 1)) /\ k + 1 \notin R
        BY <3>2
      <4> HIDE DEF R
      <4>4. h[R] = g[R] /\ h[S] = g[S]
        BY <3>2, <4>3
      <4> HIDE DEF h
      <4> QED BY <4>2, <4>4 DEF R
    <3> QED BY <3>1, <3>2
  <2>3. h = [S \in SUBSET (1..(k + 1)) |-> IF S = {} THEN <<>> ELSE Laying(h[S \ {Max(S)}], v, Max(S), end)]
    <3>1. h = [S \in SUBSET (1..(k + 1)) |-> h[S]]
      OBVIOUS
    <3> HIDE DEF h
    <3> QED BY <2>2, <3>1
  <2> HIDE DEF h
  <2>4. LaysOut(h, k + 1, v, end)
    BY <2>3 DEF LaysOut
  <2> QED BY <2>4
<1>3. n \in K
  <2> HIDE DEF K
  <2>1. \A k \in 0..n : k \in K
    BY <1>1, <1>2, UpTo
  <2> QED BY <2>1
<1> QED BY <1>3

\* The fold lays a voice segment by segment.
LEMMA PartsFold ==
    ASSUME NEW v, NEW n \in Nat, DOMAIN v.segs = 1..n, NEW end
    PROVE  \E g : LaysOut(g, n, v, end) /\ Parts(v, end) = g[1..n]
<1>1. Parts(v, end) =
        (CHOOSE g : g = [S \in SUBSET DOMAIN v.segs |->
            IF S = {} THEN <<>> ELSE Laying(g[S \ {Max(S)}], v, Max(S), end)])[DOMAIN v.segs]
  BY DEF Parts, FoldLeft, MapThenFoldSet, Laying, PartAt
<1>2. PICK f : LaysOut(f, n, v, end)
  BY LaysOutExists
<1>3. LaysOut(CHOOSE g : g = [S \in SUBSET DOMAIN v.segs |->
            IF S = {} THEN <<>> ELSE Laying(g[S \ {Max(S)}], v, Max(S), end)], n, v, end)
  BY <1>2 DEF LaysOut
<1> QED BY <1>1, <1>3

\* The parts laid of the first k segments: one of each that lasts, the first in front.
LaidSoFar(parts, k, v, end) ==
    /\ parts \in Seq(Made(v, end)) /\ Len(parts) <= k
    /\ \A n \in Lasting(v, end) : n <= k => \E i \in 1..Len(parts) : parts[i] = PartAt(v, n, end)
    /\ 1 \in Lasting(v, end) /\ k >= 1 => Len(parts) > 0 /\ parts[1] = PartAt(v, 1, end)

\* A segment more is a part more, or none.
LEMMA LayingOne ==
    ASSUME NEW v, NEW end, Len(v.segs) \in Nat, NEW k \in 0..(Len(v.segs) - 1), NEW parts, LaidSoFar(parts, k, v, end)
    PROVE  LaidSoFar(Laying(parts, v, k + 1, end), k + 1, v, end)
<1> DEFINE made == Made(v, end)  lasting == Lasting(v, end)  p == PartAt(v, k + 1, end)  more == Append(parts, p)
           now == Laying(parts, v, k + 1, end)
<1>1. parts \in Seq(made) /\ k \in Nat /\ k + 1 \in 1..Len(v.segs) /\ Len(parts) \in Nat
  BY DEF LaidSoFar
<1>2. CASE k + 1 \notin lasting
  <2>1. now = parts
    BY <1>1, <1>2 DEF Laying, Lasting
  <2>2. \A n \in lasting : n <= k + 1 => n <= k
    BY <1>1, <1>2 DEF Lasting
  <2>3. 1 \in lasting /\ k + 1 >= 1 => k >= 1
    BY <1>1, <1>2
  <2>4. Len(parts) <= k + 1
    BY <1>1 DEF LaidSoFar
  <2> QED BY <1>1, <2>1, <2>2, <2>3, <2>4 DEF LaidSoFar
<1>3. CASE k + 1 \in lasting
  <2>1. now = more
    BY <1>1, <1>3 DEF Laying, Lasting
  <2>2. p \in made
    BY <1>3 DEF Made
  <2> HIDE DEF made, p, now
  <2>3. /\ more \in Seq(made) /\ Len(more) = Len(parts) + 1
        /\ more[Len(parts) + 1] = p /\ \A i \in 1..Len(parts) : more[i] = parts[i]
    BY <1>1, <2>2, AppendProperties
  <2> HIDE DEF more
  <2>4. ASSUME NEW n \in lasting, n <= k + 1
        PROVE  \E i \in 1..Len(more) : more[i] = PartAt(v, n, end)
    <3>1. CASE n = k + 1
      <4>1. Len(parts) + 1 \in 1..Len(more)
        BY <1>1, <2>3
      <4> QED BY <2>3, <3>1, <4>1 DEF p
    <3>2. CASE n # k + 1
      <4>1. n <= k
        BY <1>1, <2>4, <3>2 DEF Lasting
      <4>2. PICK i \in 1..Len(parts) : parts[i] = PartAt(v, n, end)
        BY <4>1 DEF LaidSoFar
      <4>3. i \in 1..Len(more)
        BY <1>1, <2>3
      <4> QED BY <2>3, <4>2, <4>3
    <3> QED BY <3>1, <3>2
  <2>5. ASSUME 1 \in lasting PROVE Len(more) > 0 /\ more[1] = PartAt(v, 1, end)
    <3>1. CASE k = 0
      <4>1. Len(parts) = 0
        BY <1>1, <3>1 DEF LaidSoFar
      <4> QED BY <2>3, <3>1, <4>1 DEF p
    <3>2. CASE k # 0
      <4>1. Len(parts) > 0 /\ parts[1] = PartAt(v, 1, end)
        BY <1>1, <2>5, <3>2 DEF LaidSoFar
      <4>2. 1 \in 1..Len(parts)
        BY <1>1, <4>1
      <4> QED BY <1>1, <2>3, <4>1, <4>2
    <3> QED BY <3>1, <3>2
  <2>6. Len(more) <= k + 1
    BY <1>1, <2>3 DEF LaidSoFar
  <2>7. more \in Seq(Made(v, end)) /\ \A n \in Lasting(v, end) : n <= k + 1 =>
                   \E i \in 1..Len(more) : more[i] = PartAt(v, n, end)
    BY <2>3, <2>4 DEF made
  <2>8. LaidSoFar(more, k + 1, v, end)
    BY ONLY <2>5, <2>6, <2>7 DEF LaidSoFar
  <2> QED BY <2>1, <2>8 DEF now
<1> QED BY <1>2, <1>3

\* The parts of a voice are those of its segments that last, the first in front.
LEMMA PartsLaid ==
    ASSUME NEW v, NEW X, v.segs \in Seq(X), NEW end
    PROVE  LaidSoFar(Parts(v, end), Len(v.segs), v, end)
<1> DEFINE n == Len(v.segs)
<1>1. n \in Nat /\ DOMAIN v.segs = 1..n
  OBVIOUS
<1> HIDE DEF n
<1>2. PICK g : LaysOut(g, n, v, end) /\ Parts(v, end) = g[1..n]
  BY <1>1, PartsFold
<1> DEFINE Good(k) == LaidSoFar(g[1..k], k, v, end)
           K == {k \in 0..n : Good(k)}
<1>3. 0 \in K
  <2>1. 1..0 = {} /\ {} \in SUBSET (1..n)
    OBVIOUS
  <2>2. g[1..0] = <<>>
    BY <1>2, <2>1 DEF LaysOut
  <2>3. LaidSoFar(<<>>, 0, v, end)
    <3> DEFINE none == <<>>
    <3>1. none \in Seq(Made(v, end)) /\ Len(none) = 0
      OBVIOUS
    <3> HIDE DEF none
    <3>2. \A m \in Lasting(v, end) : ~(m <= 0)
      BY DEF Lasting
    <3>3. LaidSoFar(none, 0, v, end)
      BY <3>1, <3>2 DEF LaidSoFar
    <3> QED BY <3>3 DEF none
  <2>4. Good(0)
    BY ONLY <2>2, <2>3
  <2>5. 0 \in 0..n
    BY <1>1
  <2> HIDE DEF Good
  <2> QED BY <2>4, <2>5
<1>4. ASSUME NEW k \in 0..(n - 1), k \in K PROVE k + 1 \in K
  <2> DEFINE S == 1..(k + 1)
  <2>0. n \in Nat /\ k \in Nat /\ k + 1 <= n
    BY <1>1
  <2>1. S \in SUBSET (1..n) /\ S # {} /\ S \ {k + 1} = 1..k /\ k + 1 \in S /\ k \in Nat
    <3>1. \A i : i \in S => i \in 1..n
      BY ONLY <2>0
    <3>2. \A i : i \in S \ {k + 1} <=> i \in 1..k
      BY ONLY <2>0
    <3>3. k + 1 \in S
      BY ONLY <2>0
    <3> HIDE DEF S
    <3>4. S \ {k + 1} = 1..k
      BY ONLY <3>2
    <3> QED BY ONLY <2>0, <3>1, <3>3, <3>4
  <2>2. S \in SUBSET (1..(k + 1))
    OBVIOUS
  <2>3. Max(S) = k + 1
    BY <2>1, <2>2, GreatestOf
  <2> HIDE DEF S
  <2>4. g[S] = Laying(g[1..k], v, k + 1, end)
    BY <1>2, <2>1, <2>3 DEF LaysOut
  <2>5. LaidSoFar(g[1..k], k, v, end)
    BY <1>4
  <2>6. LaidSoFar(Laying(g[1..k], v, k + 1, end), k + 1, v, end)
    BY <1>1, <2>5, LayingOne DEF n
  <2>7. k + 1 \in 0..n
    BY <1>1
  <2> QED BY <2>4, <2>6, <2>7 DEF S
<1>5. n \in K
  <2> HIDE DEF K
  <2>1. \A k \in 0..n : k \in K
    BY <1>1, <1>3, <1>4, UpTo
  <2> QED BY <1>1, <2>1
<1> QED BY <1>2, <1>5 DEF n

-----------------------------------------------------------------------------
(* When a voice is heard *)

\* A voice is heard at t when one of its segments runs then and has samples left.
Runs(v, x, t) ==
    /\ x.start <= t
    /\ x.end # Running => t < x.end
    /\ ~v.loop => t < NaturalEnd(v, x)

SoundsAt(v, t) == \E n \in 1..Len(v.segs) : Runs(v, v.segs[n], t)

\* Segments that began until t, the first before the others, and ended once they had begun;
\* only the last one may still run.
TimedSegs(q, t) ==
    /\ \A n \in 1..Len(q) :
          /\ q[1].start <= q[n].start
          /\ q[n].start <= t
          /\ q[n].end # Running => q[n].start <= q[n].end /\ q[n].end <= t
    /\ \A n \in 1..(Len(q) - 1) : q[n].end # Running

\* A voice that was stopped or paused does not run.
Timed(v, t) ==
    /\ TimedSegs(v.segs, t)
    /\ v.stopped \/ v.paused => Seg(v).end # Running

\* What a write at t leaves of a voice: what was heard before stays as it was.
Onward(w, v, t) ==
    /\ Timed(w, t)
    /\ \A u \in 0..(t - 1) : SoundsAt(w, u) <=> SoundsAt(v, u)

\* Voices of one source with the same segments are heard alike.
LEMMA SameHeard ==
    ASSUME NEW v, NEW w, SameSource(w, v), w.segs = v.segs
    PROVE  /\ Seg(w) = Seg(v)
           /\ \A u : SoundsAt(w, u) <=> SoundsAt(v, u)
<1>1. \A x, u : Runs(w, x, u) <=> Runs(v, x, u)
  BY DEF SameSource, Runs, NaturalEnd
<1> QED BY <1>1 DEF SoundsAt, Seg

\* The segments of a timed voice are typed.
LEMMA TimedTyped ==
    ASSUME NEW s, NEW v \in VoicesOf(s)
    PROVE  /\ Len(v.segs) \in Nat \ {0} /\ DOMAIN v.segs = 1..Len(v.segs)
           /\ Seg(v) = v.segs[Len(v.segs)]
           /\ \A n \in 1..Len(v.segs) :
                 /\ v.segs[n] \in Segments
                 /\ v.segs[n].start \in Nat
                 /\ v.segs[n].end = Running \/ v.segs[n].end \in Nat
<1>1. v.segs \in SegSeqs
  BY DEF VoicesOf
<1>2. /\ Len(v.segs) \in Nat \ {0} /\ Seg(v) = v.segs[Len(v.segs)]
      /\ \A n \in 1..Len(v.segs) : v.segs[n] \in Segments
  BY <1>1, LastSegment DEF Seg
<1>3. DOMAIN v.segs = 1..Len(v.segs)
  BY <1>1 DEF SegSeqs
<1> QED BY <1>2, <1>3 DEF Segments

\* A cut voice was heard as before.
LEMMA CutTimed ==
    ASSUME NEW s, NEW v \in VoicesOf(s), NEW t \in Nat, Timed(v, t)
    PROVE  /\ Cut(v, t) \in VoicesOf(s) /\ SameSource(Cut(v, t), v)
           /\ TimedSegs(Cut(v, t).segs, t)
           /\ Seg(Cut(v, t)).end # Running
           /\ \A u \in 0..(t - 1) : SoundsAt(Cut(v, t), u) <=> SoundsAt(v, u)
<1> DEFINE c == Cut(v, t)  l == Len(v.segs)
<1>1. /\ c \in VoicesOf(s) /\ SameSource(c, v)
      /\ IF Seg(v).end = Running /\ t >= Seg(v).start THEN EndedAt(c.segs, v.segs, t) ELSE c = v
  BY CutVoice
<1> HIDE DEF c
<1>2. /\ l \in Nat \ {0} /\ Seg(v) = v.segs[l]
      /\ \A n \in 1..l : /\ v.segs[n] \in Segments /\ v.segs[n].start \in Nat
                         /\ v.segs[n].end = Running \/ v.segs[n].end \in Nat
  BY TimedTyped
<1>3. Seg(v).start <= t
  BY <1>2 DEF Timed, TimedSegs
<1>4. CASE Seg(v).end # Running
  <2>1. c = v
    BY <1>1, <1>4
  <2> QED BY <1>1, <1>4, <2>1 DEF c, Timed
<1>5. CASE Seg(v).end = Running
  <2>1. EndedAt(c.segs, v.segs, t)
    <3>1. Seg(v).start \in Nat
      BY <1>2
    <3> QED BY <1>1, <1>3, <1>5, <3>1
  <2>2. /\ Len(c.segs) = l
        /\ \A n \in 1..(l - 1) : c.segs[n] = v.segs[n]
        /\ c.segs[l] = [v.segs[l] EXCEPT !.end = t]
    BY <2>1 DEF EndedAt
  <2>3. /\ c.segs[l].start = v.segs[l].start /\ c.segs[l].end = t
        /\ c.segs[l].offset = v.segs[l].offset /\ c.segs[l].rate = v.segs[l].rate
    BY <1>2, <2>2 DEF Segments
  <2>4. Seg(c) = c.segs[l]
    BY <1>1, <2>2, TimedTyped
  <2>5. t # Running
    BY DEF Running
  <2>6. \A n \in 1..l : n \in 1..(l - 1) \/ n = l
    BY <1>2
  <2>7. \A n \in 1..l : c.segs[n].start = v.segs[n].start
    BY <2>2, <2>3, <2>6
  <2>8. TimedSegs(c.segs, t)
    <3>1. ASSUME NEW n \in 1..l
          PROVE  /\ c.segs[1].start <= c.segs[n].start
                 /\ c.segs[n].start <= t
                 /\ c.segs[n].end # Running => c.segs[n].start <= c.segs[n].end /\ c.segs[n].end <= t
      <4>1. 1 \in 1..l
        BY <1>2
      <4>2. c.segs[1].start <= c.segs[n].start /\ c.segs[n].start <= t
        BY <2>7, <4>1 DEF Timed, TimedSegs
      <4>3. CASE n = l
        BY <2>3, <4>2, <4>3
      <4>4. CASE n \in 1..(l - 1)
        <5>1. c.segs[n] = v.segs[n]
          BY <2>2, <4>4
        <5> QED BY <4>2, <5>1 DEF Timed, TimedSegs
      <4> QED BY <2>6, <4>2, <4>3, <4>4
    <3>2. \A n \in 1..(l - 1) : c.segs[n].end # Running
      BY <2>2 DEF Timed, TimedSegs
    <3> QED BY <2>2, <3>1, <3>2 DEF TimedSegs
  <2>9. ASSUME NEW u \in 0..(t - 1), NEW n \in 1..l PROVE Runs(c, c.segs[n], u) <=> Runs(v, v.segs[n], u)
    <3>1. CASE n = l
      <4>1. NaturalEnd(c, c.segs[l]) = NaturalEnd(v, v.segs[l])
        BY <1>1, <2>3 DEF NaturalEnd, SameSource
      <4>2. u < t
        OBVIOUS
      <4>3. v.segs[l].end = Running /\ c.loop = v.loop
        BY <1>1, <1>2, <1>5 DEF SameSource
      <4> QED BY <2>3, <2>5, <3>1, <4>1, <4>2, <4>3 DEF Runs
    <3>2. CASE n \in 1..(l - 1)
      <4>1. c.segs[n] = v.segs[n]
        BY <2>2, <3>2
      <4> QED BY <1>1, <4>1 DEF Runs, NaturalEnd, SameSource
    <3> QED BY <2>6, <3>1, <3>2
  <2>10. \A u \in 0..(t - 1) : SoundsAt(c, u) <=> SoundsAt(v, u)
    BY <2>2, <2>9 DEF SoundsAt
  <2> QED BY <1>1, <2>3, <2>4, <2>5, <2>8, <2>10 DEF c
<1> QED BY <1>4, <1>5

\* A stop leaves what was heard before it.
LEMMA StoppedOnward ==
    ASSUME NEW s, NEW v \in VoicesOf(s), NEW t \in Nat, Timed(v, t)
    PROVE  Onward(StoppedVoice(v, t), v, t)
<1> DEFINE c == Cut(v, t)
           w == [c EXCEPT !.stopped = TRUE, !.paused = FALSE]
<1>1. /\ c \in VoicesOf(s) /\ TimedSegs(c.segs, t) /\ Seg(c).end # Running
      /\ \A u \in 0..(t - 1) : SoundsAt(c, u) <=> SoundsAt(v, u)
  BY CutTimed
<1>2. StoppedVoice(v, t) = w
  BY DEF StoppedVoice
<1> HIDE DEF c
<1>3. w = [c EXCEPT !.stopped = TRUE, !.paused = FALSE]
  OBVIOUS
<1> HIDE DEF w
<1>4. SameSource(w, c) /\ w.segs = c.segs
  BY <1>1, <1>3, MarkedVoice
<1>5. Seg(w) = Seg(c) /\ \A u : SoundsAt(w, u) <=> SoundsAt(c, u)
  BY <1>4, SameHeard
<1>6. Onward(w, v, t)
  BY <1>1, <1>4, <1>5 DEF Onward, Timed
<1> QED BY <1>2, <1>6

\* And so does a pause.
LEMMA PausedOnward ==
    ASSUME NEW s, NEW v \in VoicesOf(s), NEW t \in Nat, Timed(v, t)
    PROVE  Onward(PausedVoice(v, t), v, t)
<1> DEFINE p == Position(v, t)
           r == [v EXCEPT !.place = p]
           c == Cut(r, t)
           w == [c EXCEPT !.stopped = TRUE, !.paused = TRUE]
<1>1. PausedVoice(v, t) = w
  BY DEF PausedVoice
<1>2. p \in Int
  BY PositionInt
<1> HIDE DEF p
<1>3. /\ r \in VoicesOf(s) /\ SameSource(r, v) /\ r.segs = v.segs
      /\ r.stopped = v.stopped /\ r.paused = v.paused
  BY <1>2, PlacedVoice
<1> HIDE DEF r
<1>4. Seg(r) = Seg(v) /\ \A u : SoundsAt(r, u) <=> SoundsAt(v, u)
  BY <1>3, SameHeard
<1>5. Timed(r, t)
  BY <1>3, <1>4 DEF Timed
<1>6. /\ c \in VoicesOf(s) /\ TimedSegs(c.segs, t) /\ Seg(c).end # Running
      /\ \A u \in 0..(t - 1) : SoundsAt(c, u) <=> SoundsAt(r, u)
  BY <1>3, <1>5, CutTimed
<1> HIDE DEF c
<1>7. w = [c EXCEPT !.stopped = TRUE, !.paused = TRUE]
  OBVIOUS
<1> HIDE DEF w
<1>8. SameSource(w, c) /\ w.segs = c.segs
  BY <1>6, <1>7, MarkedVoice
<1>9. Seg(w) = Seg(c) /\ \A u : SoundsAt(w, u) <=> SoundsAt(c, u)
  BY <1>8, SameHeard
<1>10. Onward(w, v, t)
  BY <1>4, <1>6, <1>8, <1>9 DEF Onward, Timed
<1> QED BY <1>1, <1>10

\* A resumed voice was heard as before.
LEMMA ResumedOnward ==
    ASSUME NEW s, NEW v \in VoicesOf(s), NEW t \in Nat, Timed(v, t), v.paused
    PROVE  Onward(ResumedVoice(v, t), v, t)
<1> DEFINE x == Segment(t, v.place, Seg(v).rate)
           w == Continue(v, x)
           l == Len(v.segs)
<1>1. /\ v.segs \in SegSeqs /\ v.place \in Int /\ Seg(v) \in Segments /\ l \in Nat \ {0} /\ Seg(v) = v.segs[l]
  BY SegOf DEF VoicesOf
<1>2. x \in Segments /\ x.start = t /\ x.end = Running
  BY <1>1 DEF Segment, Segments
<1>3. ResumedVoice(v, t) = w
  BY DEF ResumedVoice
<1> HIDE DEF x
<1>4. /\ w \in VoicesOf(s) /\ SameSource(w, v) /\ IsOpen(w) /\ w.segs = Append(v.segs, x)
  BY <1>2, ContinuedVoice
<1> HIDE DEF w
<1>5. /\ Len(w.segs) = l + 1
      /\ \A n \in 1..l : w.segs[n] = v.segs[n]
      /\ w.segs[l + 1] = x
  BY <1>1, <1>2, <1>4, AppendSegment
<1>6. \A n \in 1..(l + 1) : n \in 1..l \/ n = l + 1
  BY <1>1
<1>7. TimedSegs(w.segs, t)
  <2>1. ASSUME NEW n \in 1..(l + 1)
        PROVE  /\ w.segs[1].start <= w.segs[n].start
               /\ w.segs[n].start <= t
               /\ w.segs[n].end # Running => w.segs[n].start <= w.segs[n].end /\ w.segs[n].end <= t
    <3>1. 1 \in 1..l
      BY <1>1
    <3>2. w.segs[1] = v.segs[1] /\ v.segs[1].start <= t
      BY <1>5, <3>1 DEF Timed, TimedSegs
    <3>3. CASE n = l + 1
      BY <1>2, <1>5, <3>2, <3>3
    <3>4. CASE n \in 1..l
      <4>1. w.segs[n] = v.segs[n]
        BY <1>5, <3>4
      <4> QED BY <3>2, <3>4, <4>1 DEF Timed, TimedSegs
    <3> QED BY <1>6, <3>3, <3>4
  <2>2. ASSUME NEW n \in 1..l PROVE w.segs[n].end # Running
    <3>1. w.segs[n] = v.segs[n]
      BY <1>5
    <3>2. CASE n = l
      BY <1>1, <3>1, <3>2 DEF Timed
    <3>3. CASE n # l
      <4>1. n \in 1..(l - 1)
        BY <1>1, <3>3
      <4> QED BY <3>1, <4>1 DEF Timed, TimedSegs
    <3> QED BY <3>2, <3>3
  <2>3. (l + 1) - 1 = l
    BY <1>1
  <2> QED BY <1>5, <2>1, <2>2, <2>3 DEF TimedSegs
<1>8. ASSUME NEW u \in 0..(t - 1) PROVE SoundsAt(w, u) <=> SoundsAt(v, u)
  <2>1. ~Runs(w, x, u)
    <3>1. u < t
      OBVIOUS
    <3> QED BY <1>2, <3>1 DEF Runs
  <2>2. \A n \in 1..l : Runs(w, w.segs[n], u) <=> Runs(v, v.segs[n], u)
    BY <1>4, <1>5 DEF Runs, NaturalEnd, SameSource
  <2>3. \A n \in 1..l : n \in 1..(l + 1)
    BY <1>1
  <2> QED BY <1>5, <1>6, <2>1, <2>2, <2>3 DEF SoundsAt
<1>9. Onward(w, v, t)
  BY <1>4, <1>7, <1>8 DEF Onward, Timed, IsOpen
<1> QED BY <1>3, <1>9

\* A new voice was not heard before.
LEMMA VoicedOnward ==
    ASSUME NEW s \in Soundscapes, NEW t \in Nat, NEW intent, intent.tick = t
    PROVE  /\ Timed(Voiced(s, intent), t)
           /\ \A u \in 0..(t - 1) : ~SoundsAt(Voiced(s, intent), u)
<1> DEFINE x == Segment(t, 0, intent.rate)
           v == Voiced(s, intent)
<1>1. x.start = t /\ x.end = Running
  BY DEF Segment
<1>2. v.segs = <<x>> /\ ~v.stopped /\ ~v.paused
  BY DEF Voiced, NewVoice
<1> HIDE DEF v, x
<1>3. Len(<<x>>) = 1 /\ <<x>>[1] = x /\ \A n \in 1..1 : n = 1
  OBVIOUS
<1>4. Timed(v, t)
  BY <1>1, <1>2, <1>3 DEF Timed, TimedSegs
<1>5. ASSUME NEW u \in 0..(t - 1) PROVE ~SoundsAt(v, u)
  <2>1. u < t
    OBVIOUS
  <2>2. ~Runs(v, x, u)
    BY <1>1, <2>1 DEF Runs
  <2> QED BY <1>2, <1>3, <2>2 DEF SoundsAt
<1> QED BY <1>4, <1>5 DEF v

\* The mixer says a voice plays when it is heard.
LEMMA PlaysHeard ==
    ASSUME NEW s, NEW v \in VoicesOf(s), NEW t \in Nat, Timed(v, t)
    PROVE  IsPlaying(v, t) <=> SoundsAt(v, t)
<1> DEFINE l == Len(v.segs)
<1>1. /\ l \in Nat \ {0} /\ Seg(v) = v.segs[l]
      /\ \A n \in 1..l : /\ v.segs[n] \in Segments /\ v.segs[n].start \in Nat
                         /\ v.segs[n].end = Running \/ v.segs[n].end \in Nat
  BY TimedTyped
<1>2. v.loop \in BOOLEAN /\ v.stopped \in BOOLEAN /\ v.paused \in BOOLEAN
  BY DEF VoicesOf
<1>3. ASSUME IsPlaying(v, t) PROVE SoundsAt(v, t)
  <2>1. l \in 1..l
    BY <1>1
  <2>2. Runs(v, v.segs[l], t)
    BY <1>1, <1>2, <1>3, <2>1 DEF IsPlaying, IsOpen, Runs
  <2> QED BY <2>1, <2>2 DEF SoundsAt
<1>4. ASSUME SoundsAt(v, t) PROVE IsPlaying(v, t)
  <2>1. PICK n \in 1..l : Runs(v, v.segs[n], t)
    BY <1>4 DEF SoundsAt
  <2>2. v.segs[n].end = Running
    <3>1. SUFFICES ASSUME v.segs[n].end # Running PROVE FALSE
      OBVIOUS
    <3>2. t < v.segs[n].end /\ v.segs[n].end <= t /\ v.segs[n].end \in Nat
      BY <1>1, <2>1, <3>1 DEF Runs, Timed, TimedSegs
    <3> QED BY <3>2
  <2>3. n = l
    <3>1. n \notin 1..(l - 1)
      BY <2>2 DEF Timed, TimedSegs
    <3> QED BY <1>1, <3>1
  <2>4. ~v.stopped /\ ~v.paused
    BY <1>1, <2>2, <2>3 DEF Timed
  <2>5. v.segs[l].start <= t /\ v.segs[l].start \in Nat /\ (~v.loop => t < NaturalEnd(v, v.segs[l]))
    BY <1>1, <2>1, <2>3 DEF Runs
  <2> QED BY <1>1, <1>2, <2>2, <2>3, <2>4, <2>5 DEF IsPlaying, IsOpen
<1> QED BY <1>3, <1>4

\* A later tick leaves a voice timed.
LEMMA LaterTimed ==
    ASSUME NEW s, NEW v \in VoicesOf(s), NEW t \in Nat, Timed(v, t)
    PROVE  Timed(v, t + 1)
<1>1. \A n \in 1..Len(v.segs) : /\ v.segs[n].start \in Nat
                                /\ v.segs[n].end = Running \/ v.segs[n].end \in Nat
  BY TimedTyped
<1>2. ASSUME NEW n \in 1..Len(v.segs)
      PROVE  /\ v.segs[n].start <= t + 1
             /\ v.segs[n].end # Running => v.segs[n].end <= t + 1
  <2>1. /\ v.segs[n].start <= t /\ v.segs[n].start \in Nat
        /\ v.segs[n].end # Running => v.segs[n].end <= t /\ v.segs[n].end \in Nat
    BY <1>1 DEF Timed, TimedSegs
  <2> QED BY <2>1
<1>3. TimedSegs(v.segs, t + 1)
  BY <1>2 DEF Timed, TimedSegs
<1> QED BY <1>3 DEF Timed

-----------------------------------------------------------------------------
(* When a mixer is heard *)

TimedMixer(voices, s, t) == Mixer(voices, s, t) /\ \A i \in DOMAIN voices : Timed(voices[i], t)

\* A mixer after writes at t.
MixOnward(f, voices, t) ==
    /\ DOMAIN f = DOMAIN voices
    /\ \A i \in DOMAIN voices : Onward(f[i], voices[i], t)

\* What is heard of a mixer before t.
HeardBy(voices, t) == {p \in (0..(t - 1)) \X (DOMAIN voices) : SoundsAt(voices[p[2]], p[1])}

\* A voice that is not written goes on as it was.
LEMMA SameOnward ==
    ASSUME NEW v, NEW t, Timed(v, t)
    PROVE  Onward(v, v, t)
BY DEF Onward

\* A stop by type.
LEMMA StopTypeOnward ==
    ASSUME NEW s, NEW voices, NEW t \in Nat, TimedMixer(voices, s, t), NEW type
    PROVE  MixOnward(StopType(voices, t, type), voices, t)
<1> DEFINE k == FirstOf(Reached(voices, type))
           f == StopType(voices, t, type)
<1>1. \A i \in DOMAIN voices : voices[i] \in VoicesOf(s) /\ Timed(voices[i], t)
  BY MixerVoice DEF TimedMixer
<1>2. f = voices \/ f = [voices EXCEPT ![k] = StoppedVoice(@, t)]
  BY DEF StopType
<1> HIDE DEF f
<1>3. DOMAIN f = DOMAIN voices /\ \A i \in DOMAIN voices : f[i] = voices[i] \/ f[i] = StoppedVoice(voices[i], t)
  BY <1>2
<1>4. ASSUME NEW i \in DOMAIN voices PROVE Onward(f[i], voices[i], t)
  BY <1>1, <1>3, SameOnward, StoppedOnward
<1> QED BY <1>3, <1>4 DEF MixOnward, f

\* A pause and a resumption of some types.
LEMMA PauseTypesOnward ==
    ASSUME NEW s, NEW voices, NEW t \in Nat, TimedMixer(voices, s, t), NEW types
    PROVE  /\ MixOnward(PauseTypes(voices, t, types), voices, t)
           /\ MixOnward(ResumeTypes(voices, t, types), voices, t)
<1> DEFINE f == PauseTypes(voices, t, types)
           g == ResumeTypes(voices, t, types)
<1>1. \A i \in DOMAIN voices : voices[i] \in VoicesOf(s) /\ Timed(voices[i], t)
  BY MixerVoice DEF TimedMixer
<1>2. /\ DOMAIN f = DOMAIN voices /\ DOMAIN g = DOMAIN voices
      /\ \A i \in DOMAIN voices : /\ f[i] = voices[i] \/ f[i] = PausedVoice(voices[i], t)
                                  /\ g[i] = voices[i] \/ (voices[i].paused /\ g[i] = ResumedVoice(voices[i], t))
  BY DEF PauseTypes, ResumeTypes
<1> HIDE DEF f, g
<1>3. ASSUME NEW i \in DOMAIN voices PROVE Onward(f[i], voices[i], t) /\ Onward(g[i], voices[i], t)
  <2>1. Onward(f[i], voices[i], t)
    BY <1>1, <1>2, SameOnward, PausedOnward
  <2>2. Onward(g[i], voices[i], t)
    BY <1>1, <1>2, SameOnward, ResumedOnward
  <2> QED BY <2>1, <2>2
<1> QED BY <1>2, <1>3 DEF MixOnward, f, g

\* Writes leave the mixer timed, and what was heard before them.
LEMMA OnwardHeard ==
    ASSUME NEW s, NEW f, NEW voices, NEW t, MixOnward(f, voices, t), Mixer(f, s, t)
    PROVE  TimedMixer(f, s, t) /\ HeardBy(f, t) = HeardBy(voices, t)
<1>1. \A u \in 0..(t - 1), i \in DOMAIN voices : SoundsAt(f[i], u) <=> SoundsAt(voices[i], u)
  BY DEF MixOnward, Onward
<1>2. DOMAIN f = DOMAIN voices
  BY DEF MixOnward
<1>3. \A p \in (0..(t - 1)) \X (DOMAIN voices) : SoundsAt(f[p[2]], p[1]) <=> SoundsAt(voices[p[2]], p[1])
  BY <1>1
<1>4. HeardBy(f, t) = HeardBy(voices, t)
  BY <1>2, <1>3 DEF HeardBy
<1>5. TimedMixer(f, s, t)
  BY <1>2 DEF MixOnward, Onward, TimedMixer
<1> QED BY <1>4, <1>5

\* A voice that begins now was not heard before.
LEMMA AddedHeard ==
    ASSUME NEW s, NEW voices, NEW t \in Nat, TimedMixer(voices, s, t), NEW v \in VoicesOf(s), Kept(v, t), Timed(v, t),
           \A u \in 0..(t - 1) : ~SoundsAt(v, u)
    PROVE  TimedMixer(Append(voices, v), s, t) /\ HeardBy(Append(voices, v), t) = HeardBy(voices, t)
<1> DEFINE f == Append(voices, v)  n == Len(voices)
<1>1. voices \in Seq(VoicesOf(s)) /\ n \in Nat /\ DOMAIN voices = 1..n
  BY DEF TimedMixer, Mixer
<1>2. /\ DOMAIN f = 1..(n + 1) /\ f[n + 1] = v /\ \A i \in 1..n : f[i] = voices[i]
  BY <1>1, AppendProperties
<1>3. Mixer(f, s, t)
  BY AddedKept DEF TimedMixer
<1> HIDE DEF f, n
<1>4. \A i \in 1..(n + 1) : i \in 1..n \/ i = n + 1
  BY <1>1
<1>5. \A i \in DOMAIN f : Timed(f[i], t)
  BY <1>1, <1>2, <1>4 DEF TimedMixer
<1>6. ASSUME NEW p
      PROVE  p \in HeardBy(f, t) <=> p \in HeardBy(voices, t)
  <2>1. CASE p \in (0..(t - 1)) \X (1..n)
    <3>1. p[2] \in 1..n /\ p \in (0..(t - 1)) \X (1..(n + 1))
      BY <1>1, <2>1
    <3>2. f[p[2]] = voices[p[2]]
      BY <1>2, <3>1
    <3> QED BY <1>1, <1>2, <2>1, <3>1, <3>2 DEF HeardBy
  <2>2. CASE p \notin (0..(t - 1)) \X (1..n)
    <3>1. p \notin HeardBy(voices, t)
      BY <1>1, <2>2 DEF HeardBy
    <3>2. ASSUME p \in HeardBy(f, t) PROVE FALSE
      <4>1. p \in (0..(t - 1)) \X (1..(n + 1)) /\ SoundsAt(f[p[2]], p[1])
        BY <1>2, <3>2 DEF HeardBy
      <4>2. p[1] \in 0..(t - 1) /\ p[2] = n + 1
        BY <1>4, <2>2, <4>1
      <4> QED BY <1>2, <4>1, <4>2
    <3> QED BY <3>1, <3>2
  <2> QED BY <2>1, <2>2
<1>7. HeardBy(f, t) = HeardBy(voices, t)
  <2>1. \A p \in HeardBy(f, t) : p \in HeardBy(voices, t)
    BY <1>6
  <2>2. \A p \in HeardBy(voices, t) : p \in HeardBy(f, t)
    BY <1>6
  <2> QED BY <2>1, <2>2
<1> QED BY <1>3, <1>5, <1>7 DEF TimedMixer, f

\* At the end of a tick the voices that play are heard.
LEMMA TickHeard ==
    ASSUME NEW s, NEW voices, NEW t \in Nat, TimedMixer(voices, s, t), Mixer(voices, s, t + 1)
    PROVE  /\ TimedMixer(voices, s, t + 1)
           /\ HeardBy(voices, t + 1) =
                HeardBy(voices, t) \union {<<t, i>> : i \in {j \in DOMAIN voices : IsPlaying(voices[j], t)}}
<1> DEFINE now == {<<t, i>> : i \in {j \in DOMAIN voices : IsPlaying(voices[j], t)}}
<1>1. ASSUME NEW i \in DOMAIN voices
      PROVE  /\ voices[i] \in VoicesOf(s) /\ Timed(voices[i], t + 1)
             /\ (IsPlaying(voices[i], t) <=> SoundsAt(voices[i], t))
  <2>1. voices[i] \in VoicesOf(s) /\ Timed(voices[i], t)
    BY MixerVoice DEF TimedMixer
  <2> QED BY <2>1, LaterTimed, PlaysHeard
<1>2. \A u : u \in 0..((t + 1) - 1) <=> u \in 0..(t - 1) \/ u = t
  OBVIOUS
<1>3. HeardBy(voices, t + 1) = HeardBy(voices, t) \union now
  <2>1. ASSUME NEW p \in HeardBy(voices, t + 1) PROVE p \in HeardBy(voices, t) \union now
    <3>1. /\ p \in (0..((t + 1) - 1)) \X (DOMAIN voices) /\ p = <<p[1], p[2]>>
          /\ p[1] \in 0..((t + 1) - 1) /\ p[2] \in DOMAIN voices /\ SoundsAt(voices[p[2]], p[1])
      BY <2>1 DEF HeardBy
    <3>2. CASE p[1] \in 0..(t - 1)
      <4>1. p \in (0..(t - 1)) \X (DOMAIN voices)
        BY <3>1, <3>2
      <4> QED BY <3>1, <4>1 DEF HeardBy
    <3>3. CASE p[1] = t
      <4>1. p = <<t, p[2]>> /\ IsPlaying(voices[p[2]], t)
        BY <1>1, <3>1, <3>3
      <4> QED BY <3>1, <4>1
    <3> QED BY <1>2, <3>1, <3>2, <3>3
  <2>2. ASSUME NEW p \in HeardBy(voices, t) PROVE p \in HeardBy(voices, t + 1)
    <3>1. p \in (0..(t - 1)) \X (DOMAIN voices) /\ SoundsAt(voices[p[2]], p[1])
      BY <2>2 DEF HeardBy
    <3>2. p \in (0..((t + 1) - 1)) \X (DOMAIN voices)
      BY <1>2, <3>1
    <3> QED BY <3>1, <3>2 DEF HeardBy
  <2>3. ASSUME NEW p \in now PROVE p \in HeardBy(voices, t + 1)
    <3>1. PICK i \in DOMAIN voices : p = <<t, i>> /\ IsPlaying(voices[i], t)
      BY <2>3
    <3>2. p \in (0..((t + 1) - 1)) \X (DOMAIN voices) /\ p[1] = t /\ p[2] = i
      BY <1>2, <3>1
    <3>3. SoundsAt(voices[p[2]], p[1])
      BY <1>1, <3>1, <3>2
    <3> QED BY <3>2, <3>3 DEF HeardBy
  <2> HIDE DEF now
  <2>4. \A p \in HeardBy(voices, t) \union now : p \in HeardBy(voices, t + 1)
    BY <2>2, <2>3
  <2> QED BY <2>1, <2>4
<1> QED BY <1>1, <1>3 DEF TimedMixer

-----------------------------------------------------------------------------
(* The events mixed again *)

Policies == {"all", "original"}

EventsOf(s) ==
    [kind : {"play"}, intent : UNION {Intents(s, t) : t \in Nat}]
        \union [kind : {"stop", "pause", "resume"}, intent : [seq : Nat, tick : Nat, type : s.types \union {0}]]

Plays(events) == {e \in DOMAIN events : events[e].kind = "play"}

\* A mixer that is filled under a policy.
Filled(r, s, t, policy) ==
    /\ ObserverInv(r, s, t)
    /\ TimedMixer(r.voices, s, t)
    /\ r.admission = policy
    /\ r.dropped \in Nat

\* Mixers of the same places have as many voices.
LEMMA SameLength ==
    ASSUME NEW V, NEW p \in Seq(V), NEW W, NEW q \in Seq(W), DOMAIN p = DOMAIN q
    PROVE  Len(p) = Len(q)
<1> DEFINE m == Len(p)  n == Len(q)
<1>1. m \in Nat /\ n \in Nat /\ DOMAIN p = 1..m /\ DOMAIN q = 1..n
  OBVIOUS
<1> HIDE DEF m, n
<1>2. 1..m = 1..n
  BY <1>1
<1>3. m \in 1..m \/ m = 0
  BY <1>1
<1>4. n \in 1..n \/ n = 0
  BY <1>1
<1>5. m <= n
  <2>1. \A i \in 1..m : i \in 1..n
    BY <1>2
  <2> QED BY <1>1, <1>3, <2>1
<1>6. n <= m
  <2>1. \A i \in 1..n : i \in 1..m
    BY <1>2
  <2> QED BY <1>1, <1>4, <2>1
<1>7. m = n
  BY <1>1, <1>5, <1>6
<1> QED BY <1>7 DEF m, n

\* A write to the voices of a filled mixer.
LEMMA RewrittenFilled ==
    ASSUME NEW s, NEW t, NEW policy, NEW r, Filled(r, s, t, policy),
           NEW f, MixOnward(f, r.voices, t), Mixer(f, s, t)
    PROVE  LET w == [r EXCEPT !.voices = f]
           IN  Filled(w, s, t, policy) /\ w.voices = f /\ w.dropped = r.dropped /\ Len(f) = Len(r.voices)
<1> DEFINE w == [r EXCEPT !.voices = f]
<1>1. /\ w \in [admission : {w.admission}, voices : {w.voices}, events : {w.events}, dropped : {w.dropped}]
      /\ w.voices = f /\ w.dropped = r.dropped /\ w.admission = r.admission
  BY DEF Filled, ObserverInv
<1> HIDE DEF w
<1>2. TimedMixer(f, s, t)
  BY OnwardHeard
<1>3. Len(f) = Len(r.voices)
  BY SameLength DEF Filled, TimedMixer, Mixer, MixOnward
<1>4. Filled(w, s, t, policy)
  BY <1>1, <1>2 DEF Filled, ObserverInv
<1> QED BY <1>1, <1>3, <1>4 DEF w

\* What the policy admits is played at the tick it asks for.
LEMMA IntendFilled ==
    ASSUME NEW s \in Soundscapes, NEW t \in Nat, NEW policy \in Policies, NEW r, Filled(r, s, t, policy),
           NEW intent \in Intents(s, t)
    PROVE  LET w == Intend(r, s, intent)
           IN  /\ Filled(w, s, t, policy)
               /\ Len(w.voices) + w.dropped = Len(r.voices) + r.dropped + 1
               /\ w.voices = IF Gate(r, s, t, intent.type) # Nothing THEN r.voices
                             ELSE Append(r.voices, Voiced(s, intent))
               /\ HeardBy(w.voices, t) = HeardBy(r.voices, t)
<1> DEFINE e == Append(r.events, [kind |-> "play", intent |-> intent])
           v == Voiced(s, intent)
           q == Append(r.voices, v)
           u == [r EXCEPT !.events = e, !.voices = q]
           d == [r EXCEPT !.dropped = @ + 1]
           w == Intend(r, s, intent)
<1>1. policy # "off" /\ intent.tick = t
  BY DEF Policies, Intents
<1>2. w = IF Gate(r, s, t, intent.type) # Nothing THEN d ELSE u
  BY <1>1 DEF Intend, Filled
<1>3. ObserverInv(w, s, t)
  BY IntendKept DEF Filled
<1>4. v \in VoicesOf(s) /\ Kept(v, t) /\ Timed(v, t) /\ \A x \in 0..(t - 1) : ~SoundsAt(v, x)
  BY <1>1, VoicedKept, VoicedOnward
<1> HIDE DEF v
<1>5. TimedMixer(q, s, t) /\ HeardBy(q, t) = HeardBy(r.voices, t)
  BY <1>4, AddedHeard DEF Filled
<1>6. Len(q) = Len(r.voices) + 1 /\ Len(r.voices) \in Nat
  BY DEF Filled, ObserverInv, Mixer
<1> HIDE DEF q, e
<1>7. u.voices = q /\ u.dropped = r.dropped /\ u.admission = policy
  BY DEF Filled, ObserverInv
<1>8. d.voices = r.voices /\ d.dropped = r.dropped + 1 /\ d.admission = policy
  BY DEF Filled, ObserverInv
<1> HIDE DEF u, d, w
<1>9. CASE Gate(r, s, t, intent.type) # Nothing
  <2>1. w = d
    BY <1>2, <1>9
  <2>2. Filled(w, s, t, policy)
    BY <1>3, <1>8, <2>1 DEF Filled
  <2>3. Len(w.voices) + w.dropped = Len(r.voices) + r.dropped + 1
    BY <1>6, <1>8, <2>1 DEF Filled
  <2> QED BY <1>8, <1>9, <2>1, <2>2, <2>3 DEF w
<1>10. CASE ~(Gate(r, s, t, intent.type) # Nothing)
  <2>1. w = u
    BY <1>2, <1>10
  <2>2. Filled(w, s, t, policy)
    BY <1>3, <1>5, <1>7, <2>1 DEF Filled
  <2>3. Len(w.voices) + w.dropped = Len(r.voices) + r.dropped + 1
    BY <1>6, <1>7, <2>1 DEF Filled
  <2> QED BY <1>5, <1>7, <1>10, <2>1, <2>2, <2>3 DEF w, q, v
<1> QED BY <1>9, <1>10

\* A write by type, a pause and a resumption.
LEMMA WrittenFilled ==
    ASSUME NEW s, NEW t \in Nat, NEW policy, NEW r, Filled(r, s, t, policy), NEW f,
           \/ \E type : f = StopType(r.voices, t, type)
           \/ \E types : f = PauseTypes(r.voices, t, types) \/ f = ResumeTypes(r.voices, t, types)
    PROVE  MixOnward(f, r.voices, t) /\ Mixer(f, s, t)
<1>1. TimedMixer(r.voices, s, t) /\ Mixer(r.voices, s, t)
  BY DEF Filled, TimedMixer
<1>2. CASE \E type : f = StopType(r.voices, t, type)
  BY <1>1, <1>2, StopTypeOnward, StopTypeKept
<1>3. CASE \E types : f = PauseTypes(r.voices, t, types) \/ f = ResumeTypes(r.voices, t, types)
  <2>1. PICK types : f = PauseTypes(r.voices, t, types) \/ f = ResumeTypes(r.voices, t, types)
    BY <1>3
  <2>2. CASE f = PauseTypes(r.voices, t, types)
    BY <1>1, <2>2, PauseTypesOnward, PauseTypesKept
  <2>3. CASE f = ResumeTypes(r.voices, t, types)
    BY <1>1, <2>3, PauseTypesOnward, PauseTypesKept
  <2> QED BY <2>1, <2>2, <2>3
<1> QED BY <1>2, <1>3

\* An event that is heard again at its tick fills the mixer: a play by a voice or a drop,
\* and nothing else by either.
LEMMA HeardFilled ==
    ASSUME NEW s \in Soundscapes, NEW t \in Nat, NEW policy \in Policies, NEW r, Filled(r, s, t, policy),
           NEW e \in EventsOf(s), e.intent.tick = t
    PROVE  LET w == Heard(r, s, e)
           IN  /\ Filled(w, s, t, policy)
               /\ Len(w.voices) + w.dropped = Len(r.voices) + r.dropped + IF e.kind = "play" THEN 1 ELSE 0
<1> DEFINE w == Heard(r, s, e)
           i == e.intent
<1>0. e.kind \in {"play", "stop", "pause", "resume"}
  BY DEF EventsOf
<1>00. Len(r.voices) \in Nat /\ r.dropped \in Nat
  BY DEF Filled, ObserverInv, Mixer
<1>1. CASE e.kind = "play"
  <2>1. w = Intend(r, s, i)
    BY <1>1 DEF Heard
  <2>2. i \in Intents(s, t)
    <3>1. PICK x \in Nat : i \in Intents(s, x)
      BY <1>1 DEF EventsOf
    <3>2. i.tick = x
      BY <3>1 DEF Intents
    <3> QED BY <3>1, <3>2
  <2> HIDE DEF w, i
  <2>3. /\ Filled(Intend(r, s, i), s, t, policy)
        /\ Len(Intend(r, s, i).voices) + Intend(r, s, i).dropped = Len(r.voices) + r.dropped + 1
    BY <2>2, IntendFilled
  <2> QED BY <1>1, <2>1, <2>3 DEF w
<1>2. CASE e.kind # "play"
  <2> DEFINE f == CASE e.kind = "stop" -> StopType(r.voices, i.tick, i.type)
                    [] e.kind = "pause" -> PauseTypes(r.voices, i.tick, s.types)
                    [] e.kind = "resume" -> ResumeTypes(r.voices, i.tick, s.types)
  <2>1. w = [r EXCEPT !.voices = f]
    BY <1>0, <1>2 DEF Heard
  <2>2. \/ \E type : f = StopType(r.voices, t, type)
        \/ \E types : f = PauseTypes(r.voices, t, types) \/ f = ResumeTypes(r.voices, t, types)
    BY <1>0, <1>2
  <2> HIDE DEF f, w
  <2>3. MixOnward(f, r.voices, t) /\ Mixer(f, s, t)
    BY <2>2, WrittenFilled
  <2>4. Filled(w, s, t, policy) /\ w.voices = f /\ w.dropped = r.dropped /\ Len(f) = Len(r.voices)
    BY <2>1, <2>3, RewrittenFilled
  <2>5. Len(w.voices) + w.dropped = Len(r.voices) + r.dropped + 0
    BY <1>00, <2>4
  <2> QED BY <1>2, <2>4, <2>5 DEF w
<1> QED BY <1>1, <1>2

\* One more event is one more play, or none.
LEMMA PlaysNext ==
    ASSUME NEW E, NEW events \in Seq(E), NEW e \in E
    PROVE  /\ Cardinality(Plays(events)) \in Nat
           /\ Cardinality(Plays(Append(events, e))) =
                Cardinality(Plays(events)) + IF e.kind = "play" THEN 1 ELSE 0
<1> DEFINE n == Len(events)  more == Append(events, e)
<1>1. /\ n \in Nat /\ DOMAIN events = 1..n /\ DOMAIN more = 1..(n + 1)
      /\ \A i \in 1..n : more[i] = events[i]
      /\ more[n + 1] = e
  OBVIOUS
<1> HIDE DEF n, more
<1> DEFINE P == Plays(events)
<1>2. P \subseteq 1..n
  BY <1>1 DEF Plays
<1>3. IsFiniteSet(P)
  <2>1. IsFiniteSet(1..n)
    BY <1>1, FS_Interval
  <2> HIDE DEF P
  <2> QED BY <1>2, <2>1, FS_Subset
<1>4. n + 1 \notin P
  BY <1>1, <1>2
<1>5. Plays(more) = P \union (IF e.kind = "play" THEN {n + 1} ELSE {})
  <2>1. \A i : i \in 1..(n + 1) <=> i \in 1..n \/ i = n + 1
    BY <1>1
  <2> QED BY <1>1, <2>1 DEF Plays
<1>6. Cardinality(P) \in Nat
  BY <1>3, FS_CardinalityType
<1> HIDE DEF P
<1>7. CASE e.kind = "play"
  <2>1. Cardinality(P \union {n + 1}) = Cardinality(P) + 1
    BY <1>3, <1>4, FS_AddElement
  <2> QED BY <1>5, <1>6, <1>7, <2>1 DEF P, more
<1>8. CASE e.kind # "play"
  BY <1>5, <1>6, <1>8 DEF P, more
<1> QED BY <1>7, <1>8

-----------------------------------------------------------------------------
(* What the observer recorded *)

\* The pauses of a record reach every type.
MutesAll(w, s) ==
    \/ Flagged(s, "mute_on_pause") = s.types
    \/ \A e \in DOMAIN w.events : w.events[e].kind \in {"play", "stop"}

\* A policy that admits every event of a record.
AdmitsAlike(w, policy) == w.admission = "original" \/ policy = "all"

\* The events of a record, mixed again under a policy, are as many voices and drops as
\* there were plays, and the voices of the record when they are admitted alike.
MixedAgain(w, s, t, policy) ==
    LET r == Remixed(w.events, s, policy)
    IN  /\ Filled(r, s, t, policy)
        /\ Cardinality(Plays(w.events)) = Len(r.voices) + r.dropped
        /\ MutesAll(w, s) /\ AdmitsAlike(w, policy) => r.voices = w.voices

Recorded(w, s, t, policy) ==
    /\ Filled(w, s, t, policy)
    /\ w.events \in Seq(EventsOf(s))
    /\ \A other \in Policies : MixedAgain(w, s, t, other)

MixInv ==
    /\ admission \in Policies
    /\ Recorded(watched.watcher, scape, tick, admission)
    /\ heard = HeardBy(watched.watcher.voices, tick)

\* A record with one more entry.
LEMMA OneMore ==
    ASSUME NEW E, NEW q \in Seq(E), NEW e \in E
    PROVE  /\ Append(q, e) \in Seq(E)
           /\ Len(q) + 1 \in DOMAIN Append(q, e) /\ Append(q, e)[Len(q) + 1] = e
           /\ \A n \in DOMAIN q : n \in DOMAIN Append(q, e) /\ Append(q, e)[n] = q[n]
BY AppendProperties

\* One more event of a record.
LEMMA EventRecorded ==
    ASSUME NEW s \in Soundscapes, NEW t \in Nat, NEW policy \in Policies,
           NEW w, w.events \in Seq(EventsOf(s)), MixedAgain(w, s, t, policy),
           NEW e \in EventsOf(s), e.intent.tick = t,
           NEW u, u.events = Append(w.events, e), u.admission = w.admission,
           NEW r, r = Remixed(w.events, s, policy),
           MutesAll(u, s) /\ AdmitsAlike(w, policy) /\ r.voices = w.voices => Heard(r, s, e).voices = u.voices
    PROVE  MixedAgain(u, s, t, policy)
<1> DEFINE q == Remixed(u.events, s, policy)
<1>1. q = Heard(r, s, e)
  BY RemixedNext
<1>2. /\ Filled(r, s, t, policy) /\ Cardinality(Plays(w.events)) = Len(r.voices) + r.dropped
      /\ MutesAll(w, s) /\ AdmitsAlike(w, policy) => r.voices = w.voices
  BY DEF MixedAgain
<1>3. /\ Filled(q, s, t, policy)
      /\ Len(q.voices) + q.dropped = Len(r.voices) + r.dropped + IF e.kind = "play" THEN 1 ELSE 0
  <2> HIDE DEF q
  <2> QED BY <1>1, <1>2, HeardFilled
<1> HIDE DEF q
<1>4. Cardinality(Plays(u.events)) = Cardinality(Plays(w.events)) + IF e.kind = "play" THEN 1 ELSE 0
  BY PlaysNext
<1>5. MutesAll(u, s) => MutesAll(w, s)
  <2>1. SUFFICES ASSUME \A n \in DOMAIN u.events : u.events[n].kind \in {"play", "stop"}
                 PROVE  \A n \in DOMAIN w.events : w.events[n].kind \in {"play", "stop"}
    BY DEF MutesAll
  <2>2. \A n \in DOMAIN w.events : n \in DOMAIN u.events /\ u.events[n] = w.events[n]
    <3> DEFINE a == w.events  b == Append(w.events, e)
    <3>1. a \in Seq(EventsOf(s))
      OBVIOUS
    <3> HIDE DEF a
    <3>2. \A n \in DOMAIN a : n \in DOMAIN b /\ b[n] = a[n]
      BY <3>1 DEF a
    <3> QED BY <3>2 DEF a
  <2> QED BY <2>1, <2>2
<1>6. MutesAll(u, s) /\ AdmitsAlike(u, policy) => q.voices = u.voices
  <2>1. AdmitsAlike(u, policy) => AdmitsAlike(w, policy)
    BY DEF AdmitsAlike
  <2> QED BY <1>1, <1>2, <1>5, <2>1
<1>7. Cardinality(Plays(u.events)) = Len(q.voices) + q.dropped
  BY <1>2, <1>3, <1>4
<1> QED BY <1>3, <1>6, <1>7 DEF MixedAgain, q

\* A play that is recorded, or dropped.
LEMMA IntendRecorded ==
    ASSUME NEW s \in Soundscapes, NEW t \in Nat, NEW policy \in Policies, NEW w, Recorded(w, s, t, policy),
           NEW intent \in Intents(s, t)
    PROVE  /\ Recorded(Intend(w, s, intent), s, t, policy)
           /\ HeardBy(Intend(w, s, intent).voices, t) = HeardBy(w.voices, t)
<1> DEFINE u == Intend(w, s, intent)
           e == [kind |-> "play", intent |-> intent]
           gated == Gate(w, s, t, intent.type) # Nothing
<1>1. /\ Filled(w, s, t, policy) /\ w.events \in Seq(EventsOf(s))
      /\ \A other \in Policies : MixedAgain(w, s, t, other)
  BY DEF Recorded
<1>2. /\ Filled(u, s, t, policy)
      /\ u.voices = IF gated THEN w.voices ELSE Append(w.voices, Voiced(s, intent))
      /\ HeardBy(u.voices, t) = HeardBy(w.voices, t)
  BY <1>1, IntendFilled
<1>3. w.admission = policy /\ policy # "off" /\ intent.tick = t
  BY <1>1 DEF Filled, Policies, Intents
<1>4. /\ gated => u = [w EXCEPT !.dropped = @ + 1]
      /\ ~gated => u = [w EXCEPT !.events = Append(@, e), !.voices = Append(@, Voiced(s, intent))]
  BY <1>3 DEF Intend
<1>5. e \in EventsOf(s) /\ e.intent = intent /\ e.kind = "play"
  <2>1. intent \in UNION {Intents(s, x) : x \in Nat}
    OBVIOUS
  <2> QED BY <2>1 DEF EventsOf
<1> HIDE DEF e
<1>6. /\ u.admission = w.admission
      /\ gated => u.events = w.events /\ u.voices = w.voices
      /\ ~gated => u.events = Append(w.events, e) /\ u.voices = Append(w.voices, Voiced(s, intent))
  BY <1>1, <1>2, <1>3, <1>4 DEF Filled, ObserverInv
<1> HIDE DEF u
<1>7. CASE gated
  <2>1. \A other \in Policies : MixedAgain(u, s, t, other)
    BY <1>1, <1>6, <1>7 DEF MixedAgain, MutesAll, AdmitsAlike
  <2> QED BY <1>1, <1>2, <1>6, <1>7, <2>1 DEF Recorded, u
<1>8. CASE ~gated
  <2>1. ASSUME NEW other \in Policies PROVE MixedAgain(u, s, t, other)
    <3> DEFINE r == Remixed(w.events, s, other)
    <3>1. MixedAgain(w, s, t, other) /\ Filled(r, s, t, other)
      BY <1>1 DEF MixedAgain
    <3> HIDE DEF r
    <3>2. ASSUME AdmitsAlike(w, other), r.voices = w.voices PROVE Heard(r, s, e).voices = u.voices
      <4>1. Heard(r, s, e) = Intend(r, s, intent)
        BY <1>5 DEF Heard
      <4>2. Intend(r, s, intent).voices = IF Gate(r, s, t, intent.type) # Nothing THEN r.voices
                                         ELSE Append(r.voices, Voiced(s, intent))
        BY <3>1, IntendFilled
      <4>3. Gate(r, s, t, intent.type) = Nothing
        <5>1. r.admission = other
          BY <3>1 DEF Filled
        <5>2. CASE other = "all"
          BY <5>1, <5>2 DEF Gate
        <5>3. CASE w.admission = "original" /\ other # "all"
          <6>1. r.admission = w.admission
            BY <5>1, <5>3 DEF Policies
          <6>2. Gate(r, s, t, intent.type) = Gate(w, s, t, intent.type)
            BY <3>2, <6>1 DEF Gate
          <6> QED BY <1>8, <6>2
        <5> QED BY <3>2, <5>2, <5>3 DEF AdmitsAlike
      <4> QED BY <1>6, <1>8, <3>2, <4>1, <4>2, <4>3
    <3> QED BY <1>1, <1>3, <1>5, <1>6, <1>8, <3>1, <3>2, EventRecorded DEF r
  <2>2. u.events \in Seq(EventsOf(s))
    <3> DEFINE a == w.events
    <3>1. a \in Seq(EventsOf(s)) /\ u.events = Append(a, e)
      BY <1>1, <1>6, <1>8
    <3> HIDE DEF a
    <3> QED BY ONLY <1>5, <3>1, OneMore
  <2> QED BY <1>2, <2>1, <2>2 DEF Recorded, u
<1> QED BY <1>7, <1>8

\* An event that leaves voices f of the voices of w, heard again or recorded.
Rehears(f, w, s, e) ==
    (Flagged(s, "mute_on_pause") = s.types \/ e.kind \in {"play", "stop"}) =>
        \A r : "voices" \in DOMAIN r /\ r.voices = w.voices => Heard(r, s, e).voices = f

Records(u, w, f, e) == u = [w EXCEPT !.voices = f, !.events = Append(@, e)]

\* A write that is recorded with its event.
LEMMA WriteRecorded ==
    ASSUME NEW s \in Soundscapes, NEW t \in Nat, NEW policy \in Policies, NEW w, Recorded(w, s, t, policy),
           NEW e \in EventsOf(s), e.intent.tick = t,
           NEW f, MixOnward(f, w.voices, t), Mixer(f, s, t),
           NEW u, Records(u, w, f, e), Rehears(f, w, s, e)
    PROVE  /\ Recorded(u, s, t, policy)
           /\ HeardBy(u.voices, t) = HeardBy(w.voices, t)
<1>1. /\ Filled(w, s, t, policy) /\ w.events \in Seq(EventsOf(s))
      /\ \A other \in Policies : MixedAgain(w, s, t, other)
  BY DEF Recorded
<1>2. /\ u \in [admission : {u.admission}, voices : {u.voices}, events : {u.events}, dropped : {u.dropped}]
      /\ u.voices = f /\ u.events = Append(w.events, e) /\ u.admission = w.admission /\ u.dropped = w.dropped
  BY <1>1 DEF Filled, ObserverInv, Records
<1>3. TimedMixer(f, s, t) /\ HeardBy(f, t) = HeardBy(w.voices, t)
  BY OnwardHeard
<1>4. Filled(u, s, t, policy)
  BY <1>1, <1>2, <1>3 DEF Filled, ObserverInv
<1>5. u.events \in Seq(EventsOf(s))
  BY <1>1, <1>2
<1>6. ASSUME NEW other \in Policies PROVE MixedAgain(u, s, t, other)
  <2> DEFINE r == Remixed(w.events, s, other)
  <2>1. MutesAll(u, s) => Flagged(s, "mute_on_pause") = s.types \/ e.kind \in {"play", "stop"}
    <3> DEFINE a == w.events  b == Append(w.events, e)  n == Len(w.events)
    <3>1. n + 1 \in DOMAIN b /\ b[n + 1] = e
      <4>1. a \in Seq(EventsOf(s))
        BY <1>1
      <4>2. b = Append(a, e) /\ n = Len(a)
        OBVIOUS
      <4>3. e \in EventsOf(s)
        OBVIOUS
      <4> HIDE DEF a, b, n
      <4>4. Len(a) + 1 \in DOMAIN Append(a, e) /\ Append(a, e)[Len(a) + 1] = e
        BY ONLY <4>1, <4>3, OneMore
      <4> QED BY ONLY <4>2, <4>4
    <3> HIDE DEF b
    <3> QED BY <1>2, <3>1 DEF MutesAll, b
  <2>3. MixedAgain(w, s, t, other)
    BY <1>1
  <2>5. Filled(r, s, t, other)
    BY <2>3 DEF MixedAgain
  <2> HIDE DEF r
  <2>6. "voices" \in DOMAIN r
    BY <2>5 DEF Filled, ObserverInv
  <2>2. MutesAll(u, s) /\ AdmitsAlike(w, other) /\ r.voices = w.voices => Heard(r, s, e).voices = u.voices
    BY <1>2, <2>1, <2>6 DEF Rehears
  <2>4. /\ s \in Soundscapes /\ t \in Nat /\ other \in Policies /\ e \in EventsOf(s) /\ e.intent.tick = t
        /\ w.events \in Seq(EventsOf(s)) /\ u.events = Append(w.events, e) /\ u.admission = w.admission
        /\ r = Remixed(w.events, s, other)
    BY <1>1, <1>2 DEF r
  <2> QED BY ONLY <2>2, <2>3, <2>4, EventRecorded
<1> QED BY <1>2, <1>3, <1>4, <1>5, <1>6 DEF Recorded

\* A stop is recorded.
LEMMA StopRecorded ==
    ASSUME NEW s \in Soundscapes, NEW t \in Nat, NEW policy \in Policies, NEW w, Recorded(w, s, t, policy),
           NEW type \in s.types
    PROVE  /\ Recorded(WatchStop(w, t, type), s, t, policy)
           /\ HeardBy(WatchStop(w, t, type).voices, t) = HeardBy(w.voices, t)
<1> DEFINE e == Other("stop", Len(w.events), t, type)
           f == StopType(w.voices, t, type)
           u == [w EXCEPT !.voices = f, !.events = Append(@, e)]
<1>1. Filled(w, s, t, policy) /\ w.events \in Seq(EventsOf(s)) /\ w.admission = policy
  BY DEF Recorded, Filled
<1>2. WatchStop(w, t, type) = u
  BY <1>1 DEF WatchStop, Policies
<1>3. Len(w.events) \in Nat
  BY <1>1
<1>4. e.kind = "stop" /\ e.intent = [seq |-> Len(w.events), tick |-> t, type |-> type] /\ e \in EventsOf(s)
  BY <1>3 DEF Other, EventsOf
<1>5. e.intent.tick = t /\ e.intent.type = type
  BY <1>4
<1>6. MixOnward(f, w.voices, t) /\ Mixer(f, s, t)
  BY <1>1, WrittenFilled
<1> HIDE DEF e
<1>7. ASSUME NEW r, "voices" \in DOMAIN r, r.voices = w.voices PROVE Heard(r, s, e).voices = f
  <2>1. Heard(r, s, e) = [r EXCEPT !.voices = StopType(@, t, type)]
    BY <1>4, <1>5 DEF Heard
  <2>2. Heard(r, s, e).voices = StopType(r.voices, t, type)
    BY <1>7, <2>1
  <2> QED BY <1>7, <2>2
<1> HIDE DEF f
<1>8. Records(u, w, f, e) /\ Rehears(f, w, s, e)
  BY <1>7 DEF Records, Rehears
<1> HIDE DEF u
<1>9. Recorded(u, s, t, policy) /\ HeardBy(u.voices, t) = HeardBy(w.voices, t)
  <2>1. /\ s \in Soundscapes /\ t \in Nat /\ policy \in Policies /\ Recorded(w, s, t, policy)
        /\ e \in EventsOf(s) /\ e.intent.tick = t
    BY <1>4, <1>5
  <2> QED BY ONLY <1>6, <1>8, <2>1, WriteRecorded
<1> QED BY <1>2, <1>9

\* A pause or a resumption is recorded.
LEMMA PauseRecorded ==
    ASSUME NEW s \in Soundscapes, NEW t \in Nat, NEW policy \in Policies, NEW w, Recorded(w, s, t, policy),
           NEW entering
    PROVE  /\ Recorded(WatchPause(w, s, t, entering), s, t, policy)
           /\ HeardBy(WatchPause(w, s, t, entering).voices, t) = HeardBy(w.voices, t)
<1> DEFINE muted == Flagged(s, "mute_on_pause")
           e == Other(IF entering THEN "pause" ELSE "resume", Len(w.events), t, 0)
           f == IF entering THEN PauseTypes(w.voices, t, muted) ELSE ResumeTypes(w.voices, t, muted)
           u == [w EXCEPT !.voices = f, !.events = Append(@, e)]
<1>1. Filled(w, s, t, policy) /\ w.events \in Seq(EventsOf(s)) /\ w.admission = policy
  BY DEF Recorded, Filled
<1>2. WatchPause(w, s, t, entering) = u
  BY <1>1 DEF WatchPause, Policies
<1>3. Len(w.events) \in Nat
  BY <1>1
<1>4. /\ e.kind = IF entering THEN "pause" ELSE "resume"
      /\ e.intent = [seq |-> Len(w.events), tick |-> t, type |-> 0] /\ e \in EventsOf(s)
  BY <1>3 DEF Other, EventsOf
<1>5. e.intent.tick = t
  BY <1>4
<1>6. MixOnward(f, w.voices, t) /\ Mixer(f, s, t)
  BY <1>1, WrittenFilled
<1> HIDE DEF e
<1>7. ASSUME muted = s.types, NEW r, "voices" \in DOMAIN r, r.voices = w.voices PROVE Heard(r, s, e).voices = f
  <2>1. Heard(r, s, e) = IF entering THEN [r EXCEPT !.voices = PauseTypes(@, t, s.types)]
                         ELSE [r EXCEPT !.voices = ResumeTypes(@, t, s.types)]
    BY <1>4, <1>5 DEF Heard
  <2>2. Heard(r, s, e).voices = IF entering THEN PauseTypes(r.voices, t, s.types)
                                ELSE ResumeTypes(r.voices, t, s.types)
    BY <1>7, <2>1
  <2> QED BY <1>7, <2>2
<1> HIDE DEF f
<1>8. Records(u, w, f, e) /\ Rehears(f, w, s, e)
  BY <1>4, <1>7 DEF Records, Rehears
<1> HIDE DEF u
<1>9. Recorded(u, s, t, policy) /\ HeardBy(u.voices, t) = HeardBy(w.voices, t)
  <2>1. /\ s \in Soundscapes /\ t \in Nat /\ policy \in Policies /\ Recorded(w, s, t, policy)
        /\ e \in EventsOf(s) /\ e.intent.tick = t
    BY <1>4, <1>5
  <2> QED BY ONLY <1>6, <1>8, <2>1, WriteRecorded
<1> QED BY <1>2, <1>9

\* A filled mixer is one at the next tick.
LEMMA LaterFilled ==
    ASSUME NEW s, NEW t \in Nat, NEW policy, NEW r, Filled(r, s, t, policy)
    PROVE  Filled(r, s, t + 1, policy)
<1>1. ObserverInv(r, s, t + 1)
  BY LaterKept DEF Filled
<1>2. \A i \in DOMAIN r.voices : r.voices[i] \in VoicesOf(s) /\ Timed(r.voices[i], t)
  BY MixerVoice DEF Filled, TimedMixer
<1>3. \A i \in DOMAIN r.voices : Timed(r.voices[i], t + 1)
  BY <1>2, LaterTimed
<1> QED BY <1>1, <1>3 DEF Filled, TimedMixer, ObserverInv

\* And so is a record one.
LEMMA LaterRecorded ==
    ASSUME NEW s, NEW t \in Nat, NEW policy, NEW w, Recorded(w, s, t, policy)
    PROVE  Recorded(w, s, t + 1, policy)
<1>1. Filled(w, s, t + 1, policy)
  BY LaterFilled DEF Recorded
<1>2. ASSUME NEW other \in Policies PROVE MixedAgain(w, s, t + 1, other)
  <2>1. MixedAgain(w, s, t, other)
    BY DEF Recorded
  <2>2. Filled(Remixed(w.events, s, other), s, t + 1, other)
    BY <2>1, LaterFilled DEF MixedAgain
  <2> QED BY <2>1, <2>2 DEF MixedAgain
<1> QED BY <1>1, <1>2 DEF Recorded

\* At first nothing is recorded.
LEMMA MixInit == Init => MixInv
<1> SUFFICES ASSUME Init PROVE MixInv
  OBVIOUS
<1> DEFINE w == Watcher(admission)  none == <<>>
<1>1. scape \in Soundscapes /\ tick = 0 /\ admission \in Policies /\ heard = {} /\ watched.watcher = w
  BY DEF Init, NewMachine, Policies
<1>2. /\ w.voices = none /\ w.events = none
  BY DEF Watcher
<1>3. ASSUME NEW policy PROVE Filled(Watcher(policy), scape, 0, policy)
  <2> DEFINE r == Watcher(policy)
  <2>1. /\ r \in [admission : {r.admission}, voices : {r.voices}, events : {r.events}, dropped : {r.dropped}]
        /\ r.voices = <<>> /\ r.admission = policy /\ r.dropped = 0
    BY DEF Watcher
  <2> HIDE DEF r
  <2> QED BY <2>1 DEF Filled, ObserverInv, TimedMixer, Mixer, r
<1>4. ASSUME NEW policy \in Policies PROVE MixedAgain(w, scape, 0, policy)
  <2>1. Remixed(none, scape, policy) = Watcher(policy)
    <3>1. <<>> \in Seq({0}) /\ 0 \in {0}
      OBVIOUS
    <3> QED BY <3>1, RemixedNext
  <2>2. Watcher(policy).voices = none /\ Watcher(policy).dropped = 0
    BY DEF Watcher
  <2>3. Len(none) = 0 /\ Plays(none) = {}
    BY DEF Plays
  <2>4. Cardinality(Plays(none)) = 0
    BY <2>3, FS_EmptySet
  <2> HIDE DEF w, none
  <2>5. Cardinality(Plays(none)) = Len(none) + 0
    BY <2>3, <2>4
  <2> QED BY <1>2, <1>3, <2>1, <2>2, <2>5 DEF MixedAgain
<1>5. none \in Seq(EventsOf(scape))
  OBVIOUS
<1>6. HeardBy(none, 0) = {}
  BY DEF HeardBy
<1> HIDE DEF w, none
<1>7. Recorded(w, scape, 0, admission)
  BY <1>2, <1>3, <1>4, <1>5 DEF Recorded, w
<1> QED BY <1>1, <1>2, <1>6, <1>7 DEF MixInv

\* What the observer's record becomes when the tick stays.
LEMMA MixStep ==
    ASSUME MixInv, NEW w, Recorded(w, scape, tick, admission),
           HeardBy(w.voices, tick) = HeardBy(watched.watcher.voices, tick),
           watched'.watcher = w, UNCHANGED <<scape, tick, admission, heard>>
    PROVE  MixInv'
BY DEF MixInv

\* Every step keeps the record, and what was heard.
LEMMA MixNext == ASSUME SilentInv, WatchInv, MixInv, [Next]_vars PROVE MixInv'
<1> DEFINE m == watched
<1>1. /\ Silent(m, scape) /\ scape \in Soundscapes /\ tick \in Nat /\ m.draws \in Nat /\ m.told \in Nat
      /\ Recorded(m.watcher, scape, tick, admission) /\ admission \in Policies
  BY DEF SilentInv, WatchInv, MixInv
<1>2. CASE Play
  <2>1. PICK type \in scape.types, pitch \in DOMAIN PitchRate :
           Acted(LAMBDA x : PlayFoley(x, scape, tick, type, pitch))
    BY <1>2 DEF Play
  <2>2. watched' = PlayFoley(m, scape, tick, type, pitch) /\ UNCHANGED <<scape, tick, admission, heard>>
    BY <2>1 DEF Acted
  <2> DEFINE intent == IntentOf(m, scape, tick, type, pitch)  w == Intend(m.watcher, scape, intent)
  <2>3. intent \in Intents(scape, tick)
    BY <1>1, IntentIn
  <2>4. Observed(watched', w, m.draws + 1, m.told + 1)
    BY <1>1, <2>2, ObservedPlay
  <2> HIDE DEF intent
  <2>5. Recorded(w, scape, tick, admission) /\ HeardBy(w.voices, tick) = HeardBy(m.watcher.voices, tick)
    BY <1>1, <2>3, IntendRecorded
  <2> HIDE DEF w
  <2> QED BY <2>2, <2>4, <2>5, MixStep DEF Observed
<1>3. CASE Stop
  <2>1. PICK type \in scape.types : Acted(LAMBDA x : StopFoley(x, scape, tick, type))
    BY <1>3 DEF Stop
  <2>2. watched' = StopFoley(m, scape, tick, type) /\ UNCHANGED <<scape, tick, admission, heard>>
    BY <2>1 DEF Acted
  <2> DEFINE w == WatchStop(m.watcher, tick, type)
  <2>3. Observed(watched', w, m.draws, m.told)
    BY <1>1, <2>2, ObservedStop
  <2>4. Recorded(w, scape, tick, admission) /\ HeardBy(w.voices, tick) = HeardBy(m.watcher.voices, tick)
    BY <1>1, StopRecorded
  <2> HIDE DEF w
  <2> QED BY <2>2, <2>3, <2>4, MixStep DEF Observed
<1>4. CASE Pause
  <2>1. PICK entering \in BOOLEAN : Acted(LAMBDA x : GamePause(x, scape, tick, entering))
    BY <1>4 DEF Pause
  <2>2. watched' = GamePause(m, scape, tick, entering) /\ UNCHANGED <<scape, tick, admission, heard>>
    BY <2>1 DEF Acted
  <2> DEFINE w == WatchPause(m.watcher, scape, tick, entering)
  <2>3. Observed(watched', w, m.draws, m.told + 1)
    BY <1>1, <2>2, ObservedPause
  <2>4. Recorded(w, scape, tick, admission) /\ HeardBy(w.voices, tick) = HeardBy(m.watcher.voices, tick)
    BY <1>1, PauseRecorded
  <2> HIDE DEF w
  <2> QED BY <2>2, <2>3, <2>4, MixStep DEF Observed
<1>5. CASE Cancel \/ Query
  <2>1. /\ watched' = CancelPaused(m, tick) \/ watched' = Asked(m, tick)
        /\ UNCHANGED <<scape, tick, admission, heard>>
    BY <1>5 DEF Cancel, Query, Acted
  <2>2. CancelPaused(m, tick) = m
    BY <1>1, SilentCancel
  <2>3. Asked(m, tick) = m
    BY <1>1, SilentRelease DEF Asked
  <2> QED BY <1>1, <2>1, <2>2, <2>3, MixStep
<1>6. CASE EndTick
  <2> DEFINE voices == m.watcher.voices
  <2>1. /\ watched' = watched /\ scape' = scape /\ admission' = admission /\ tick' = tick + 1
        /\ heard' = heard \union {<<tick, i>> : i \in {j \in DOMAIN voices : IsPlaying(voices[j], tick)}}
    BY <1>6 DEF EndTick
  <2>2. Recorded(m.watcher, scape, tick + 1, admission)
    BY <1>1, LaterRecorded
  <2>3. TimedMixer(voices, scape, tick) /\ Mixer(voices, scape, tick + 1)
    BY <1>1, <2>2 DEF Recorded, Filled, TimedMixer
  <2>4. heard = HeardBy(voices, tick)
    BY DEF MixInv
  <2> HIDE DEF voices
  <2>5. heard' = HeardBy(voices, tick + 1)
    BY <1>1, <2>1, <2>3, <2>4, TickHeard
  <2> QED BY <1>1, <2>1, <2>2, <2>5 DEF MixInv, voices
<1>7. CASE Render \/ UNCHANGED vars
  <2>1. UNCHANGED <<watched, scape, tick, admission, heard>>
    BY <1>7 DEF Render, vars
  <2> QED BY <2>1 DEF MixInv
<1> QED BY <1>2, <1>3, <1>4, <1>5, <1>6, <1>7 DEF Next

-----------------------------------------------------------------------------
(* Where a part ends, and how many frames it writes *)

\* A buffer does not end before its segment starts.
LEMMA NaturalAfter ==
    ASSUME NEW s, NEW v \in VoicesOf(s), NEW x \in Segments
    PROVE  NaturalEnd(v, x) \in Nat /\ x.start <= NaturalEnd(v, x)
<1> DEFINE p == x.rate[1]  q == x.rate[2]  r == v.duration - x.offset  S == SamplesPerTick
<1>1. p \in Nat \ {0} /\ q \in Nat \ {0} /\ x.offset \in Int /\ x.start \in Nat /\ S \in Nat \ {0}
  BY SamplesAssumption DEF Segments, Rates
<1>2. r \in Int
  BY <1>1 DEF VoicesOf
<1>3. NaturalEnd(v, x) = IF r <= 0 THEN x.start ELSE x.start + CeilDiv(r * q, p * S)
  BY DEF NaturalEnd
<1> HIDE DEF p, q, r, S
<1>4. CASE r <= 0
  BY <1>1, <1>3, <1>4
<1>5. CASE ~(r <= 0)
  <2> DEFINE a == r * q  b == p * S
  <2>1. a \in Int /\ a > 0
    BY <1>1, <1>2, <1>5
  <2>2. b \in Nat \ {0}
    BY <1>1
  <2>3. NaturalEnd(v, x) = x.start + CeilDiv(a, b)
    BY <1>3, <1>5
  <2> HIDE DEF a, b
  <2>4. b * (-1) < a
    BY <2>1, <2>2
  <2>5. CeilDiv(a, b) \in Int /\ -1 < CeilDiv(a, b)
    BY <2>1, <2>2, <2>4, CeilGreater
  <2> HIDE DEF CeilDiv
  <2> QED BY <1>1, <2>3, <2>5
<1> QED BY <1>4, <1>5

\* A set of frames that holds all before one of its frames is as large as its first gap.
LEMMA FirstGap ==
    ASSUME NEW n \in Nat, NEW W \in SUBSET (0..(n - 1)), \A i, j \in 0..(n - 1) : i < j /\ j \in W => i \in W
    PROVE  /\ Cardinality(W) \in Nat /\ Cardinality(W) <= n
           /\ \A i \in 0..(n - 1) : i < Cardinality(W) <=> i \in W
<1> DEFINE gaps == {i \in 0..n : i \notin W}
           k == LeastIn(gaps)
<1>1. n \in gaps /\ gaps \subseteq Nat /\ gaps # {}
  OBVIOUS
<1>2. k \in gaps /\ \A i \in gaps : k <= i
  BY <1>1, LeastNat
<1>3. k \in 0..n /\ k \notin W
  BY <1>2
<1>4. \A i \in 0..n : i \notin W => k <= i
  BY <1>2
<1> HIDE DEF k, gaps
<1>5. ASSUME NEW i \in 0..(n - 1) PROVE i < k <=> i \in W
  <2>1. i \in 0..n /\ i \in Int /\ k \in Int
    BY <1>3
  <2>2. i \notin W => ~(i < k)
    BY <1>4, <2>1
  <2>3. ~(i < k) => i \notin W
    <3>1. SUFFICES ASSUME ~(i < k), i \in W PROVE FALSE
      OBVIOUS
    <3>2. k # i
      BY <1>3, <3>1
    <3>3. k < i /\ k \in 0..(n - 1)
      BY <1>3, <2>1, <3>1, <3>2
    <3> QED BY <1>3, <3>1, <3>3
  <2> QED BY <2>2, <2>3
<1>6. W = 0..(k - 1)
  <2>1. \A i : i \in W => i \in 0..(n - 1)
    OBVIOUS
  <2>2. \A i : i \in 0..(k - 1) => i \in 0..(n - 1) /\ i < k
    BY <1>3
  <2>3. \A i \in 0..(n - 1) : i < k => i \in 0..(k - 1)
    BY <1>3
  <2>4. \A i : i \in W <=> i \in 0..(k - 1)
    BY <1>5, <2>1, <2>2, <2>3
  <2> QED BY <2>4
<1>7. Cardinality(W) = k
  <2>1. k \in Nat /\ 0 \in Int /\ k - 1 \in Int
    BY <1>3
  <2>2. Cardinality(0..(k - 1)) = IF 0 > k - 1 THEN 0 ELSE (k - 1) - 0 + 1
    BY ONLY <2>1, FS_Interval
  <2> QED BY <1>6, <2>1, <2>2
<1> QED BY <1>3, <1>5, <1>7

\* The frames a segment writes until it stops.
LEMMA WrittenIs ==
    ASSUME NEW s, NEW v \in VoicesOf(s), NEW x \in Segments, NEW stop \in Nat, x.start <= stop
    PROVE  LET n == (stop - x.start) * SamplesPerTick
           IN  /\ n \in Nat /\ Written(v, x, stop) \in Nat /\ Written(v, x, stop) <= n
               /\ \A i \in 0..(n - 1) : i < Written(v, x, stop) <=>
                     v.loop \/ x.offset + (i * x.rate[1]) \div x.rate[2] < v.duration
<1> DEFINE n == (stop - x.start) * SamplesPerTick
           p == x.rate[1]  q == x.rate[2]  o == x.offset  d == v.duration
           W == {i \in 0..(n - 1) : v.loop \/ o + (i * p) \div q < d}
<1>1. p \in Nat \ {0} /\ q \in Nat \ {0} /\ o \in Int /\ x.start \in Nat /\ d \in Nat \ {0}
  BY DEF Segments, Rates, VoicesOf
<1>2. n \in Nat
  BY <1>1, SamplesAssumption
<1>3. Written(v, x, stop) = Cardinality(W)
  BY DEF Written
<1> HIDE DEF n, p, q, o, d
<1>4. ASSUME NEW i \in 0..(n - 1), NEW j \in 0..(n - 1), i < j, o + (j * p) \div q < d
      PROVE  o + (i * p) \div q < d
  <2> DEFINE a == i * p  b == j * p  c == d - o
  <2>1. a \in Int /\ b \in Int /\ c \in Int
    BY <1>1, <1>2
  <2>2. a <= b
    BY <1>1, <1>2, <1>4
  <2>3. o + b \div q < d
    BY <1>4
  <2> HIDE DEF a, b
  <2>4. a \div q \in Int /\ b \div q \in Int
    BY <1>1, <2>1, DivBounds
  <2>5. b \div q < c
    BY <1>1, <2>3, <2>4
  <2> HIDE DEF c
  <2>6. b < q * c
    BY <1>1, <2>1, <2>5, DivLess
  <2> DEFINE z == q * c
  <2>7. z \in Int /\ b < z
    BY <1>1, <2>1, <2>6
  <2> HIDE DEF z
  <2>8. a < z
    BY <2>1, <2>2, <2>7
  <2>9. a \div q < c
    BY <1>1, <2>1, <2>8, DivLess DEF z
  <2> HIDE DEF p, q
  <2>10. o + a \div q < d
    BY <1>1, <2>1, <2>4, <2>9 DEF c
  <2> QED BY <2>10 DEF a
<1>5. \A i, j \in 0..(n - 1) : i < j /\ j \in W => i \in W
  BY <1>4
<1>6. W \in SUBSET (0..(n - 1))
  OBVIOUS
<1>7. \A i \in 0..(n - 1) : i \in W <=> (v.loop \/ o + (i * p) \div q < d)
  OBVIOUS
<1> HIDE DEF W
<1>8. /\ Cardinality(W) \in Nat /\ Cardinality(W) <= n
      /\ \A i \in 0..(n - 1) : i < Cardinality(W) <=> i \in W
  BY <1>2, <1>5, <1>6, FirstGap
<1> QED BY <1>2, <1>3, <1>7, <1>8 DEF n, p, q, o, d

\* A part ends with its segment, its buffer or the track, whichever ends first.
LEMMA PartEnds ==
    ASSUME NEW s, NEW v \in VoicesOf(s), NEW t \in Nat, Timed(v, t), NEW n \in 1..Len(v.segs), NEW end \in Nat
    PROVE  LET x == v.segs[n]
               stop == PartEnd(v, x, end)
           IN  /\ Stops(v, x) \subseteq Nat
               /\ stop \in Nat /\ stop <= end
               /\ stop < x.start <=> end < x.start
               /\ \A u \in Nat : u < stop <=>
                     (u < end /\ (x.end # Running => u < x.end) /\ (~v.loop => u < NaturalEnd(v, x)))
<1> DEFINE x == v.segs[n]  stop == PartEnd(v, x, end)  S == Stops(v, x) \union {end}  z == NaturalEnd(v, x)
<1>1. x \in Segments /\ x.start \in Nat /\ (x.end = Running \/ x.end \in Nat)
  BY TimedTyped
<1>2. x.end # Running => x.start <= x.end
  BY DEF Timed, TimedSegs
<1>3. z \in Nat /\ x.start <= z
  BY <1>1, NaturalAfter
<1>4. v.loop \in BOOLEAN
  BY DEF VoicesOf
<1>5. S = (IF x.end = Running THEN {} ELSE {x.end}) \union (IF v.loop THEN {} ELSE {z}) \union {end}
  BY DEF Stops
<1>6. Stops(v, x) = (IF x.end = Running THEN {} ELSE {x.end}) \union (IF v.loop THEN {} ELSE {z})
  BY DEF Stops
<1>7. stop = LeastIn(S)
  BY DEF PartEnd
<1> HIDE DEF x, z, S, stop
<1>8. S \subseteq Nat /\ end \in S /\ (x.end # Running => x.end \in S) /\ (~v.loop => z \in S)
  BY <1>1, <1>3, <1>5
<1>9. stop \in S /\ \A y \in S : stop <= y
  BY <1>7, <1>8, LeastNat
<1>10. \A y \in S : y = end \/ (x.end # Running /\ y = x.end) \/ (~v.loop /\ y = z)
  BY <1>4, <1>5
<1>11. stop \in Nat /\ stop <= end
  BY <1>8, <1>9
<1>12. stop = end \/ (x.end # Running /\ stop = x.end) \/ (~v.loop /\ stop = z)
  BY <1>9, <1>10
<1>13. stop < x.start <=> end < x.start
  BY <1>1, <1>2, <1>3, <1>11, <1>12
<1>14. (x.end # Running => stop <= x.end) /\ (~v.loop => stop <= z)
  BY <1>8, <1>9
<1>15. ASSUME NEW u \in Nat
       PROVE  u < stop <=> u < end /\ (x.end # Running => u < x.end) /\ (~v.loop => u < z)
  BY <1>1, <1>3, <1>11, <1>12, <1>14
<1>16. Stops(v, x) \subseteq Nat
  BY <1>1, <1>3, <1>6
<1> QED BY <1>11, <1>13, <1>15, <1>16 DEF x, z, S, stop

\* What the part of a segment writes, and when it is heard.
PartOf(part, v, x, end) ==
    /\ part.start = x.start /\ x.start \in Nat
    /\ part.end \in Nat /\ part.end <= end /\ part.start <= part.end
    /\ part.frames \in Nat /\ part.frames <= (part.end - part.start) * SamplesPerTick
    /\ part.first = IF part.frames = 0 THEN NoFrame ELSE x.start * SamplesPerTick
    /\ \A u \in 0..(end - 1) :
          (part.frames > 0 /\ u * SamplesPerTick \in part.first..(EndFrame(part) - 1)) <=> Runs(v, x, u)

\* The part of a segment that lasts is heard while its segment runs.
LEMMA PartIs ==
    ASSUME NEW s, NEW v \in VoicesOf(s), NEW t \in Nat, Timed(v, t), NEW end \in Nat, NEW n \in Lasting(v, end)
    PROVE  PartOf(PartAt(v, n, end), v, v.segs[n], end)
<1> DEFINE x == v.segs[n]  stop == PartEnd(v, x, end)  w == Written(v, x, stop)  part == PartAt(v, n, end)
           S == SamplesPerTick  N == (stop - x.start) * S
<1>1. n \in 1..Len(v.segs) /\ ~(stop < x.start)
  BY DEF Lasting
<1>2. x \in Segments /\ x.start \in Nat
  BY <1>1, TimedTyped
<1>3. /\ stop \in Nat /\ stop <= end /\ ~(stop < x.start)
      /\ \A u \in Nat : u < stop <=>
            (u < end /\ (x.end # Running => u < x.end) /\ (~v.loop => u < NaturalEnd(v, x)))
  BY <1>1, PartEnds
<1>4. part = [start |-> x.start, end |-> stop, frames |-> w, first |-> IF w = 0 THEN NoFrame ELSE x.start * S]
  BY DEF PartAt, Part
<1> HIDE DEF x, stop, part
<1>5. x.start <= stop
  BY <1>2, <1>3
<1>6. /\ N \in Nat /\ w \in Nat /\ w <= N
      /\ \A i \in 0..(N - 1) : i < w <=> v.loop \/ x.offset + (i * x.rate[1]) \div x.rate[2] < v.duration
  BY <1>2, <1>3, <1>5, WrittenIs
<1>7. S \in Nat \ {0}
  BY SamplesAssumption
<1> HIDE DEF w, S
<1>8. /\ part.start = x.start /\ part.end = stop /\ part.frames = w
      /\ part.first = IF w = 0 THEN NoFrame ELSE x.start * S
  BY <1>4
<1>9. ASSUME NEW u \in 0..(end - 1)
      PROVE  (w > 0 /\ u * S \in part.first..(EndFrame(part) - 1)) <=> Runs(v, x, u)
  <2>1. u \in Nat /\ u < end
    BY <1>3
  <2>2. Runs(v, x, u) <=> x.start <= u /\ u < stop
    BY <1>3, <2>1 DEF Runs
  <2> DEFINE h == u - x.start
  <2>3. (w > 0 /\ u * S \in part.first..(EndFrame(part) - 1))
          <=> (w > 0 /\ x.start * S <= u * S /\ u * S < x.start * S + w)
    <3>1. CASE w > 0
      <4> DEFINE a == x.start * S  b == u * S
      <4>1. part.first = a /\ EndFrame(part) = a + w
        BY <1>6, <1>8, <3>1 DEF EndFrame
      <4>2. a \in Int /\ b \in Int
        BY <1>2, <1>7, <2>1
      <4> HIDE DEF a, b
      <4>3. b \in a..((a + w) - 1) <=> a <= b /\ b < a + w
        BY <1>6, <4>2
      <4> QED BY <3>1, <4>1, <4>3 DEF a, b
    <3> QED BY <3>1
  <2>4. CASE ~(x.start <= u)
    <3>1. u * S < x.start * S
      BY <1>2, <1>7, <2>1, <2>4
    <3> DEFINE a == x.start * S  b == u * S
    <3>2. a \in Int /\ b \in Int /\ b < a
      BY <1>2, <1>7, <2>1, <3>1
    <3> HIDE DEF a, b
    <3>3. ~(a <= b)
      BY <3>2
    <3> QED BY <2>2, <2>3, <2>4, <3>3 DEF a, b
  <2>5. CASE x.start <= u
    <3>1. h \in Nat /\ u = x.start + h
      BY <1>2, <2>1, <2>5
    <3>2. u * S = x.start * S + h * S /\ h * S \in Nat /\ x.start * S \in Nat
      BY <1>2, <1>7, <2>1, <3>1
    <3>3. Runs(v, x, u) => h * S \in 0..(N - 1)
      <4>1. SUFFICES ASSUME u < stop PROVE h * S \in 0..(N - 1)
        BY <2>2
      <4>2. h + 1 <= stop - x.start
        BY <1>2, <1>3, <2>1, <4>1
      <4>3. (h + 1) * S <= (stop - x.start) * S
        BY <1>2, <1>3, <1>7, <3>1, <4>2
      <4>4. (h + 1) * S = h * S + S
        BY <1>7, <3>1
      <4> DEFINE y == h * S
      <4>5. y \in Nat /\ y + S <= N
        BY <3>2, <4>3, <4>4
      <4> HIDE DEF N, y
      <4>6. y \in 0..(N - 1)
        BY <1>6, <1>7, <4>5
      <4> QED BY <4>6 DEF y
    <3>4. h * S < w => u < stop
      <4>1. SUFFICES ASSUME ~(u < stop) PROVE ~(h * S < w)
        OBVIOUS
      <4>2. stop - x.start <= h
        BY <1>2, <1>3, <2>1, <4>1
      <4>3. (stop - x.start) * S <= h * S
        BY <1>2, <1>3, <1>7, <3>1, <4>2
      <4> DEFINE y == h * S
      <4>4. N <= y /\ y \in Nat
        BY <3>2, <4>3
      <4> HIDE DEF N, y
      <4>5. ~(y < w)
        BY <1>6, <4>4
      <4> QED BY <4>5 DEF y
    <3>5. Runs(v, x, u) => h * S < w
      <4> SUFFICES ASSUME Runs(v, x, u) PROVE h * S < w
        OBVIOUS
      <4>1. v.loop \/ x.offset + ((h * S) * x.rate[1]) \div x.rate[2] < v.duration
        <5>1. CASE ~v.loop
          <6>1. u < NaturalEnd(v, x)
            BY <5>1 DEF Runs
          <6>2. Cursor(x, u) < v.duration
            BY <1>2, <2>1, <2>5, <6>1, EndsWhenPassed
          <6> QED BY <6>2 DEF Cursor, S
        <5> QED BY <5>1
      <4>2. h * S \in 0..(N - 1)
        BY <3>3
      <4> DEFINE y == h * S
      <4>3. y \in 0..(N - 1) /\ (v.loop \/ x.offset + (y * x.rate[1]) \div x.rate[2] < v.duration)
        BY <4>1, <4>2
      <4> HIDE DEF y, N, h
      <4>4. y < w
        BY <1>6, <4>3
      <4> QED BY <4>4 DEF y
    <3> DEFINE a == x.start * S  b == h * S
    <3>6. a \in Nat /\ b \in Nat /\ u * S = a + b
      BY <3>2
    <3>7. Runs(v, x, u) <=> b < w
      BY <2>2, <2>5, <3>4, <3>5
    <3> HIDE DEF a, b
    <3>8. (w > 0 /\ a <= a + b /\ a + b < a + w) <=> b < w
      BY <1>6, <3>6
    <3> QED BY <2>3, <3>6, <3>7, <3>8 DEF a
  <2> QED BY <2>4, <2>5
<1> QED BY <1>2, <1>3, <1>5, <1>6, <1>8, <1>9 DEF PartOf, x, part, S

-----------------------------------------------------------------------------
(* A voice that is laid *)

\* The parts of a voice, each of a segment that lasts.
LEMMA PartsAre ==
    ASSUME NEW s, NEW v \in VoicesOf(s), NEW t \in Nat, Timed(v, t), NEW end \in Nat
    PROVE  LET parts == Parts(v, end)
           IN  /\ Len(parts) \in Nat /\ DOMAIN parts = 1..Len(parts)
               /\ \A i \in DOMAIN parts : \E n \in Lasting(v, end) :
                     parts[i] = PartAt(v, n, end) /\ PartOf(parts[i], v, v.segs[n], end)
               /\ \A n \in Lasting(v, end) : \E i \in DOMAIN parts : parts[i] = PartAt(v, n, end)
               /\ 1 \in Lasting(v, end) => Len(parts) > 0 /\ parts[1] = PartAt(v, 1, end)
<1> DEFINE parts == Parts(v, end)  k == Len(v.segs)
<1>1. k \in Nat \ {0}
  BY TimedTyped
<1>2. v.segs \in Seq(Segments)
  BY DEF VoicesOf, SegSeqs
<1>3. LaidSoFar(parts, k, v, end)
  BY <1>2, PartsLaid
<1> HIDE DEF parts, k
<1>4. parts \in Seq(Made(v, end))
  BY <1>3 DEF LaidSoFar
<1>5. Len(parts) \in Nat /\ DOMAIN parts = 1..Len(parts) /\ \A i \in 1..Len(parts) : parts[i] \in Made(v, end)
  BY <1>4
<1>6. ASSUME NEW i \in DOMAIN parts
      PROVE  \E n \in Lasting(v, end) : parts[i] = PartAt(v, n, end) /\ PartOf(parts[i], v, v.segs[n], end)
  <2>1. PICK n \in Lasting(v, end) : parts[i] = PartAt(v, n, end)
    BY <1>5 DEF Made
  <2>2. PartOf(PartAt(v, n, end), v, v.segs[n], end)
    BY PartIs
  <2> QED BY <2>1, <2>2
<1>7. \A n \in Lasting(v, end) : n <= k
  BY DEF Lasting, k
<1>8. \A n \in Lasting(v, end) : \E i \in DOMAIN parts : parts[i] = PartAt(v, n, end)
  BY <1>3, <1>5, <1>7 DEF LaidSoFar
<1>9. 1 \in Lasting(v, end) => Len(parts) > 0 /\ parts[1] = PartAt(v, 1, end)
  BY <1>1, <1>3 DEF LaidSoFar
<1> QED BY <1>5, <1>6, <1>8, <1>9 DEF parts

\* A voice is heard in the track when it is heard in the mixer.
LEMMA SoundsLaid ==
    ASSUME NEW s, NEW v \in VoicesOf(s), NEW t \in Nat, Timed(v, t), NEW end \in Nat, NEW u \in 0..(end - 1)
    PROVE  Sounds(u, Laid(v, Parts(v, end))) <=> SoundsAt(v, u)
<1> DEFINE parts == Parts(v, end)
<1>1. /\ \A i \in DOMAIN parts : \E n \in Lasting(v, end) :
            parts[i] = PartAt(v, n, end) /\ PartOf(parts[i], v, v.segs[n], end)
      /\ \A n \in Lasting(v, end) : \E i \in DOMAIN parts : parts[i] = PartAt(v, n, end)
  BY PartsAre
<1>2. Laid(v, parts).parts = parts
  BY DEF Laid
<1> HIDE DEF parts
<1>3. Sounds(u, Laid(v, parts)) <=>
        \E i \in DOMAIN parts : parts[i].frames > 0 /\ u * SamplesPerTick \in parts[i].first..(EndFrame(parts[i]) - 1)
  BY <1>2 DEF Sounds, Sounding
<1>4. ASSUME NEW i \in DOMAIN parts, parts[i].frames > 0,
             u * SamplesPerTick \in parts[i].first..(EndFrame(parts[i]) - 1)
      PROVE  SoundsAt(v, u)
  <2>1. PICK n \in Lasting(v, end) : PartOf(parts[i], v, v.segs[n], end)
    BY <1>1
  <2>2. Runs(v, v.segs[n], u)
    BY <1>4, <2>1 DEF PartOf
  <2>3. n \in 1..Len(v.segs)
    BY DEF Lasting
  <2> QED BY <2>2, <2>3 DEF SoundsAt
<1>5. ASSUME NEW n \in 1..Len(v.segs), Runs(v, v.segs[n], u)
      PROVE  \E i \in DOMAIN parts : /\ parts[i].frames > 0
                                     /\ u * SamplesPerTick \in parts[i].first..(EndFrame(parts[i]) - 1)
  <2> DEFINE x == v.segs[n]  stop == PartEnd(v, x, end)
  <2>1. u \in Nat /\ u < end
    OBVIOUS
  <2>2. /\ stop \in Nat
        /\ u < stop <=> (u < end /\ (x.end # Running => u < x.end) /\ (~v.loop => u < NaturalEnd(v, x)))
    BY <2>1, PartEnds
  <2>3. x.start <= u /\ x.start \in Nat
    BY <1>5, TimedTyped DEF Runs
  <2>4. u < stop
    BY <1>5, <2>1, <2>2 DEF Runs
  <2>5. ~(stop < x.start)
    <3> HIDE DEF stop, x
    <3> QED BY <2>1, <2>2, <2>3, <2>4
  <2>6. n \in Lasting(v, end)
    BY <2>5 DEF Lasting
  <2>7. PICK i \in DOMAIN parts : parts[i] = PartAt(v, n, end)
    BY <1>1, <2>6
  <2>8. PartOf(parts[i], v, v.segs[n], end)
    BY <2>6, <2>7, PartIs
  <2>9. parts[i].frames > 0 /\ u * SamplesPerTick \in parts[i].first..(EndFrame(parts[i]) - 1)
    BY <1>5, <2>8 DEF PartOf
  <2> QED BY <2>9
<1> QED BY <1>3, <1>4, <1>5 DEF SoundsAt, parts

\* The first frame of a part that sounds, and the frame after its last one.
LEMMA SoundingPart ==
    ASSUME NEW part, NEW v, NEW x, NEW end \in Nat, PartOf(part, v, x, end), part.frames > 0
    PROVE  /\ part.first = part.start * SamplesPerTick /\ part.first \in Nat
           /\ EndFrame(part) \in Nat /\ EndFrame(part) <= end * SamplesPerTick
<1> DEFINE S == SamplesPerTick  a == part.start * S  b == part.end * S  c == end * S  d == (part.end - part.start) * S
<1>1. S \in Nat \ {0}
  BY SamplesAssumption
<1>2. /\ part.start \in Nat /\ part.end \in Nat /\ part.end <= end /\ part.frames \in Nat
      /\ part.frames <= d /\ part.first = a
  BY DEF PartOf
<1> HIDE DEF S
<1>3. a \in Nat /\ d = b - a
  BY <1>1, <1>2
<1>4. b \in Nat /\ c \in Nat /\ b <= c
  BY <1>1, <1>2
<1> HIDE DEF a, b, c, d
<1>5. part.first = a /\ EndFrame(part) = a + part.frames /\ EndFrame(part) <= c
  BY <1>2, <1>3, <1>4 DEF EndFrame
<1> QED BY <1>2, <1>3, <1>5 DEF a, c, S

\* What a voice verifies by.
LEMMA Verifies ==
    ASSUME NEW l, NEW c, l.frames = Sum(l.parts),
           \/ l.first = NoFrame
           \/ /\ l.first = l.start * SamplesPerTick /\ ~(l.last > c)
              /\ UNION {PartFailures(l.parts[n]) : n \in DOMAIN l.parts} = {}
              /\ l.first = LeastIn({l.parts[n].start * SamplesPerTick : n \in Sounding(l.parts)})
              /\ l.last = GreatestIn({EndFrame(l.parts[n]) : n \in Sounding(l.parts)})
    PROVE  VoiceFailures(l, c) = {}
<1> DEFINE a == LeastIn({l.parts[n].start * SamplesPerTick : n \in Sounding(l.parts)})
           b == GreatestIn({EndFrame(l.parts[n]) : n \in Sounding(l.parts)})
           p == UNION {PartFailures(l.parts[n]) : n \in DOMAIN l.parts}
<1>1. VoiceFailures(l, c) =
        (IF l.frames # Sum(l.parts) THEN {"voice_frames"} ELSE {}) \union
        (IF l.first = NoFrame THEN {}
         ELSE (IF l.first # l.start * SamplesPerTick THEN {"tick_boundary"} ELSE {})
              \union (IF l.last > c THEN {"exceeds"} ELSE {})
              \union p
              \union (IF l.first = a THEN {} ELSE {"voice_start"})
              \union (IF l.last = b THEN {} ELSE {"voice_end"}))
  BY DEF VoiceFailures
<1>2. \/ l.first = NoFrame
      \/ l.first = l.start * SamplesPerTick /\ ~(l.last > c) /\ p = {} /\ l.first = a /\ l.last = b
  OBVIOUS
<1> HIDE DEF a, b, p
<1> QED BY <1>1, <1>2

\* A voice that is not silent in its first segment verifies.
LEMMA VoiceVerifies ==
    ASSUME NEW s, NEW v \in VoicesOf(s), NEW t \in Nat, Timed(v, t), NEW end \in Nat,
           ~OpensSilent(Laid(v, Parts(v, end)))
    PROVE  VoiceFailures(Laid(v, Parts(v, end)), end * SamplesPerTick) = {}
<1> DEFINE parts == Parts(v, end)  l == Laid(v, parts)  S == SamplesPerTick  c == end * S  on == Sounding(parts)
           F == {parts[n].first : n \in on}  G == {EndFrame(parts[n]) : n \in on}
           H == {parts[n].start * S : n \in on}
<1>1. /\ Len(parts) \in Nat /\ DOMAIN parts = 1..Len(parts)
      /\ \A i \in DOMAIN parts : \E n \in Lasting(v, end) :
            parts[i] = PartAt(v, n, end) /\ PartOf(parts[i], v, v.segs[n], end)
      /\ 1 \in Lasting(v, end) => Len(parts) > 0 /\ parts[1] = PartAt(v, 1, end)
  BY PartsAre
<1>2. /\ l.start = v.segs[1].start /\ l.parts = parts /\ l.frames = Sum(parts)
      /\ l.first = IF on = {} THEN NoFrame ELSE LeastIn(F)
      /\ l.last = IF on = {} THEN NoFrame ELSE GreatestIn(G)
  BY DEF Laid
<1>3. on = {n \in DOMAIN parts : parts[n].frames > 0}
  BY DEF Sounding
<1>4. ~OpensSilent(l)
  OBVIOUS
<1>6. S \in Nat \ {0}
  BY SamplesAssumption
<1> HIDE DEF parts, l, S
<1>7. CASE on = {}
  <2>1. l.first = NoFrame /\ l.frames = Sum(l.parts)
    BY <1>2, <1>7
  <2>2. VoiceFailures(l, c) = {}
    BY <2>1, Verifies
  <2> QED BY <2>2 DEF c, l, parts, S
<1>8. CASE on # {}
  <2>1. ASSUME NEW i \in on
        PROVE  /\ i \in DOMAIN parts /\ parts[i].frames > 0
               /\ \E n \in Lasting(v, end) : PartOf(parts[i], v, v.segs[n], end)
               /\ parts[i].first = parts[i].start * S /\ parts[i].first \in Nat
               /\ EndFrame(parts[i]) \in Nat /\ EndFrame(parts[i]) <= c
    <3>1. i \in DOMAIN parts /\ parts[i].frames > 0
      BY <1>3
    <3>2. PICK n \in Lasting(v, end) : PartOf(parts[i], v, v.segs[n], end)
      BY <1>1, <3>1
    <3>3. /\ parts[i].first = parts[i].start * S /\ parts[i].first \in Nat
          /\ EndFrame(parts[i]) \in Nat /\ EndFrame(parts[i]) <= c
      BY <3>1, <3>2, SoundingPart DEF S
    <3> QED BY <3>1, <3>2, <3>3
  <2>2. F \subseteq Nat /\ F # {} /\ G \subseteq Nat /\ G # {} /\ (\A y \in G : y <= c) /\ F = H
    <3>1. F \subseteq Nat /\ G \subseteq Nat /\ (\A y \in G : y <= c)
      BY <2>1
    <3>2. F # {} /\ G # {}
      BY <1>8
    <3>3. F = H
      BY <2>1
    <3> QED BY <3>1, <3>2, <3>3
  <2>3. c \in Nat
    BY <1>6
  <2>4. LeastIn(F) \in F /\ (\A y \in F : LeastIn(F) <= y)
    BY <2>2, LeastNat
  <2>5. GreatestIn(G) \in G
    <3> HIDE DEF F, G, H, c
    <3> QED BY <2>2, <2>3, GreatestNat
  <2>6. LeastIn(F) \in Nat /\ GreatestIn(G) <= c
    BY <2>2, <2>4, <2>5
  <2>7. l.first = LeastIn(F) /\ l.last = GreatestIn(G) /\ l.first # NoFrame /\ ~(l.last > c)
    <3>1. l.first = LeastIn(F) /\ l.last = GreatestIn(G)
      BY <1>2, <1>8
    <3>2. GreatestIn(G) \in Nat
      BY <2>2, <2>5
    <3> HIDE DEF F, G, c
    <3> QED BY <2>3, <2>6, <3>1, <3>2 DEF NoFrame
  <2>8. 1 \in on /\ parts[1].start = v.segs[1].start /\ \A i \in on : v.segs[1].start <= parts[i].start
    <3>0. parts # <<>> /\ parts[1].frames # 0
      <4>1. on \subseteq DOMAIN parts
        BY <1>3
      <4>2. parts # <<>>
        BY <1>8, <4>1
      <4> QED BY <1>2, <1>4, <2>7, <4>2 DEF OpensSilent
    <3>1. 1 \in DOMAIN parts
      <4>1. \E i \in 1..Len(parts) : TRUE
        BY <1>1, <1>3, <1>8
      <4> QED BY <1>1, <4>1
    <3>2. PICK n \in Lasting(v, end) : PartOf(parts[1], v, v.segs[n], end)
      BY <1>1, <3>1
    <3>3. 1 \in on
      BY <1>3, <3>0, <3>1, <3>2 DEF PartOf
    <3>4. /\ \A k \in 1..Len(v.segs) : v.segs[1].start <= v.segs[k].start /\ v.segs[k].start \in Nat
          /\ 1 \in 1..Len(v.segs)
      BY TimedTyped DEF Timed, TimedSegs
    <3>5. \A k \in 1..Len(v.segs) : k \in Lasting(v, end) <=> ~(end < v.segs[k].start)
      <4> TAKE k \in 1..Len(v.segs)
      <4>1. PartEnd(v, v.segs[k], end) < v.segs[k].start <=> end < v.segs[k].start
        BY PartEnds
      <4> QED BY <4>1 DEF Lasting
    <3>6. Lasting(v, end) \subseteq 1..Len(v.segs)
      BY DEF Lasting
    <3>7. 1 \in Lasting(v, end)
      BY <3>2, <3>4, <3>5, <3>6
    <3>8. parts[1].start = v.segs[1].start
      BY <1>1, <3>7 DEF PartAt, Part
    <3>9. ASSUME NEW i \in on PROVE v.segs[1].start <= parts[i].start
      <4>1. PICK k \in Lasting(v, end) : PartOf(parts[i], v, v.segs[k], end)
        BY <2>1
      <4> QED BY <3>4, <3>6, <4>1 DEF PartOf
    <3> QED BY <3>3, <3>8, <3>9
  <2>9. l.first = l.start * S
    <3>1. parts[1].first = l.start * S
      BY <1>2, <2>1, <2>8
    <3>2. parts[1].first \in F
      BY <2>8
    <3>3. ASSUME NEW i \in on PROVE parts[1].first <= parts[i].first
      <4>1. parts[1].start \in Nat /\ parts[i].start \in Nat /\ parts[1].start <= parts[i].start
        BY <2>1, <2>8 DEF PartOf
      <4>2. parts[1].start * S <= parts[i].start * S
        BY <1>6, <4>1
      <4> QED BY <2>1, <2>8, <4>2
    <3>4. \A y \in F : parts[1].first <= y
      BY <3>3
    <3> DEFINE f == parts[1].first
    <3>5. F \subseteq Int /\ f \in F /\ \A y \in F : f <= y
      BY <2>2, <3>2, <3>4
    <3> HIDE DEF F, f
    <3>6. LeastIn(F) = f
      BY <3>5, LeastIs
    <3> QED BY <2>7, <3>1, <3>6 DEF f
  <2>10. ASSUME NEW i \in DOMAIN parts PROVE PartFailures(parts[i]) = {}
    <3>1. PICK n \in Lasting(v, end) : PartOf(parts[i], v, v.segs[n], end)
      BY <1>1
    <3> DEFINE part == parts[i]  d == (part.end - part.start) * S
    <3>2. /\ part.start \in Nat /\ part.end \in Nat /\ part.start <= part.end
          /\ part.frames \in Nat /\ part.frames <= d
          /\ part.first = NoFrame \/ part.first = part.start * S
      BY <3>1 DEF PartOf, S
    <3> HIDE DEF part
    <3>3. d \in Nat
      BY <1>6, <3>2
    <3> HIDE DEF d
    <3>4. ~(part.end < part.start) /\ ~(part.frames > d) /\ part.first \in {NoFrame, part.start * S}
      BY <3>2, <3>3
    <3> QED BY <3>4 DEF PartFailures, part, d, S
  <2>11. UNION {PartFailures(l.parts[n]) : n \in DOMAIN l.parts} = {}
    BY <1>2, <2>10
  <2>12. l.first = LeastIn({l.parts[n].start * S : n \in Sounding(l.parts)})
    BY <1>2, <2>2, <2>7
  <2>13. l.last = GreatestIn({EndFrame(l.parts[n]) : n \in Sounding(l.parts)})
    BY <1>2, <2>7
  <2>14. l.frames = Sum(l.parts)
    BY <1>2
  <2>15. /\ l.first = l.start * SamplesPerTick
         /\ l.first = LeastIn({l.parts[n].start * SamplesPerTick : n \in Sounding(l.parts)})
    BY <2>9, <2>12 DEF S
  <2> HIDE DEF c, on, F, G, H
  <2>16. VoiceFailures(l, c) = {}
    BY <2>7, <2>11, <2>13, <2>14, <2>15, Verifies
  <2> QED BY <2>16 DEF c, l, parts, S
<1> QED BY <1>7, <1>8

-----------------------------------------------------------------------------
(* The rendered track *)

\* A voice whose segments all stop has an end.
LEMMA VoiceEnds ==
    ASSUME NEW s, NEW v \in VoicesOf(s), NEW t \in Nat, Timed(v, t), ~Undecided(v)
    PROVE  VoiceEnd(v) \in Nat
<1> DEFINE k == Len(v.segs)  f == [n \in 1..k |-> LeastIn(Stops(v, v.segs[n]))]
           S == {v.segs[1].start} \union {LeastIn(Stops(v, v.segs[n])) : n \in DOMAIN v.segs}
<1>1. k \in Nat \ {0} /\ DOMAIN v.segs = 1..k /\ v.segs[1].start \in Nat
  BY TimedTyped
<1>2. ASSUME NEW n \in 1..k PROVE f[n] \in Nat
  <2>1. Stops(v, v.segs[n]) \subseteq Nat
    BY PartEnds
  <2>2. Stops(v, v.segs[n]) # {}
    BY <1>1 DEF Undecided
  <2>3. LeastIn(Stops(v, v.segs[n])) \in Nat
    BY <2>1, <2>2, LeastNat
  <2> QED BY <2>3
<1>3. S = {v.segs[1].start} \union {f[n] : n \in 1..k}
  BY <1>1
<1> HIDE DEF f, k
<1>4. PICK b \in Nat : \A n \in 1..k : f[n] <= b
  BY <1>1, <1>2, Bounded
<1> DEFINE c == b + v.segs[1].start
<1>5. c \in Nat /\ v.segs[1].start <= c
  BY <1>1
<1>6. \A n \in 1..k : f[n] <= c
  BY <1>1, <1>2, <1>4
<1> HIDE DEF c
<1>7. S \subseteq Nat /\ S # {} /\ \A y \in S : y <= c
  BY <1>1, <1>2, <1>3, <1>5, <1>6
<1>8. VoiceEnd(v) = GreatestIn(S)
  BY DEF VoiceEnd
<1> HIDE DEF S
<1>9. GreatestIn(S) \in S
  BY <1>5, <1>7, GreatestNat
<1> QED BY <1>7, <1>8, <1>9

\* A track ends at its given end, or after its events and its voices.
LEMMA TrackEnds ==
    ASSUME NEW s, NEW t \in Nat, NEW mix, TimedMixer(mix.voices, s, t), mix.voices # <<>>,
           NEW events \in Seq(EventsOf(s)), NEW end \in Nat \union {NoEnd},
           end = NoEnd => \A i \in DOMAIN mix.voices : ~Undecided(mix.voices[i])
    PROVE  TrackEnd(mix, events, end) \in Nat
<1>1. CASE end # NoEnd
  BY <1>1 DEF TrackEnd
<1>2. CASE end = NoEnd
  <2> DEFINE q == mix.voices  m == Len(q)  n == Len(events)
             f == [e \in 1..n |-> events[e].intent.tick + 1]  g == [i \in 1..m |-> VoiceEnd(q[i])]
             S == {events[e].intent.tick + 1 : e \in DOMAIN events}
                    \union {VoiceEnd(mix.voices[i]) : i \in DOMAIN mix.voices}
  <2>1. n \in Nat /\ DOMAIN events = 1..n /\ \A e \in 1..n : events[e] \in EventsOf(s)
    OBVIOUS
  <2>2. m \in Nat /\ DOMAIN q = 1..m
    BY DEF TimedMixer, Mixer
  <2>3. ASSUME NEW e \in 1..n PROVE f[e] \in Nat
    <3>1. events[e].intent.tick \in Nat
      BY <2>1 DEF EventsOf, Intents
    <3> QED BY <3>1
  <2>4. ASSUME NEW i \in 1..m PROVE g[i] \in Nat
    <3>1. q[i] \in VoicesOf(s) /\ Timed(q[i], t) /\ ~Undecided(q[i])
      BY <1>2, <2>2, MixerVoice DEF TimedMixer
    <3>2. VoiceEnd(q[i]) \in Nat
      BY <3>1, VoiceEnds
    <3> QED BY <3>2
  <2>5. S = {f[e] : e \in 1..n} \union {g[i] : i \in 1..m}
    BY <2>1, <2>2
  <2>6. m # 0
    BY <2>2 DEF TimedMixer, Mixer
  <2>7. TrackEnd(mix, events, end) = GreatestIn(S)
    BY <1>2 DEF TrackEnd
  <2> HIDE DEF f, g, m, n, q
  <2>8. PICK a \in Nat : \A e \in 1..n : f[e] <= a
    BY <2>1, <2>3, Bounded
  <2>9. PICK b \in Nat : \A i \in 1..m : g[i] <= b
    BY <2>2, <2>4, Bounded
  <2> DEFINE c == a + b
  <2>10. c \in Nat /\ (\A e \in 1..n : f[e] <= c) /\ \A i \in 1..m : g[i] <= c
    BY <2>3, <2>4, <2>8, <2>9
  <2>11. 1 \in 1..m
    BY <2>2, <2>6
  <2> HIDE DEF c
  <2>12. S \subseteq Nat /\ S # {} /\ \A y \in S : y <= c
    BY <2>3, <2>4, <2>5, <2>10, <2>11
  <2> HIDE DEF S
  <2>13. GreatestIn(S) \in S
    BY <2>10, <2>12, GreatestNat
  <2> QED BY <2>7, <2>12, <2>13
<1> QED BY <1>1, <1>2

\* What a track verifies by.
LEMMA TrackVerifies ==
    ASSUME NEW k, UNION {VoiceFailures(k.voices[i], k.frames) : i \in DOMAIN k.voices} = {},
           k.frames = k.end * SamplesPerTick, k.union = Cardinality(Covered(k.voices)),
           k.silent = k.frames - Cardinality(Covered(k.voices)), k.sum = Sum(k.voices),
           k.plays = Len(k.voices) + k.dropped
    PROVE  Failures(k) = {}
<1> DEFINE p == UNION {VoiceFailures(k.voices[i], k.frames) : i \in DOMAIN k.voices}
           covered == Cardinality(Covered(k.voices))  a == k.frames # k.end * SamplesPerTick
           b == k.union # covered  c == k.silent # k.frames - covered
           d == k.sum # Sum(k.voices)  e == k.plays # Len(k.voices) + k.dropped
<1>1. Failures(k) =
        p \union (IF a THEN {"frames"} ELSE {}) \union (IF b THEN {"union"} ELSE {})
          \union (IF c THEN {"silence"} ELSE {}) \union (IF d THEN {"sum"} ELSE {})
          \union (IF e THEN {"plays"} ELSE {})
  BY DEF Failures
<1>2. p = {} /\ ~a /\ ~b /\ ~c /\ ~d /\ ~e
  OBVIOUS
<1> HIDE DEF p, a, b, c, d, e
<1> QED BY <1>1, <1>2

\* A track of a mixer, as it is heard and verified.
TrackOf(k, r, policy) ==
    /\ k.admission = policy /\ k.mix = r.voices /\ k.end \in Nat
    /\ DOMAIN k.voices = DOMAIN r.voices
    /\ \A i \in DOMAIN r.voices, u \in 0..(k.end - 1) : Sounds(u, k.voices[i]) <=> SoundsAt(r.voices[i], u)
    /\ (\A i \in DOMAIN k.voices : ~OpensSilent(k.voices[i])) => Failures(k) = {}

\* A mixer that is rendered.
LEMMA RenderedTrack ==
    ASSUME NEW s \in Soundscapes, NEW t \in Nat, NEW policy, NEW r, Filled(r, s, t, policy),
           NEW events \in Seq(EventsOf(s)), Cardinality(Plays(events)) = Len(r.voices) + r.dropped,
           NEW end \in Nat \union {NoEnd}, Track(r, events, end).status = "rendered"
    PROVE  TrackOf(Track(r, events, end), r, policy)
<1> DEFINE stop == TrackEnd(r, events, end)
           voices == [i \in DOMAIN r.voices |-> Laid(r.voices[i], Parts(r.voices[i], stop))]
           k == Manifest(r, events, stop, voices)
           S == SamplesPerTick
<1>1. TimedMixer(r.voices, s, t) /\ r.voices \in Seq(VoicesOf(s)) /\ r.admission = policy
  BY DEF Filled, TimedMixer, Mixer
<1>2. FailedTrack.status # "rendered"
  BY DEF FailedTrack
<1>3. /\ r.voices # <<>>
      /\ ~(end = NoEnd /\ \E i \in DOMAIN r.voices : Undecided(r.voices[i]))
      /\ Track(r, events, end) = k
  BY <1>2 DEF Track
<1>4. stop \in Nat
  BY <1>1, <1>3, TrackEnds
<1> HIDE DEF stop
<1>5. DOMAIN voices = DOMAIN r.voices /\ Len(voices) = Len(r.voices)
  <2> DEFINE V == {Laid(r.voices[i], Parts(r.voices[i], stop)) : i \in DOMAIN r.voices}  q == r.voices
  <2>1. voices = [i \in DOMAIN q |-> voices[i]] /\ \A i \in DOMAIN q : voices[i] \in V
    OBVIOUS
  <2>2. q \in Seq(VoicesOf(s))
    BY <1>1
  <2>3. DOMAIN voices = DOMAIN q
    OBVIOUS
  <2> HIDE DEF V, voices, q
  <2>4. voices \in Seq(V)
    <3>1. DOMAIN q = 1..Len(q) /\ Len(q) \in Nat
      BY <2>2
    <3>2. voices \in [1..Len(q) -> V]
      BY <2>1, <3>1
    <3> QED BY <3>1, <3>2
  <2>5. Len(voices) = Len(q)
    BY <2>2, <2>3, <2>4, SameLength
  <2> QED BY <2>3, <2>5 DEF q
<1>6. ASSUME NEW i \in DOMAIN r.voices
      PROVE  /\ r.voices[i] \in VoicesOf(s) /\ Timed(r.voices[i], t)
             /\ voices[i] = Laid(r.voices[i], Parts(r.voices[i], stop))
  BY <1>1, MixerVoice DEF TimedMixer
<1> HIDE DEF voices
<1>7. /\ k.admission = policy /\ k.mix = r.voices /\ k.end = stop /\ k.voices = voices
      /\ k.frames = stop * S /\ k.dropped = r.dropped /\ k.plays = Cardinality(Plays(events))
      /\ k.sum = Sum(voices) /\ k.union = Cardinality(Covered(voices))
      /\ k.silent = stop * S - Cardinality(Covered(voices))
  BY <1>1 DEF Manifest, Plays
<1> HIDE DEF k
<1>8. ASSUME NEW i \in DOMAIN r.voices, NEW u \in 0..(stop - 1)
      PROVE  Sounds(u, voices[i]) <=> SoundsAt(r.voices[i], u)
  BY <1>4, <1>6, SoundsLaid
<1>9. ASSUME \A i \in DOMAIN voices : ~OpensSilent(voices[i]) PROVE Failures(k) = {}
  <2>1. ASSUME NEW i \in DOMAIN voices PROVE VoiceFailures(voices[i], stop * S) = {}
    <3> DEFINE v == r.voices[i]
    <3>1. v \in VoicesOf(s) /\ Timed(v, t) /\ voices[i] = Laid(v, Parts(v, stop)) /\ ~OpensSilent(voices[i])
      BY <1>5, <1>6, <1>9
    <3> HIDE DEF v
    <3> QED BY <1>4, <3>1, VoiceVerifies
  <2> DEFINE p == UNION {VoiceFailures(k.voices[i], k.frames) : i \in DOMAIN k.voices}
             covered == Cardinality(Covered(k.voices))
  <2>2. p = {}
    BY <1>7, <2>1
  <2>3. /\ k.frames = k.end * S /\ k.union = covered /\ k.silent = k.frames - covered
        /\ k.sum = Sum(k.voices)
    BY <1>7
  <2>4. k.plays = Len(k.voices) + k.dropped
    BY <1>5, <1>7
  <2> HIDE DEF S
  <2> QED BY <2>2, <2>3, <2>4, TrackVerifies DEF S
<1>10. TrackOf(k, r, policy)
  BY <1>4, <1>5, <1>7, <1>8, <1>9 DEF TrackOf
<1> QED BY <1>3, <1>10

\* Once it is rendered the track stays, and it is heard as the mixer was.
TrackInv == track = NoTrack \/ (tick = Ticks /\ TrackHeard)

\* What rendering the observer's events makes.
LEMMA RenderHeard ==
    ASSUME MixInv, scape \in Soundscapes, tick = Ticks, NEW policy \in Policies, NEW end \in Nat \union {NoEnd},
           track' = RenderTrack(watched.watcher.events, scape, policy, end),
           UNCHANGED <<tick, scape, admission, watched, heard>>
    PROVE  TrackHeard'
<1> DEFINE w == watched.watcher  r == Remixed(w.events, scape, policy)  k == Track(r, w.events, end)
<1>1. track' = k
  BY DEF RenderTrack
<1>2. CASE ~(k.status = "rendered")
  BY <1>1, <1>2 DEF TrackHeard
<1>3. CASE k.status = "rendered"
  <2>1. tick \in Nat
    BY StreamAssumption
  <2>2. /\ w.events \in Seq(EventsOf(scape)) /\ MixedAgain(w, scape, tick, policy) /\ w.admission = admission
        /\ heard = HeardBy(w.voices, tick)
    BY DEF MixInv, Recorded, Filled
  <2>3. /\ Filled(r, scape, tick, policy) /\ Cardinality(Plays(w.events)) = Len(r.voices) + r.dropped
        /\ MutesAll(w, scape) /\ AdmitsAlike(w, policy) => r.voices = w.voices
    BY <2>2 DEF MixedAgain
  <2> HIDE DEF r
  <2>4. TrackOf(k, r, policy)
    BY <1>3, <2>1, <2>2, <2>3, RenderedTrack
  <2> HIDE DEF k
  <2>5. PausesAll' => MutesAll(w, scape)
    BY DEF PausesAll, MutesAll
  <2>6. AdmitsTheSame' => AdmitsAlike(w, policy)
    BY <1>1, <2>2, <2>4 DEF AdmitsTheSame, AdmitsAlike, TrackOf
  <2>7. PausesAll' /\ AdmitsTheSame' => k.mix = w.voices
    BY <2>3, <2>4, <2>5, <2>6 DEF TrackOf
  <2>8. ASSUME k.mix = w.voices, NEW t \in 0..(LeastOf(Ticks, k.end) - 1), NEW i \in DOMAIN k.voices
        PROVE  Sounds(t, k.voices[i]) <=> <<t, i>> \in heard
    <3>1. r.voices = w.voices /\ DOMAIN k.voices = DOMAIN r.voices /\ k.end \in Nat
      BY <2>4, <2>8 DEF TrackOf
    <3>2. t \in 0..(tick - 1) /\ t \in 0..(k.end - 1)
      BY <2>1, <3>1 DEF LeastOf
    <3>3. Sounds(t, k.voices[i]) <=> SoundsAt(w.voices[i], t)
      BY <2>4, <3>1, <3>2 DEF TrackOf
    <3>4. <<t, i>> \in heard <=> SoundsAt(w.voices[i], t)
      BY <2>2, <3>1, <3>2 DEF HeardBy
    <3> QED BY <3>3, <3>4
  <2>9. (\A i \in DOMAIN k.voices : ~OpensSilent(k.voices[i])) => Failures(k) = {}
    BY <2>4 DEF TrackOf
  <2>10. /\ (\A i \in DOMAIN track'.voices : ~OpensSilent(track'.voices[i])) => Failures(track') = {}
         /\ PausesAll' /\ AdmitsTheSame' => track'.mix = watched'.watcher.voices
         /\ track'.mix = watched'.watcher.voices =>
              \A t \in 0..(LeastOf(Ticks, track'.end) - 1), i \in DOMAIN track'.voices :
                  Sounds(t, track'.voices[i]) <=> <<t, i>> \in heard'
    BY <1>1, <2>7, <2>8, <2>9
  <2> QED BY <2>10 DEF TrackHeard
<1> QED BY <1>2, <1>3

\* Every step keeps the rendered track.
LEMMA TrackNext == ASSUME WatchInv, MixInv, TrackInv, [Next]_vars PROVE TrackInv'
<1>1. CASE Play \/ Stop \/ Pause \/ Cancel \/ Query
  <2>1. tick < Ticks /\ track' = track
    BY <1>1 DEF Play, Stop, Pause, Cancel, Query, Acted
  <2>2. tick # Ticks
    BY <2>1, StreamAssumption DEF WatchInv
  <2> QED BY <2>1, <2>2 DEF TrackInv
<1>2. CASE EndTick
  <2>1. tick < Ticks /\ track' = track
    BY <1>2 DEF EndTick
  <2>2. tick # Ticks
    BY <2>1, StreamAssumption DEF WatchInv
  <2> QED BY <2>1, <2>2 DEF TrackInv
<1>3. CASE Render
  <2>1. PICK policy \in {"all", "original"}, end \in {NoEnd, Ticks - 1} \ {0} :
           track' = RenderTrack(watched.watcher.events, scape, policy, end)
    BY <1>3 DEF Render
  <2>2. policy \in Policies /\ end \in Nat \union {NoEnd}
    BY StreamAssumption DEF Policies
  <2>3. tick = Ticks /\ UNCHANGED <<tick, scape, admission, watched, heard>>
    BY <1>3 DEF Render
  <2>4. TrackHeard'
    BY <2>1, <2>2, <2>3, RenderHeard DEF WatchInv
  <2> QED BY <2>3, <2>4 DEF TrackInv
<1>4. CASE UNCHANGED vars
  BY <1>4 DEF vars, TrackInv, TrackHeard, PausesAll, AdmitsTheSame
<1> QED BY <1>1, <1>2, <1>3, <1>4 DEF Next

\* The rendered track verifies unless a voice is silent in its first segment, is mixed
\* again from the same voices when it admits what the observer admitted and no pause
\* spared a type, and is then heard in exactly the ticks in which the observer's mixer
\* said a voice was playing (render_track and verify_track against MixerObserver).
THEOREM TrackProven == Spec => []TrackHeard
<1>1. Init => TrackInv
  BY DEF Init, TrackInv
<1>2. TrackInv => TrackHeard
  BY DEF TrackInv, TrackHeard, NoTrack
<1> QED BY <1>1, <1>2, SilentInit, SilentNext, WatchInit, WatchNext, MixInit, MixNext, TrackNext, PTL DEF Spec
=============================================================================
