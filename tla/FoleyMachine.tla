---------------------------- MODULE FoleyMachine ----------------------------
(***************************************************************************)
(* The Foley bookkeeping of virtual_audio.py with its device behind it and *)
(* its observer beside it.  A machine is a record:                         *)
(*   device    "none" (AllocationNoneDevice) or "feedback"                 *)
(*             (TickVirtualDevice), voices the mixer behind the device,    *)
(*   slots     the instances of each type, last the last variation drawn,  *)
(*   draws     how many times the random numbers were read,                *)
(*   told      how many outcomes were recorded, said the last of them,     *)
(*   watcher   the MixerObserver: its admission ("off" when there is none),*)
(*             its mixer's voices, its events and how many it dropped.     *)
(* A soundscape is [types, flags, sounds, duration]: the flags and the     *)
(* sequence of sounds of each type, and the duration of each sound.        *)
(***************************************************************************)
EXTENDS TickMixer

CONSTANTS MaxFoleyInstances,    \* slots of one type
          MaxManagerChannels,   \* voices the feedback device may hold
          TooRecentUpdates,     \* ticks during which a type is too recent
          PitchRate             \* rate of each pitch; the first one is the plain one

ASSUME LimitsAssumption ==
    /\ MaxFoleyInstances \in Nat \ {0}
    /\ MaxManagerChannels \in Nat \ {0}
    /\ TooRecentUpdates \in Nat

\* pitch_rate answers a fraction of two positive integers.
ASSUME RatesAssumption ==
    \A pitch \in DOMAIN PitchRate : PitchRate[pitch] \in (Nat \ {0}) \X (Nat \ {0})

Nothing == "nothing"
NoVoice == 0

FreeSlot == [refcount |-> 0, paused |-> FALSE, start |-> 0, voice |-> NoVoice, place |-> 0]

Watcher(admission) == [admission |-> admission, voices |-> <<>>, events |-> <<>>, dropped |-> 0]

NewMachine(device, scape, admission) ==
    [device |-> device, voices |-> <<>>,
     slots |-> [type \in scape.types |-> [k \in 1..MaxFoleyInstances |-> FreeSlot]],
     last |-> [type \in scape.types |-> 0],
     draws |-> 0, told |-> 0, said |-> Nothing, watcher |-> Watcher(admission)]

Flagged(scape, flag) == {type \in scape.types : flag \in scape.flags[type]}

-----------------------------------------------------------------------------
(* The observer *)

Recent(tick, start) == tick - start < TooRecentUpdates

\* Why the observer's audible policy keeps an intent out of its mixer.
Gate(w, scape, tick, type) ==
    LET playing == {i \in DOMAIN w.voices : w.voices[i].type = type /\ IsPlaying(w.voices[i], tick)}
    IN  IF w.admission = "all" \/ playing = {} \/ type \in Flagged(scape, "loop") THEN Nothing
        ELSE IF \E i \in playing : Recent(tick, Seg(w.voices[i]).start) THEN "recent"
        ELSE IF type \in Flagged(scape, "one_at_a_time") THEN "reuse"
        ELSE IF Cardinality(playing) >= MaxFoleyInstances THEN "no_slot"
        ELSE Nothing

\* intent = [seq, tick, type, sound, rate]: what the game asked the device to play.
Voiced(scape, intent) ==
    NewVoice(intent.tick, intent.type, intent.sound, scape.duration[intent.sound],
             intent.type \in Flagged(scape, "loop"), intent.rate)

Intend(w, scape, intent) ==
    IF w.admission = "off" THEN w
    ELSE IF Gate(w, scape, intent.tick, intent.type) # Nothing
         THEN [w EXCEPT !.dropped = @ + 1]
         ELSE [w EXCEPT !.events = Append(@, [kind |-> "play", intent |-> intent]),
                        !.voices = Append(@, Voiced(scape, intent))]

Other(kind, seq, tick, type) ==
    [kind |-> kind, intent |-> [seq |-> seq, tick |-> tick, type |-> type]]

WatchStop(w, tick, type) ==
    IF w.admission = "off" THEN w
    ELSE [w EXCEPT !.voices = StopType(@, tick, type),
                   !.events = Append(@, Other("stop", Len(w.events), tick, type))]

WatchPause(w, scape, tick, entering) ==
    IF w.admission = "off" THEN w
    ELSE LET muted == Flagged(scape, "mute_on_pause")
         IN  [w EXCEPT
                !.voices = IF entering THEN PauseTypes(@, tick, muted) ELSE ResumeTypes(@, tick, muted),
                !.events = Append(@, Other(IF entering THEN "pause" ELSE "resume",
                                           Len(w.events), tick, 0))]

-----------------------------------------------------------------------------
(* The device *)

\* A channel is free again once its voice is released.
Held(m) == {i \in DOMAIN m.voices : ~m.voices[i].released}

\* Mutants: the observer's voices answer an allocation; one channel too many.
AllocatesWatched(m) == m.device = "feedback" \/ m.watcher.voices # <<>>
AllocatesOver(m) == m.device = "feedback" /\ Cardinality(Held(m)) <= MaxManagerChannels

Allocates(m) == m.device = "feedback" /\ Cardinality(Held(m)) < MaxManagerChannels

\* The allocation-none device holds no instance: it is never asked about one.
DevicePlays(m, slot, tick) == IsPlaying(m.voices[slot.voice], tick)

-----------------------------------------------------------------------------
(* Helpers of the machine *)

Live(m, type) == {k \in 1..MaxFoleyInstances : m.slots[type][k].refcount > 0}

Finished(m, type, tick) ==
    {k \in Live(m, type) : ~m.slots[type][k].paused /\ ~DevicePlays(m, m.slots[type][k], tick)}

Emptied(slot) == [slot EXCEPT !.refcount = 0, !.voice = NoVoice]

\* The given slots of each type let their instances go.
LetGo(m, tick, which) ==
    [m EXCEPT
        !.voices = [i \in DOMAIN @ |->
            IF \E type \in DOMAIN m.slots : \E k \in which[type] : m.slots[type][k].voice = i
            THEN ReleaseVoice(@, tick, i)[i] ELSE @[i]],
        !.slots = [type \in DOMAIN @ |->
            [k \in 1..MaxFoleyInstances |->
                IF k \in which[type] THEN Emptied(@[type][k]) ELSE @[type][k]]]]

ReleaseFinished(m, tick) == LetGo(m, tick, [type \in DOMAIN m.slots |-> Finished(m, type, tick)])

PlayedTooRecently(m, tick, type) ==
    \E k \in Live(m, type) : Recent(tick, m.slots[type][k].start)

Tell(m, tick, type, outcome) ==
    [m EXCEPT !.told = @ + 1, !.said = [tick |-> tick, type |-> type, outcome |-> outcome]]

-----------------------------------------------------------------------------
(* Entry points *)

\* The variations that may be drawn when the last one was last.
Candidates(last, scape, type) ==
    {k \in DOMAIN scape.sounds[type] : ~(type \in Flagged(scape, "dont_repeat") /\ last = k)}

\* Only the number of draws matters in the stand-in for the game's random numbers.
Rand(draws, count) == (draws + 1) % count

\* The variation at the drawn place of the candidates, which are in order.
Variation(draws, last, scape, type) ==
    LET candidates == Candidates(last, scape, type)
    IN  FirstOf({k \in candidates :
                   Cardinality({j \in candidates : j < k}) >= Rand(draws, Cardinality(candidates))})

\* The instance the device answers an intent with: a voice, tuned and started again.
Instance(m, scape, intent, pitch) ==
    LET fresh   == Voiced(scape, intent)
        pitched == IF pitch = 1 THEN fresh ELSE RetunedVoice(fresh, intent.tick, PitchRate[pitch])
        levelled == IF intent.type \in Flagged(scape, "uses_music_volume")
                    THEN RetunedVoice(pitched, intent.tick, Seg(pitched).rate) ELSE pitched
    IN  RestartedVoice(levelled, intent.tick)

Allocated(m, scape, intent, pitch, k) ==
    LET tick == intent.tick
        type == intent.type
    IN  IF ~Allocates(m) THEN Tell(m, tick, type, "no_instance")
        ELSE Tell([m EXCEPT
                     !.voices = Append(@, Instance(m, scape, intent, pitch)),
                     !.slots[type][k] = [refcount |-> 1, paused |-> FALSE, start |-> tick,
                                         voice |-> Len(m.voices) + 1, place |-> 0]],
                  tick, type, "played")

\* The draw comes before the allocation, so it is spent when the allocation fails.
Drawn(m, scape, tick, type, pitch) ==
    LET variation == Variation(m.draws, m.last[type], scape, type)
        intent == [seq |-> m.told, tick |-> tick, type |-> type,
                   sound |-> scape.sounds[type][variation], rate |-> PitchRate[pitch]]
        free   == (1..MaxFoleyInstances) \ Live(m, type)
    IN  Allocated([m EXCEPT !.draws = @ + 1, !.last[type] = variation,
                            !.watcher = Intend(@, scape, intent)],
                  scape, intent, pitch, FirstOf(free))

\* A type that plays one at a time shares the instance it has.
Shared(slot, tick) == [slot EXCEPT !.refcount = @ + 1, !.start = tick]

Admitted(m, scape, tick, type, pitch) ==
    IF PlayedTooRecently(m, tick, type) /\ type \notin Flagged(scape, "loop")
        THEN Tell(m, tick, type, "recent")
    ELSE IF type \in Flagged(scape, "one_at_a_time") /\ Live(m, type) # {}
        THEN Tell([m EXCEPT !.slots[type][FirstOf(Live(m, type))] = Shared(@, tick)],
                  tick, type, "reuse")
    ELSE IF Live(m, type) = 1..MaxFoleyInstances THEN Tell(m, tick, type, "no_slot")
    ELSE Drawn(m, scape, tick, type, pitch)

PlayFoley(m, scape, tick, type, pitch) ==
    Admitted(ReleaseFinished(m, tick), scape, tick, type, pitch)

\* One reference is dropped; at the last one the instance goes.
Dropped(m, tick, type) ==
    LET k == FirstOf(Live(m, type))
    IN  IF Live(m, type) = {} THEN m
        ELSE IF m.slots[type][k].refcount > 1
             THEN Tell([m EXCEPT !.slots[type][k].refcount = @ - 1], tick, type, "stop")
             ELSE Tell(LetGo(m, tick, [t \in DOMAIN m.slots |-> IF t = type THEN {k} ELSE {}]), tick, type, "stop")

StopFoley(m, scape, tick, type) ==
    Dropped([ReleaseFinished(m, tick) EXCEPT !.watcher = WatchStop(@, tick, type)], tick, type)

\* What entering or leaving the pause does to one slot and to its voice.
PausedSlot(m, slot, tick) == [slot EXCEPT !.paused = TRUE, !.place = Position(m.voices[slot.voice], tick)]

Muted(m, scape, type) == IF type \in Flagged(scape, "mute_on_pause") THEN Live(m, type) ELSE {}

Affected(m, scape, entering) ==
    [type \in scape.types |-> {k \in Muted(m, scape, type) : entering \/ m.slots[type][k].paused}]

SlotOf(m, which, i) ==
    {slot \in UNION {{m.slots[type][k] : k \in which[type]} : type \in DOMAIN which} : slot.voice = i}

Switched(m, tick, entering, which) ==
    [m EXCEPT
        !.slots = [type \in DOMAIN @ |-> [k \in 1..MaxFoleyInstances |->
            IF k \notin which[type] THEN @[type][k]
            ELSE IF entering THEN PausedSlot(m, @[type][k], tick)
            ELSE [@[type][k] EXCEPT !.paused = FALSE]]],
        !.voices = [i \in DOMAIN @ |->
            IF SlotOf(m, which, i) = {} THEN @[i]
            ELSE IF entering THEN StopVoice(@, tick, i)[i]
            ELSE LET slot == CHOOSE s \in SlotOf(m, which, i) : TRUE
                 IN  MovedVoice(RestartedVoice(@[i], tick), tick, slot.place)]]

GamePause(m, scape, tick, entering) ==
    LET r == ReleaseFinished(m, tick)
        w == [r EXCEPT !.watcher = WatchPause(@, scape, tick, entering)]
    IN  Tell(Switched(w, tick, entering, Affected(w, scape, entering)), tick, Nothing,
             IF entering THEN "pause" ELSE "unpause")

CancelPaused(m, tick) ==
    LET r == ReleaseFinished(m, tick)
    IN  LetGo(r, tick, [type \in DOMAIN r.slots |-> {k \in Live(r, type) : r.slots[type][k].paused}])

\* is_foley_playing: releases what has finished, then looks for an instance.
Asked(m, tick) == ReleaseFinished(m, tick)
FoleyPlaying(m, tick, type) == Live(ReleaseFinished(m, tick), type) # {}

\* snapshot: what one frame of the trace holds.
Frame(m) ==
    [draws |-> m.draws, last |-> m.last,
     slots |-> [type \in DOMAIN m.slots |-> [k \in 1..MaxFoleyInstances |->
                   LET slot == m.slots[type][k]
                   IN  <<slot.refcount, slot.paused, slot.start, slot.place>>]]]
=============================================================================
