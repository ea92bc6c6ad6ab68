----------------------------- MODULE TickMixer -----------------------------
(***************************************************************************)
(* The tick-driven mixer of virtual_audio.py: a voice is a sequence of     *)
(* segments, one for each stretch between two device writes, and every     *)
(* answer (is it playing, where is the cursor) is computed from the tick.  *)
(* A mixer is the sequence of its voices, in the order they were created.  *)
(* Volume and pan are left out: a write of one is the segment boundary it  *)
(* makes.                                                                  *)
(***************************************************************************)
EXTENDS Integers, Sequences, FiniteSets, SequencesExt

CONSTANT SamplesPerTick

ASSUME SamplesAssumption == SamplesPerTick \in Nat \ {0}

\* The end of a segment that is still running.
Running == -1

Segment(tick, offset, rate) ==
    [start |-> tick, offset |-> offset, rate |-> rate, end |-> Running]

\* A played voice: sound and duration of its source buffer.
NewVoice(tick, type, sound, duration, loop, rate) ==
    [type |-> type, sound |-> sound, duration |-> duration, loop |-> loop,
     segs |-> <<Segment(tick, 0, rate)>>,
     stopped |-> FALSE, paused |-> FALSE, released |-> FALSE, place |-> 0]

Seg(v) == Last(v.segs)

IsOpen(v) == Seg(v).end = Running /\ ~v.stopped /\ ~v.paused

-----------------------------------------------------------------------------
(* Queries *)

CeilDiv(a, b) == -((-a) \div b)

\* First tick whose first sample is past the end of a buffer that does not loop.
NaturalEnd(v, s) ==
    LET remaining == v.duration - s.offset
    IN  IF remaining <= 0 THEN s.start
        ELSE s.start + CeilDiv(remaining * s.rate[2], s.rate[1] * SamplesPerTick)

\* Source samples consumed when the segment has run until tick.
Cursor(s, tick) == s.offset + ((tick - s.start) * SamplesPerTick * s.rate[1]) \div s.rate[2]

IsPlaying(v, tick) ==
    /\ IsOpen(v)
    /\ tick >= Seg(v).start
    /\ v.loop \/ tick < NaturalEnd(v, Seg(v))

LeastOf(a, b) == IF a <= b THEN a ELSE b

Position(v, tick) ==
    IF ~IsOpen(v) \/ tick < Seg(v).start THEN 0
    ELSE IF v.loop THEN Cursor(Seg(v), tick) % v.duration
    ELSE IF tick >= NaturalEnd(v, Seg(v)) THEN v.duration
    ELSE LeastOf(Cursor(Seg(v), tick), v.duration)

-----------------------------------------------------------------------------
(* Writes to one voice *)

Cut(v, tick) ==
    IF Seg(v).end = Running /\ tick >= Seg(v).start
    THEN [v EXCEPT !.segs[Len(v.segs)].end = tick] ELSE v

Continue(v, s) == [v EXCEPT !.segs = Append(@, s), !.stopped = FALSE, !.paused = FALSE]

\* TickMixer.stop on the voice it found.
StoppedVoice(v, tick) == [Cut(v, tick) EXCEPT !.stopped = TRUE, !.paused = FALSE]

\* Mutant: the place is read after the segment is cut.
PausedVoiceLate(v, tick) ==
    [Cut(v, tick) EXCEPT !.place = Position(Cut(v, tick), tick), !.stopped = TRUE, !.paused = TRUE]

\* The place is read before the segment is cut: a cut voice answers 0.
PausedVoice(v, tick) ==
    [Cut([v EXCEPT !.place = Position(v, tick)], tick) EXCEPT !.stopped = TRUE, !.paused = TRUE]

ResumedVoice(v, tick) == Continue(v, Segment(tick, v.place, Seg(v).rate))

\* play_from: the buffer starts again at its beginning, with the rate it had.
RestartedVoice(v, tick) == Continue(Cut(v, tick), Segment(tick, 0, Seg(v).rate))

\* set_rate keeps the cursor; set_volume and set_pan do the same and keep the rate.
RetunedVoice(v, tick, rate) ==
    IF ~IsOpen(v) THEN v
    ELSE Continue(Cut(v, tick), Segment(tick, Cursor(Seg(v), tick), rate))

MovedVoice(v, tick, offset) ==
    IF ~IsOpen(v) THEN v
    ELSE Continue(Cut(v, tick), Segment(tick, offset, Seg(v).rate))

-----------------------------------------------------------------------------
(* Writes that find their voices in the mixer *)

\* The voices a write by type reaches: the open ones, whether or not they still play.
Reached(voices, type) == {i \in DOMAIN voices : voices[i].type = type /\ IsOpen(voices[i])}

FirstOf(S) == CHOOSE i \in S : \A j \in S : i <= j

\* stop by type: the first open voice of the type only.
StopType(voices, tick, type) ==
    LET reached == Reached(voices, type)
    IN  IF reached = {} THEN voices
        ELSE [voices EXCEPT ![FirstOf(reached)] = StoppedVoice(@, tick)]

\* stop by voice.
StopVoice(voices, tick, i) ==
    IF IsOpen(voices[i]) THEN [voices EXCEPT ![i] = StoppedVoice(@, tick)] ELSE voices

\* release retires the voice that stop found, and stop finds open voices only.
ReleaseVoice(voices, tick, i) ==
    IF IsOpen(voices[i])
    THEN [StopVoice(voices, tick, i) EXCEPT ![i].released = TRUE] ELSE voices

\* pause and resume of the voices of some types.
PauseTypes(voices, tick, types) ==
    [i \in DOMAIN voices |->
        IF voices[i].type \in types /\ IsOpen(voices[i])
        THEN PausedVoice(voices[i], tick) ELSE voices[i]]

ResumeTypes(voices, tick, types) ==
    [i \in DOMAIN voices |->
        IF voices[i].type \in types /\ voices[i].paused /\ ~voices[i].released
        THEN ResumedVoice(voices[i], tick) ELSE voices[i]]
=============================================================================
