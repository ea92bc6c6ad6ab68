---------------------------- MODULE OfflineTrack ----------------------------
(***************************************************************************)
(* The offline soundtrack of virtual_audio.py: a stream of audio events is *)
(* mixed again (render_track), its voices are laid on the tick grid, and   *)
(* the manifest that describes the track is checked (verify_track).  The   *)
(* track begins at tick 0.  The samples are left out: a part of a voice is *)
(* the interval of frames it writes.                                       *)
(***************************************************************************)
EXTENDS FoleyMachine

NoEnd == -1       \* no explicit end of the track
NoFrame == -1
NoTrack == [status |-> "none"]
FailedTrack == [status |-> "failed"]

\* A pause or resume event reaches every type, whatever its flags.
Heard(w, scape, event) ==
    LET i == event.intent
    IN  CASE event.kind = "play"   -> Intend(w, scape, i)
          [] event.kind = "stop"   -> [w EXCEPT !.voices = StopType(@, i.tick, i.type)]
          [] event.kind = "pause"  -> [w EXCEPT !.voices = PauseTypes(@, i.tick, scape.types)]
          [] event.kind = "resume" -> [w EXCEPT !.voices = ResumeTypes(@, i.tick, scape.types)]

Remixed(events, scape, admission) ==
    FoldLeft(LAMBDA w, event : Heard(w, scape, event), Watcher(admission), events)

LeastIn(S) == CHOOSE x \in S : \A y \in S : x <= y
GreatestIn(S) == CHOOSE x \in S : \A y \in S : x >= y

\* Mutant: the end of the source alone stops a segment.
StopsNatural(v, s) == IF v.loop THEN {} ELSE {NaturalEnd(v, s)}

\* The ticks at which a segment may stop being heard.
Stops(v, s) ==
    (IF s.end = Running THEN {} ELSE {s.end}) \union (IF v.loop THEN {} ELSE {NaturalEnd(v, s)})

Undecided(v) == \E n \in DOMAIN v.segs : Stops(v, v.segs[n]) = {}

VoiceEnd(v) ==
    GreatestIn({v.segs[1].start} \union {LeastIn(Stops(v, v.segs[n])) : n \in DOMAIN v.segs})

-----------------------------------------------------------------------------
(* render_track *)

PartEnd(v, s, end) == LeastIn(Stops(v, s) \union {end})

\* Frames a segment writes before its end or the end of its source.
Written(v, s, stop) ==
    Cardinality({i \in 0..((stop - s.start) * SamplesPerTick - 1) :
                   v.loop \/ s.offset + (i * s.rate[1]) \div s.rate[2] < v.duration})

Part(v, s, stop) ==
    [start |-> s.start, end |-> stop, frames |-> Written(v, s, stop),
     first |-> IF Written(v, s, stop) = 0 THEN NoFrame ELSE s.start * SamplesPerTick]

\* A segment that would begin after its end is passed over.
Parts(v, end) ==
    FoldLeft(LAMBDA parts, s : LET stop == PartEnd(v, s, end)
                               IN  IF stop < s.start THEN parts ELSE Append(parts, Part(v, s, stop)),
             <<>>, v.segs)

Sounding(parts) == {n \in DOMAIN parts : parts[n].frames > 0}

Sum(parts) == FoldLeft(LAMBDA a, part : a + part.frames, 0, parts)

EndFrame(part) == part.first + part.frames

Laid(v, parts) ==
    [start |-> v.segs[1].start, parts |-> parts, frames |-> Sum(parts),
     first |-> IF Sounding(parts) = {} THEN NoFrame
               ELSE LeastIn({parts[n].first : n \in Sounding(parts)}),
     last |-> IF Sounding(parts) = {} THEN NoFrame
              ELSE GreatestIn({EndFrame(parts[n]) : n \in Sounding(parts)})]

\* union_frames: the distinct frames the intervals cover.
Covered(voices) ==
    UNION {UNION {voices[i].parts[n].first..(EndFrame(voices[i].parts[n]) - 1) :
                    n \in Sounding(voices[i].parts)} : i \in DOMAIN voices}

Manifest(mix, events, end, voices) ==
    [status |-> "rendered", admission |-> mix.admission, end |-> end, frames |-> end * SamplesPerTick, voices |-> voices,
     plays |-> Cardinality({e \in DOMAIN events : events[e].kind = "play"}), dropped |-> mix.dropped,
     sum |-> Sum(voices), union |-> Cardinality(Covered(voices)),
     silent |-> end * SamplesPerTick - Cardinality(Covered(voices)), mix |-> mix.voices]

TrackEnd(mix, events, end) ==
    IF end # NoEnd THEN end
    ELSE GreatestIn({events[e].intent.tick + 1 : e \in DOMAIN events}
                      \union {VoiceEnd(mix.voices[i]) : i \in DOMAIN mix.voices})

Track(mix, events, end) ==
    IF mix.voices = <<>> THEN FailedTrack
    ELSE IF end = NoEnd /\ \E i \in DOMAIN mix.voices : Undecided(mix.voices[i]) THEN FailedTrack
    ELSE LET stop == TrackEnd(mix, events, end)
         IN  Manifest(mix, events, stop,
                      [i \in DOMAIN mix.voices |-> Laid(mix.voices[i], Parts(mix.voices[i], stop))])

RenderTrack(events, scape, admission, end) ==
    Track(Remixed(events, scape, admission), events, end)

-----------------------------------------------------------------------------
(* verify_track *)

PartFailures(part) ==
    (IF part.end < part.start THEN {"inverted"} ELSE {})
    \union (IF part.frames > (part.end - part.start) * SamplesPerTick THEN {"span"} ELSE {})
    \union (IF part.first \notin {NoFrame, part.start * SamplesPerTick} THEN {"grid"} ELSE {})

VoiceFailures(v, frames) ==
    (IF v.frames # Sum(v.parts) THEN {"voice_frames"} ELSE {})
    \union
    IF v.first = NoFrame THEN {}
    ELSE (IF v.first # v.start * SamplesPerTick THEN {"tick_boundary"} ELSE {})
         \union (IF v.last > frames THEN {"exceeds"} ELSE {})
         \union UNION {PartFailures(v.parts[n]) : n \in DOMAIN v.parts}
         \union (IF v.first = LeastIn({v.parts[n].start * SamplesPerTick : n \in Sounding(v.parts)})
                 THEN {} ELSE {"voice_start"})
         \union (IF v.last = GreatestIn({EndFrame(v.parts[n]) : n \in Sounding(v.parts)})
                 THEN {} ELSE {"voice_end"})

Failures(track) ==
    UNION {VoiceFailures(track.voices[i], track.frames) : i \in DOMAIN track.voices}
    \union (IF track.frames # track.end * SamplesPerTick THEN {"frames"} ELSE {})
    \union (IF track.union # Cardinality(Covered(track.voices)) THEN {"union"} ELSE {})
    \union (IF track.silent # track.frames - Cardinality(Covered(track.voices)) THEN {"silence"} ELSE {})
    \union (IF track.sum # Sum(track.voices) THEN {"sum"} ELSE {})
    \union (IF track.plays # Len(track.voices) + track.dropped THEN {"plays"} ELSE {})
=============================================================================
