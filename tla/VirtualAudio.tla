---------------------------- MODULE VirtualAudio ----------------------------
(***************************************************************************)
(* run_stream of virtual_audio.py: one stream of Foley actions drives, in  *)
(* lockstep, the silent machine alone (allocation none), the silent        *)
(* machine beside which the observer fills a mixer (the wiring             *)
(* observe_only), and the machine that reads a mixer back (the wiring      *)
(* device_feedback).  When the stream has ended the observer's events are  *)
(* rendered to an offline track and the track's manifest is checked.       *)
(*                                                                         *)
(* Bounds: Ticks ticks, MaxActions actions, and the soundscapes given.     *)
(***************************************************************************)
EXTENDS OfflineTrack

CONSTANTS Soundscapes, Ticks, MaxActions

ASSUME StreamAssumption == Ticks \in Nat \ {0} /\ MaxActions \in Nat

\* A sound holds at least one sample, a type plays known sounds, and it has one to
\* play whichever it played last: play raises otherwise, and the stream with it.
ASSUME SoundscapesAssumption ==
    \A s \in Soundscapes :
        /\ s.duration \in [DOMAIN s.duration -> Nat \ {0}]
        /\ \A type \in s.types :
              /\ s.sounds[type] \in Seq(DOMAIN s.duration)
              /\ Len(s.sounds[type]) >= IF type \in Flagged(s, "dont_repeat") THEN 2 ELSE 1

VARIABLES
    tick,       \* the tick whose actions are being run
    scape,      \* the soundscape
    admission,  \* the observer's audible policy
    plain, watched, feedback,   \* the three machines
    asked,      \* what is_playing last answered in plain, watched and feedback
    left,       \* actions the stream may still hold
    heard,      \* ghost: [tick, voice] of the observer's mixer playing at the end of a tick
    track       \* the rendered track

vars == <<tick, scape, admission, plain, watched, feedback, asked, left, heard, track>>

machines == <<plain, watched, feedback>>

Init ==
    /\ tick = 0
    /\ scape \in Soundscapes
    /\ admission \in {"all", "original"}
    /\ plain = NewMachine("none", scape, "off")
    /\ watched = NewMachine("none", scape, admission)
    /\ feedback = NewMachine("feedback", scape, "off")
    /\ asked = <<Nothing, Nothing, Nothing>>
    /\ left = MaxActions
    /\ heard = {}
    /\ track = NoTrack

\* One action of the stream, on each of the machines.
Acted(action(_)) ==
    /\ tick < Ticks
    /\ left > 0
    /\ left' = left - 1
    /\ plain' = action(plain)
    /\ watched' = action(watched)
    /\ feedback' = action(feedback)
    /\ UNCHANGED <<tick, scape, admission, heard, track>>

Play ==
    /\ \E type \in scape.types, pitch \in DOMAIN PitchRate :
           Acted(LAMBDA m : PlayFoley(m, scape, tick, type, pitch))
    /\ UNCHANGED asked

Stop ==
    /\ \E type \in scape.types : Acted(LAMBDA m : StopFoley(m, scape, tick, type))
    /\ UNCHANGED asked

Pause ==
    /\ \E entering \in BOOLEAN : Acted(LAMBDA m : GamePause(m, scape, tick, entering))
    /\ UNCHANGED asked

Cancel ==
    /\ Acted(LAMBDA m : CancelPaused(m, tick))
    /\ UNCHANGED asked

Query ==
    \E type \in scape.types :
        /\ Acted(LAMBDA m : Asked(m, tick))
        /\ asked' = [k \in 1..3 |-> FoleyPlaying(machines[k], tick, type)]

\* The frame of the tick is recorded after its actions.
EndTick ==
    /\ tick < Ticks
    /\ tick' = tick + 1
    /\ heard' = heard \union
         {<<tick, i>> : i \in {j \in DOMAIN watched.watcher.voices :
                                 IsPlaying(watched.watcher.voices[j], tick)}}
    /\ UNCHANGED <<scape, admission, plain, watched, feedback, asked, left, track>>

\* The stream is over: its events are rendered, to their own end or to a given one.
Render ==
    /\ tick = Ticks
    /\ track = NoTrack
    /\ watched.watcher.events # <<>>
    /\ \E policy \in {"all", "original"}, end \in {NoEnd, Ticks - 1} \ {0} :
           track' = RenderTrack(watched.watcher.events, scape, policy, end)
    /\ UNCHANGED <<tick, scape, admission, plain, watched, feedback, asked, left, heard>>

Next == Play \/ Stop \/ Pause \/ Cancel \/ Query \/ EndTick \/ Render

Spec == Init /\ [][Next]_vars

-----------------------------------------------------------------------------
(* Properties *)

\* What the observer hears never reaches the game: with and without the observer
\* the frames, the outcomes, the draws and the answers are the same (compare_traces).
ObserveOnly ==
    /\ Frame(plain) = Frame(watched)
    /\ plain.told = watched.told /\ plain.said = watched.said
    /\ asked[1] = asked[2]

\* A slot in use of the feedback machine holds a voice of its type that no other
\* slot holds and that was not released; the voices nobody holds are released, save
\* those cut by a pause; and the device never holds more voices than channels.
InUse == {s \in scape.types \X (1..MaxFoleyInstances) : feedback.slots[s[1]][s[2]].refcount > 0}
VoiceOf(s) == feedback.slots[s[1]][s[2]].voice

SlotsHold ==
    /\ \A s \in InUse :
          /\ VoiceOf(s) \in Held(feedback)
          /\ feedback.voices[VoiceOf(s)].type = s[1]
          /\ feedback.slots[s[1]][s[2]].paused = ~IsOpen(feedback.voices[VoiceOf(s)])
          /\ \A r \in InUse : VoiceOf(r) = VoiceOf(s) => r = s
    /\ \A i \in Held(feedback) :
          IsOpen(feedback.voices[i]) => \E s \in InUse : VoiceOf(s) = i
    /\ Cardinality(Held(feedback)) <= MaxManagerChannels

\* No sample is lost or repeated over a pause: in the observer's mixer each segment
\* begins where the one before it stopped, at the end of the buffer or around it; and
\* a voice is said to play exactly until its cursor has passed its last sample.
ReachedBy(v, s) ==
    IF v.loop THEN Cursor(s, s.end) % v.duration ELSE LeastOf(Cursor(s, s.end), v.duration)

PlaceKept ==
    \A i \in DOMAIN watched.watcher.voices :
        LET v == watched.watcher.voices[i]
        IN  /\ \A n \in 2..Len(v.segs) :
                  /\ v.segs[n-1].end # Running
                  /\ v.segs[n-1].end <= v.segs[n].start
                  /\ v.segs[n].offset = ReachedBy(v, v.segs[n-1])
            /\ IsOpen(v) /\ ~v.loop => (IsPlaying(v, tick) <=> Cursor(Seg(v), tick) < v.duration)

\* Rendering the observer's events mixes again what the observer mixed, if it admits
\* what the observer admitted and no pause spared a type; and the track is then heard
\* in the ticks in which the mixer said a voice was playing, and in no other; and the
\* track verifies, unless a voice is silent in its first segment.
PausesAll ==
    \/ Flagged(scape, "mute_on_pause") = scape.types
    \/ \A e \in DOMAIN watched.watcher.events : watched.watcher.events[e].kind \in {"play", "stop"}

AdmitsTheSame == admission = "original" \/ track.admission = "all"

Sounds(t, v) ==
    \E n \in Sounding(v.parts) :
        t * SamplesPerTick \in v.parts[n].first..(EndFrame(v.parts[n]) - 1)

OpensSilent(v) == v.parts # <<>> /\ v.first # NoFrame /\ v.parts[1].frames = 0

TrackHeard ==
    track.status = "rendered" =>
        /\ (\A i \in DOMAIN track.voices : ~OpensSilent(track.voices[i])) => Failures(track) = {}
        /\ PausesAll /\ AdmitsTheSame => track.mix = watched.watcher.voices
        /\ track.mix = watched.watcher.voices =>
              \A t \in 0..(LeastOf(Ticks, track.end) - 1), i \in DOMAIN track.voices :
                  Sounds(t, track.voices[i]) <=> <<t, i>> \in heard
=============================================================================
