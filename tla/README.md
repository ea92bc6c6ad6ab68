# A TLA+ development for llm-vs-zombies

`llm-vs-zombies` lets a client outside the game (a language model's driver, an evaluation, a
replay) play *Plants vs. Zombies* one simulation tick at a time. A resident C++ runtime lives in
the game's process and owns the game thread; a Python package talks to it over a named pipe and
keeps the evidence of every run. These modules model the parts of it where order, failure and
retries decide whether that evidence can be trusted. Paths below are relative to the repository.

## 1. Inventory

```
 client.py --frames--> PipeServer workers --tickets--> Drain -> Controller::Request -> RequestJournal
 (Python)  <--answers--        (threads)    <--replies--     |        |        (files on disk)
                                                             |        v
                                game hook (Before/After frame) -> Controller -> EngineCallTracker -> original update
```

| component | state | operations | what is hard | what makes it correct |
|---|---|---|---|---|
| **Request journal** `runtime/request_journal.hpp` | two files (normal, preallocated reserve), bucket heads, used bytes and slots, epoch, scope, fault, sealed | Open/Adopt, Find, Reserve, Complete, Seal, Epoch, Rebind | every write may fail; chains run through both files; room must be left for the close | an ID is bound once; the index is exact; a healthy journal has an answer for every settled request |
| **Deduplication** `controller.cpp` `Request`, `Complete` | hot entries, pending ID, storage fault, recording closed | admit, answer, evict, stop_recording, branch_rebind | an answer that could not be persisted lives in RAM only, and is saved by the close | one content and one answer per ID, branch and epoch, also across eviction |
| **Controller** `controller.cpp`, `runtime.cpp` | version (epoch, tick, revision), pending advancement, Board identity, freeze and fault flags, preparation flags | Boundary, requests, BeforeStep, RunEngineFrame, AfterStep, Fail, Disconnect | the game changes under the controller: Boards replaced inside and outside an update, faults while an update is in flight | every original update is counted and told once; versions only move on; a stopped run stays stopped; a pending request ends |
| **Engine call tracker** `engine_call.hpp` | phase, active call, totals, faults | Reserve, Enter, Returned, Complete, Abort, GuardEntry | calls from the wrong phase or nested calls | totals add up, or the run is unhealthy |
| **Pipe server** `pipe_server.cpp` | 8 worker threads, ticket queue, disconnect list, stop event | Serve, Drain, Stop | three threads' views of one ticket; clients that leave at any time; shutdown join | no ticket lost, nothing answered twice, everybody answered, joins end |
| **Preparation** RNG seed, sound counter origin, B(0) table, warm draw | flags of the backend, per fight | `rng_seed`, `sound_counter_origin`, `b0_normalization`, `prepare_render` | their order, and flags that outlive a fight | a measured update follows a full preparation of its own fight |
| **Frame cache** `recording/*`, `capture_frame` | one frame with its version | Store, Find, Invalidate | pixels of an older boundary | a captured frame is the current boundary's (not modelled) |
| **Audit, probes, recorder** `determinism/*` | hook buffers, event and frame files, close receipts | capture, drain, append, close | bounded queues, unreadable memory, two hooks merged into one stream | complete and so marked, or refused; healthy runs are never refused |
| **Launcher** `launcher/*`, `launcher.py` | process handles, native receipt | prepare, start, verify, stop | a process exists before its pid is known | the game is stopped whatever failed |
| **Client, trace** `client.py`, `session.py` | used IDs, last observation, trace file | request, commit, observe, capture | a broken connection leaves the outcome unknown | the trace never claims more than happened |
| **Branch workers** `branch_workers.py` | worker processes, device lease and its journal, receipts, report | start, arm, collect, terminate, seal, verify | crashes between lock and journal line, dead parents, foreign writes | failures stay local, the lease verdict is exact, sealed evidence is what passed |
| **Cold workers** `cold_workers.py` | pending, running, results | schedule, collect, merge | failure of a peer, cleanup under failure | at most two run; each is reported once; a pass is a real replay |
| **Window observer** `window_observer.py` | control and target documents, stop channel, samples | publish, sample, stop, seal, judge | a game seen only in samples, a worker that hangs or dies | the verdict is honest and always comes |
| **Evidence codec, records** `evidence_codec.py`, `records.py` | plain files, containers, receipt, manifest | compress, finish | a crash at any point, live writers | some complete copy of each file always exists |
| **Evaluation** `evaluation.py`, `evaluation_support.py` | plan, pauses, intervention, budget, session receipts, gates | `_play_source`, `live_session`, `_retain_session`, `run_suite` | chains of fallible steps, each of which goes on | pauses and interventions are exact; no failure is swallowed; ready is real |
| **Engine replay** `engine_replay.py`, reader `audit_compare.py` | trajectory, live game, tail of the live audit | build, load, replay, verify | two processes' evidence compared while one is still written | an equal replay went the same way; nothing is refused without cause |
| **Virtual audio** `virtual_audio.py` | slots, channels, voices with segments, events | play, stop, pause, query, render, verify | exhaustion, pauses across the end of a voice | observing feeds nothing back; the track is what was heard |
| **Lifecycle evidence and report** `lifecycle_events.py`, `lifecycle_report.py` | event stream, block, receipt | validate, analyze | a missed event looks like none | the validator never passes a hole; a proven first kill is real |
| **Tools, examples** | files | - | - | - |

The runtime's handlers all run on the game thread. Concurrency comes from the pipe workers, from
clients, and from the game itself, which changes its Board while the controller waits. Files are
the only shared state of the Python processes. `PROJECT.json` lists the hazards at their lines,
each with the properties that watch it or the reason none does.

## 2. Modules

| module | models | run |
|---|---|---|
| `RequestJournal` | the journal's data and operations as operators on one record, each outcome of each write included | through `RequestDedup` |
| `RequestDedup` | the controller's use of the journal, one action per call into the controller | `dedup`, `close_slot` |
| `DedupStore` | abstract promise: a table of keys, each bound once and answered once | refined in `dedup` |
| `JournalAdoption` | `RequestDedup` and a sibling process that adopts the files | `adopt_meaning` |
| `RequestDedupProofs` | the theorems about `RequestDedup` and its refinement | tlapm |
| `EngineCalls` | `EngineCallTracker` as operators on a record | through `Controller` |
| `Controller` | boundaries, requests and frames of the game thread | `controller` |
| `ControllerProofs` | the theorems about `Controller` and its calls | tlapm |
| `PipeServer` | workers, clients, Drain, shutdown | `pipe` |
| `PipeServerProofs` | the theorem about `PipeServer` | tlapm |
| `BranchWorkers` | the branch scheduler, its worker processes, the device lease, the report and its verification | `branches` |
| `BranchWorkersProofs` | the theorems about `BranchWorkers` | tlapm |
| `SourcePlay` | the source run of an evaluation: decisions, pauses, one intervention, budgets | through `LiveSession` |
| `EvidenceCodec` | compression of a closed audit | through `LiveSession` |
| `LiveSession` | a session around a play: launch, cleanup, retention, sealing (extends the two above) | `evaluation` |
| `LiveSessionProofs` | the theorems about `LiveSession` and the two it extends | tlapm |
| `ColdWorkers` | the scheduler of the cold replays and its hosts | through `EvaluationSuite` |
| `EvaluationSuite` | the suite of seeds, its cases, gates and readiness (extends `ColdWorkers`) | `suite` |
| `WindowObserver` | monitor, worker, documents, samples and verdict | `observer` |
| `EvaluationSuiteProofs` | the theorems about `EvaluationSuite`, `ColdWorkers` and `WindowObserver` | tlapm |
| `AuditStream` | the reader of a native audit: one decoder over four files | through `ReplaySession` |
| `RecordedGame` | a game played through the runtime and the audit it writes | through `ReplaySession` |
| `EngineReplay` | trace steps, native steps, their checks, the trajectory | through `ReplaySession` |
| `ReplaySession` | recording through the client, packaging, and the replay against a live game (extends the three above) | `replay` |
| `TickMixer`, `FoleyMachine`, `OfflineTrack` | mixer; slots, devices and observer; render and verification, as operators | through `VirtualAudio` |
| `VirtualAudio` | one stream of sounds driving three machines in lockstep | `audio` |
| `VirtualAudioProofs` | the theorems about `VirtualAudio`, its machines and mixers | tlapm |
| `LifecycleEvents` | lines of the stream, events, capture order | through `LifecycleRun` |
| `LifecycleCapture` | spawn hook, probes, queues, drain, recorder, close | through `LifecycleRun` |
| `LifecycleEvidence` | the offline validator, as operators on what it reads | through `LifecycleRun` |
| `LifecycleReport` | boundary report and first kill, as operators | through `LifecycleRun` |
| `LifecycleRun` | the three together, with a damaged or unfinished stream | `lifecycle` |
| `LifecycleRunProofs` | the theorems about `LifecycleRun` | tlapm |

The `MC*` modules give the constants their values. Operators whose comment calls them *faulty* or a
*mutant* (`TakeFront`, `ExpiredAfterExit`, ...) are deliberate bugs: no specification uses them. Each
one replaces the definition it is named after in a run that must then fail; so every property of
every passing run is known to be breakable by a plausible error in the code.

### RequestJournal, RequestDedup

`j` is the journal object. Its `log` is the sequence of records in both files, in the order of
their appends; a token (an offset in the code) is a position of the log, and a record keeps the
file it is in. `next` is the link to the older record of its bucket, `walk` are the bucket heads
(`heads_`), `used` the slots and bytes spent per file. A write to a file in the set `down` fails.
`Find` walks the chain and skips other epochs and scopes as the code does, `Matches`, `Mismatched` and
`Damaged` are its outcomes. Contents are model values; an answer is a value, `Lost` (the answer of
a request ended by a storage fault), `Closed` or `Incomplete`.

The hot entries `hot` are `cache_`. `Settle` is `Controller::Complete`: a persisted answer evicts
its entry, one whose write failed stays in RAM and freezes the run. Retries and `status` calls
only read; `Told` is what they are told, and the refinement is about it. Closing is two
steps, `StopBegins` and then the sealing of the remaining answers (`SaveRamOnly`, `Seal`,
`CloseFails`), because each write may fail on its own.

### DedupStore and the refinement

A key is a branch and an ID. It is bound to one content once, and its answer is set once; an ID
used in two branches has one content. A new epoch empties the table but may only do so while at
most the advancement it ends is unanswered. `RequestDedup` implements it with the table mapped to
what a retry would be told now (`Told`), so the promise is about the client, not about the files.

### JournalAdoption

The parent stops anywhere; a sibling of another scope starts with the files and the epoch it is
told to adopt. As in the code, the journal is opened by the first `Reserve`, hence after the first
lookup.

### Controller, EngineCalls

One action is one request handled, one boundary, or one of the steps of a frame: the pump's gate,
`Boundary`, the pre-audit, entering the original update, what the update does (a tick, no tick, a
lost or a new Board, an exception), and `AfterStep` with its failures. `calls` is the tracker,
`pending` the advancement with its budget and what it will tell, `told` what clients have been
told. `External` is the rest of the game between frames: Boards come and go.

Abstractions: the journal's answers are kept or lost, and `storage` stands for `storageFault_` or
a journal fault, so that the journal's model need not be repeated; `inStep_` is always false where
it is read, since requests are drained outside the update; preparation flags hold the epoch they were set in
(which tells a flag left over from an earlier fight); the two retired clock anchors are left out, since the
production backend supports B(0) exactly when it would support them. `c.silent`, chosen at the start,
says whether the silent-audio backend, and with it the whole preparation protocol, is on.

### PipeServer

A worker is free, reading, waiting or leaving; a client owns the other end of its pipe, sends one
request at a time and may close it between any two steps. A transfer of one frame is atomic. The
code holds the ticket's mutex from noticing the broken pipe to queueing the disconnect: `MarkGone`
and `PushGone` are two steps, and `Held` delays the game thread's reply between them. `Drain` is
cut at every point where another thread may act: taking the disconnect list, each disconnect, each
ticket, its check and its request. Of the controller only waiting is left: the pending ID, the
tickets that wait for it, the answers kept. The answers themselves are abstract.

### BranchWorkers

The parent's `phase` is its place in `run_branches` (dispatch, arming, collecting one worker,
cleaning after an interrupt, sealing, reporting), `pc` each worker's place in `worker()`. A
directory is the number of foreign writes made into it, which is all a manifest comparison can
see. `lock` is the device mutex; the kernel drops it when its holder dies. `journal` is
`device-lease.jsonl`, whose lines may be lost by a crash on either side. Any worker may crash or
hang at any step, any start may fail, the parent may be interrupted or die; `faults` bounds how often.
`excused`, `unseen` are ghosts: what was done to a branch, and the one write no later comparison can
see (between `collect`'s comparison and its completion manifest). Abandoned windows are sealed one line
per step (`SealWindow`), as the loop at `branch_workers.py:1286` writes them. What an executor plays is one
step whose frames are equal or other.

### SourcePlay, EvidenceCodec, LiveSession

`SourcePlay` is `_play_source`: at the top of its loop the ends that are looked for first, then the intervention,
then the strategy's decision and its commit. A boundary is a version, the screen, the rounds completed, and what
the stop conditions look at. `Answers` is what `Controller::AfterStep` can make of a commit. An update that leaves the
fight answers `scene_changed`, with a moved clock or, when the game is over, without; the loop goes on with it, and
its next pass chooses the end (`EarlyEnd`). A replaced board is an error answer and raises. A decision
is bounded by the remaining budget and one request's limit, an intervention by the chunk. The epoch is
constant: a run is one fight. `PauseSchedule.after_step` is the
operator `AfterStep`, loop included. `LiveSession` is the `with` statement around it, one action per
statement that can fail: every stage of the launch, and every entry of the `finally`; a swallowed
failure goes to `errors` as `retain` does, and the ghost `mishaps` keeps what really happened.
`launcher.start` is cut where the process exists but its pid is not yet returned (`Recovered` is the
reading of the native receipt). `NativeLaunch` is the helper process: it creates the game suspended and writes its
receipt before it resumes it, terminates the game when it fails, and does neither when its 35 seconds are over and it is
killed: a game without pid and receipt is `Unnamed`, and nothing looks for it. Retention then compresses (`EvidenceCodec`, one step per file, with
failure or death at each), packages, seals and judges. A cold session's body is only its end.
Interrupts inside the cleanup, the capture export and the contents of reports are left out.

### ColdWorkers, EvaluationSuite

The scheduler's poll is cut per handle (`PollOne`), because a failure seen in a pass must prevent the
refill at its end. A host is armed, replays, seals and exits, and may die or stall at each step; its
receipt is verified as `verify_result` does. The suite plays each seed's source, dispatches its cold
replays serially or through the workers, merges, probes recovery, closes the case and gathers the
gates. `truth` (ghost) is what each seed really did. What a session does is `LiveSession`'s; here it
passed or it did not.

### WindowObserver

Monitor and worker share write-once documents, a stop event and a lock. Time stamps are kept as
ages in ticks, samples as what the verdict folds over them (gap, front, shown, bad). A sample is
taken between its two stamps. Handles come from a scan and are verified before use (`Kept`: alive, and owned by the
game); when the last one is lost, a scan is forced in the same sample (`AllLost`). The game opens
and closes windows, takes and yields the foreground, and dies, at any time, and a handle it gave up may
become another process's visible window. `exposed` is a ghost: the
longest stretch of each. The worker's checks of its parent and of its own limits are not reached, and an interrupt
of the monitor comes only while it waits.

### AuditStream, RecordedGame, EngineReplay, ReplaySession

`RecordedGame` writes what the controller and the audit write for each request: events, frames with
checksums, deltas, raw calls; `AuditStream` is the decoder of `audit_compare.py`, a fold in which
`ok` turns false at the first record that cannot follow the previous ones. A digest is the state it was
computed from. `EngineReplay` reads a client's trace into steps, the audit into steps, and binds them.
`ReplaySession` lets a client play, read, capture, pause and stop against one game, packages, starts
a second game that is free to go another way, and replays request by request with the comparisons of `replay`
after each, then the snapshot and the close evidence. The environment may harm one thing once:
a line of any file (lost, doubled, swapped, cut, altered, before or after numbering), the package,
a live file already consumed, the game between two requests, or an answer.
Abstractions: the epoch is constant, the replayed game begins at another revision; a commit of no
actions is an advance; harm comes between replay requests; animations, particle seeds,
hosted fire, audio and floating-point receipts, takeover, render preparation and legacy captures are
left out. `ctl` false is an archive without close evidence, about which less is promised.

### TickMixer, FoleyMachine, OfflineTrack, VirtualAudio

A voice is its segments; whether it plays and where its cursor is are computed from the tick, as in
the code. A machine is slots per type and the device behind them: none, or a mixer whose channels
are limited. `VirtualAudio` drives three machines with the same stream, as `run_stream` does, and
then renders the observer's events. Samples, volume, pan, JSON and `events_from_foley_trace` are
left out. Two premises appear in `TrackHeard` because the code needs them: the track's admission
policy is the observer's, and pauses reach every type (a rendered pause reaches all, a live one only
the types muted on pause). An explicit end of the track lies after its start: the code refuses any other.

### LifecycleEvents, LifecycleCapture, LifecycleEvidence, LifecycleReport, LifecycleRun

One game thread runs everything, so a probe and the store it watches are one step. Births nest
(`stack`) and are followed to a depth of `NestLimit`, queues have `Capacity` places, memory may be unreadable at each capture; every audited boundary drains
and merges both queues by sequence. A living zombie may go on to another phase (`Turn`), which no probe watches;
some of these phases are known to the report (`KnownNonDead`) and some are not. `CaptureInitial` is the evaluation's
`replay-initial.json`: it reads the state and adds no frame. `Close` is one step: the rewritten
manifest and the receipt come together, and a probe that cannot be removed is left out. `LifecycleEvidence` is the validator over a view of the
directory: mode, envelopes, nesting, guard and commit pairs, receipts, health. A crash leaves exactly
what a live reader can see, a prefix and perhaps part of a line, so reading `Seen` at every state
covers crashes without an action of their own. `Harmed` damages one line. The report is the boundary
report over the frozen window and the first kill over the records. Premises: all death stores are
hooked; no store after a removal; versions count calls only; identity checks of plan, binding, seed and
launcher are taken as satisfied; the report is for the recorded mode, its prose is left out.

## 3. Runs

| run | instance | what it shows |
|---|---|---|
| `dedup` | two IDs, three contents (a move, a pause, the close), two branches, one bucket, two normal and two reserve slots, byte quotas of 5 and 6 (every record weighs 1, the close keeps 2), two epochs; every set of files may fail in each call | an ID is admitted once, the index is exact, a sealed archive is complete, the close keeps its room, and `DedupStore` is implemented |
| `adopt_meaning`, `close_slot` | the same with three IDs and quotas of 4 and 5; the first with an adopting sibling | the two findings below |
| `controller` | two ticks per request, three update calls, four epochs, two Boards made in the run, revisions to 6, one fault; silent audio on and off | work told exactly once, fresh versions, full preparation, stopped for good, pending requests end |
| `pipe` | two connections, one advancing and one pausing ID, queue and batch of 1, three tickets | one answer per ID, abandoned advancements end, clients are answered, shutdown joins |
| `branches` | two branches, two faults; both at once with lease and comparison, or one after the other without | failures stay local, the lease verdict is exact, passed evidence is the sealed one, the run ends |
| `evaluation` | three ticks, requests of at most two, interventions of at most one, two rounds, pause points at 1 and 3, two audit files, two failures | pauses and interventions exact, nothing swallowed, the game stopped, every audit file kept |
| `suite` | three replays, up to two seeds, two failures | each replay reported once, passes are real, readiness is real, the suite ends |
| `observer` | gap and scan of one tick, two changes of the game, one failure | honest verdict, closing always ends |
| `replay` | two requests, two updates, data of two values, births, waves, the end of a fight; one harm | packaged evidence is what happened, an equal replay went the same way, no false alarm |
| `audio` | three ticks of two samples, four actions, two slots, two channels, two pitches, three soundscapes | no feedback, slots hold, no sample lost over a pause, the track is what was heard |
| `lifecycle` | three slots, one death stage, a known and an unknown live phase, queues of two, three happenings, two calls | valid evidence is whole, healthy evidence accepted, a first kill real, every loss told |

Type invariants are conjuncts of a property of their run: `TypeOK` of `WorkTold`, `SameAnswer` and
`EvidenceKept`, `SessionType` of `NothingSwallowed`, `ColdType` of `ColdsAccounted`, `ObserverType` of `VerdictHonest`.

Why the bounds are enough. *Journal*: one bucket is the worst case (every record shares a chain),
the quotas make every refusal happen (slots, bytes, close room), two epochs and two branches are
one more than the current ones. *Controller*: three calls let a request of two ticks be followed by
another and meet a terminal update with and without a tick; one fault is enough because each of
them stops the run for good. *Pipe*: a queue of 1 is full with one waiting client, a batch of 1 ends
with tickets left, three tickets let one ID be retried while another request comes between, and two
connections let a retry and a late disconnect race. *Branches*: two workers contend for one device;
two faults let one die in the lock and the other, or the parent, in what follows. *Evaluation*: two
pause points fall due together or one by one, two failures meet in a cleanup. `Explored` limits faults
to the plain plan after at most one commit, and replays to the plain plan: the cleanup does not depend on
what was played. *Suite*: three replays are one more than run at once, two failures let a peer fail in
the same poll. *Observer*: two changes are an exposure and its end, against gaps of one tick, as small as
they can be relative to it; time runs while a pass is still possible. *Replay*: two requests give a boundary that
is both an end and a beginning; `Bounded` allows one odd update per game when there is harm.
*Audio*: four actions exhaust two slots or channels and then act on them; lengths of three and five
samples end inside a tick. *Lifecycle*: three slots nest one birth deeper than the hook follows (`NestLimit` is two) and give a
first kill its rival; queues of two overflow at the third capture; three happenings fit before and in the
first call, two after it; `Bounded` explores on from the third only where no fault was met and every zombie is in phase 0
or dying, or from the birth that nests too deep. The phases 0 and 12 are one the report knows and one it does not. `MaxTickets`, `MaxCalls`,
`MaxEpoch`, `MaxRevision`, `MaxFaults`, `MaxActs`, `MaxActions`, `MaxHappenings`, `MaxRequests` and `MaxSeeds` are
bounds of the exploration, not of the code.

Deadlock is checked in the controller's run. In the others it is off because a run of that system
really stops: quotas and epochs are used up, servers are shut down, sessions, suites, streams and reports end.

Symmetry: the IDs of the journal's runs and the slots of `lifecycle` are symmetric (safety only); no
run with liveness uses it.

### Fairness

* `Controller`: weak fairness of the game's loop only. The hook calls the pump on every frame, and
  the original update returns or throws. Requests, faults and the outside world are never fair.
* `PipeServer`: weak fairness of `Drain` (called on every frame), of each worker (a thread that
  polls every 20 ms) and of the join. Nothing makes a client act, a budget run out or the server
  stop. `ClientsAnswered` therefore assumes that the controller is free again and again: that is the
  controller's own liveness, `PendingEnds`.
* `BranchWorkers`: the scheduler's process runs (`Parent`) and time passes (`Expire`). A worker may
  hang for ever at any step; only its deadline ends it.
* `EvaluationSuite`: the same for the suite and its scheduler; no host is owed progress.
* `WindowObserver`: the monitor goes on (`Monitoring`), its waits time out; the worker and the caller
  inside the context are owed nothing.
* `RequestDedup`, `LiveSession`, `ReplaySession`, `VirtualAudio` and `LifecycleRun` have safety only:
  they are sequences of calls without a loop that must go on.

## 4. Findings

1. *One ID, two meanings* (`adopt_meaning`). `docs/runtime-protocol.md:166` says that one ID must
   not mean two things inside one tree. A sibling's first request is looked up before the adopted
   journal is opened (`controller.cpp:433`, `request_journal.hpp:124`), so it may bind an ID of its parent
   to another content. Later requests are checked.
2. *The close's slot* (`close_slot`). `controller.cpp:518` says an unsuccessful close must not
   consume the dedicated final ID. It does when the audit or the native close throws after the
   reservation.

Observations that contradict no document, met while modelling:

* Adopted epochs: the reader's epoch starts at 1 and `OpenAdopted` does not move it, so a sibling that adopts
  a later epoch refuses its first inherited record and freezes (`request_journal.hpp:350`); adopted entries
  are counted with their completions, so the adopted quota is used up at half the requests (351).
* `Complete` writes the answer of `stop_recording` before `Seal` (`controller.cpp:257`): when `Seal` fails,
  the file says closed and the client is told `recording_close_incomplete`.
* The sound counter's bound outlives its fight (`controller.cpp:711`): in a second fight `rng_seed` may
  be refused as sealed before its counter was set.
* `run_branches` raises `KeyError` instead of writing its report when an interrupt leaves a compared
  branch undispatched (`branch_workers.py:1300`).
* Audio: a paused foley slot that is stopped keeps its manager channel, since the mixer's `release` of a
  voice that is not open retires nothing and `Held` counts released voices only (`virtual_audio.py:611`, 885);
  a stop by type acts on the first *open* voice even if it ended naturally, and is lost on a paused
  type; `verify_track` rejects its own render when a voice is silent in its first segment, which
  `TrackHeard` therefore excludes.
* The launcher gives its native helper 35 seconds (`launcher.py:250`). Killed after it created the game
  (`native_launcher.cpp:73`) and before its receipt (112), it leaves a game that neither `start` nor the session's
  cleanup (`evaluation.py:517`) can name; `ProcessesOwned` therefore excepts it (`Unnamed`).
* The boundary report believes a death only from the phases of `KNOWN_NONDEAD` (`lifecycle_report.py:41`, 524). A zombie that
  dies from another live phase and is still falling at the window's end is neither confirmed nor an unknown
  removal: only the list of death observations has it, and `BoundaryTold` says so.
* Lifecycle: the live reader of a run with probes enabled calls it failed until the probes are closed,
  which `NoFalseRefusal` therefore excludes (`~probes`); the boundary report counts a zombie that
  disappeared and was then released twice in its unknown removals.

## 5. Proofs

Every theorem below is about the specification itself, for every value of its constants; the runs of
section 3 check the same property on one instance. The assumptions on the constants are named in the modules
that declare them, and TLC evaluates them in the runs. Each inductive invariant was checked by TLC
as an invariant of its run's instance before it was proved.

| module | theorem | property | inductive invariant |
|---|---|---|---|
| `RequestDedupProofs` | `TypeCorrect`, `AdmittedOnce`, `IndexReachesAll` | `TypeOK`, `AtMostOnce`, `IndexExact` | `Inv`: the journal is typed and its index exact, hot entries name reservations of their own |
| `RequestDedupProofs` | `ArchiveComplete`, `CloseFindsRoom`, `KeepsPromises` | `SealedComplete`, `CloseRoom`, `ImplementsStore` | `Inv`, and: an open reservation has a hot entry that remembers its answer; room is kept until a close uses it |
| `PipeServerProofs` | `AnsweredAlike` | `SameAnswer` | an answer on its way to a client, in a ticket or at the game thread is the kept one |
| `ControllerProofs` | `WorkAccounted`, `VersionsFresh`, `StepsPrepared`, `StaysDown` | `WorkTold`, `VersionFresh`, `PreparedSteps`, `StoppedForGood` | what was counted is told or still to be told, place by place in the frame; preparation flags are of the epoch they were set in |
| `BranchWorkersProofs` | `TypeCorrect`, `FailuresLocal`, `LeaseVerdict`, `SealedEvidence` | `TypeOK`, `FailureLocal`, `LeaseVerdictExact`, `EvidenceKept` | a branch has one place in the scheduler; who holds the lock and which of its lines the journal has; manifests against the sealed one |
| `EvaluationSuiteProofs` | `ReplaysAccounted`, `PassesReal`, `ReadinessReal` | `ColdsAccounted`, `PassedReal`, `ReadyReal` | every replay is in one of three places; a receipt against the host that wrote it; gates against `truth` |
| `LiveSessionProofs` | `PausePoints`, `InterventionKept`, `FailuresTold`, `GameOwned`, `AuditSafe` | `PausesAccounted`, `InterventionExact`, `NothingSwallowed`, `ProcessesOwned`, `AuditKept` | `LiveInv` |
| `EvaluationSuiteProofs` | `VerdictTrue` | `VerdictHonest` | `ObserverInv` |
| `VirtualAudioProofs` | `ObservationHarmless`, `PausesLoseNothing`, `SlotsAgree` | `ObserveOnly`, `PlaceKept`, `SlotsHold` | `SilentInv`, `WatchInv`, `SlotsInv` |
| `VirtualAudioProofs` | `TrackProven` | `TrackHeard` | `MixInv`: the events so far, mixed again under either policy, account for every play and are the observer's voices when admitted alike; what was heard is where their segments run |
| `LifecycleRunProofs` | `Typed`, `Whole`, `Told` | `TypeInv`, `EvidenceWhole`, `BoundaryTold` | `WholeInv`: records are numbered, what was owed is in a queue, on file or a fault, and a receipt is of a whole file; `HistoryInv`: each loss lies between its frames and shows in them |
| `LifecycleRunProofs` | `NeverRefused` | `NoFalseRefusal` | `SoundInv`: without a fault the queues rise above what is written, the validator's stack over written and queued exits is the running initializers, and recycled slots are paired |
| `LifecycleRunProofs` | `KillProven` | `FirstKillReal` | `KillInv`: with the probes and without a fault, each first loss is captured, before every other blow to its zombie, and a captured blow is a first loss, follows a captured death, or hits a zombie that was dying before all capture |

`StaysDown` is an action property and `KeepsPromises` a refinement; the others are state invariants. The
`TypeCorrect` theorems are the types that the others rest on.

**Assumptions.** They say that quotas, capacities, intervals and bounds are naturals (positive where the code
divides or waits by them), that the special values are distinct from the data, and that the constants which are
functions are typed. Three say more, and the code does too: `SoundscapesAssumption` has a sound for every
draw (a type that may not repeat its last variation has two), since `play` raises otherwise and the
stream ends with it (`virtual_audio.py:1072`), and positive durations; `PlayAssumption` has the pause points a strictly
increasing sequence of positive ticks (`evaluation.py:160` refuses any other plan), and `ConstantsAssumption`
has the reserve file hold at least what a close needs and one slot. No theorem assumes anything about
a state, about faults or about fairness.

**The journal.** That an ID is unknown is decided by a walk along the chains, so `AtMostOnce` needs the
exactness of the index; an admission hands its token to a hot entry, and a later completion uses that token, so
exactness of the completions needs that hot entries name reservations of their own ID, epoch and
branch. The lemmas go up the code: `Append`, `Complete`, `Reserve`, `Settle`, the admissions, then one step per
action. The refinement maps the table to what a retry would be told now: most steps change neither
the record nor the hot entry of a key and stutter; `Settle` and the sealing of the remaining answers
are the abstract answering; an eviction changes where an answer is read, and exactness of the index makes
that the same answer.

**The controller.** A call is counted by the tracker when it returns but told at `AfterStep`, in a failure's
answer, or with a later request, so the invariant says at every place of the frame what is
counted and not yet told. An exception or a lost Board moves the place and not the sum.

**The branches.** The scheduler's invariant says for every branch that it is queued, being started, running or
has its result. `FailureLocal` follows from `OnCourse`: a branch nothing was done to has no result against it, at
any place. `LeaseVerdictExact` is about the journal after any crash: a worker that writes its acquire or release line
holds the lock, its acquire line stays the last one until its release line follows it, and a window is abandoned
only after its acquire line, so that the verdict can only fail on a release line without an acquire line.
`EvidenceKept` relates the manifests of results and report to the sealed one, with the one unseen write as its
exception.

**A session.** `LiveInv` has four parts. `CodecInv`: every file is plain until the receipt and a container
from it on. `PlayInv`: past the top of the loop no stop was seen, and the intervention was
committed when and only when the record says so. `PausesInv`: the points still to come are a tail of the
plan's, and the completed and unexecuted ones together are the rest; the first point not due is found as a least
element, by the well-foundedness of the naturals. `SessionInv`: what is built and owned at each statement, and, for each kind of mishap,
where it shows (an error, the primary failure, a cleanup entry missing, a window verdict): `NothingSwallowed` is
what that says of a session that passed.

**The observer.** The proof is about time. `Doomed` lists what makes a pass impossible, a late sample under
way included, and no step undoes it. While not doomed, the foreground has been held for no longer than since
the last probe; a window for no longer than that when its handle is held, and otherwise for no
longer than since the last scan. A tick lengthens each stretch and its bound by one, and a probe that
sees nothing sets all of them to its own age. A sample too old, or a gap, dooms before a stretch can pass
the bound that the verdict promises.

**The audio.** `SilentInv`: a machine without a device never holds a voice, so every slot of it is free, nothing
finishes, and each action is its telling and its draw; these read the fields on which both silent machines agree. `WatchInv`
is about cursors. A voice of the observer's mixer is a chain of segments; the one that runs began no later than the
tick. A cut ends it now, and the place a pause noted is what the cut segment reached (`PositionReached`): at the
buffer's end, where rounding up to the tick of the natural end and rounding down to a sample must agree, this is
`EndsWhenPassed`, with division characterised by its bounds. `SlotsInv` relates slots and voices. Releases touch
only voices whose slot goes at once, since no two slots share one; a pause closes the voice and marks
the slot, its end opens and unmarks both; an allocation adds one voice while a channel is left.

`MixInv` is for `TrackProven`. The rendered mix is a fold over the events; `RemixedNext` shows that one more event is
heard after the others, so the invariant follows the fold while the stream runs: the mixer that a
render would make now is kept beside the observer's. A voice is heard at a tick when one of its segments runs then
(`Runs`), and a write at a tick changes nothing of what was heard before it (`Onward`), so the history of
the answers of `is_playing` is a function of the voices (`HeardBy`). The rest is geometry. A part's end is the least of
three (`PartEnds`); the samples a segment writes are those before the first gap, because the cursor never goes
back (`FirstGap`, `WrittenIs`), and the cursor has passed the buffer when its tick has passed the natural end; so
a part holds the first frame of a tick exactly when its segment runs then (`PartIs`). `PartsLaid` follows the fold over the
segments. The first part that lasts is the first segment's, which is why a voice that sounds there begins on its
tick boundary and verifies.

**The lifecycle.** `WholeInv` is an account: every hooked store and birth is on file, in a queue, being
initialized, or was lost, and then its fault is remembered, told in the audit and keeps the
receipt away. A reader's "valid" needs the receipt, which binds the whole file; its "open" needs the lines numbered
from zero, so that whatever happened to one line, what is read is a prefix. `HistoryInv` says of each loss between which frames
it fell, that the pool of the frame before it shows the zombie alive and that of the frame after it dying,
marked or gone, and conversely that a change between two frames is a loss. `BoundaryTold` is then about a fold
over the window. `Recursion` shows that a function defined by going on from the place before exists, by
taking the least place that has none; `NextBoundary` carries what is told over one boundary, and a
least boundary where it is not told closes the argument. `SoundInv` is for `NeverRefused`: while no fault was seen, the
two queues rise above what is written (`Ordered`), the running initializers are numbered as they nest
(`Nesting`), the stack that the validator will have after the written and queued exits holds those of
them it has heard of (`NestOwed`), and the records of a recycled slot are paired (`Paired`). `MergedNests`
counts through the merged queue: the probes' records in between change nothing of the fold, so it ends as over
the exits alone. `KillInv` is for `KillProven`, and speaks of captures, not of the report: losses are captured
in their order (`LossesCaptured`), a captured blow has its explanation (`BlowsExplained`; `Doomed` is a zombie that the
hooks found dying), the pool shows which zombies were hit (`Unhit`, `Struck`), and a blow
in a call has the version of the frame before it, the last with that version (`LossesTimed`). The report's facts are then a fold
over the written events, which are in order already (`RisingInOrder`): a claim is a kill because its zombie
was neither dying before it nor `Doomed` (`ClaimIsKill`), in the window because its version is
(`LossInside`), and the first because an earlier loss would be a death or a doubt with a lower
sequence (`LossDoubts`).

**Only model-checked.** The invariants of `ReplaySession`: its operators are folds over sequences (decoding
an audit of records, with a state that skips and resumes) and would need an invariant of their own at every
place. The library's induction theorems take an operator as a parameter that the provers cannot
instantiate, so each such fold needs an argument by a least counterexample like those of `BoundaryTold`,
`FirstKillReal` and `TrackHeard`. `AbandonedEnds`, `ClientsAnswered`, `StopJoins`, `PendingEnds`,
`RunEnds`, `SuiteEnds` and `ObserverCloses`: liveness under fairness, and `ENABLED`, are outside of the prover's
reach. The two findings are runs that must fail. No module declares a `RECURSIVE` operator.

## 6. Not modelled, and why

* Game memory, pixels, sound samples and native injection: inputs or I/O. The frame cache keeps one
  frame beside them.
* The encoding of frames, JSON, hashes of trees, report texts: formats, which the tests check; they
  enter the models as equality of contents.
* AvZ's state hooks, hosted scripts, the menu frame's nested hook, the retired clock anchors: outside
  of what the production backend uses.
* The header checks that refuse a malformed journal: each is one comparison.
* `action_compare`, `b0_coverage`, `root_integrity`, `suspend_probes`, the pairwise comparison of two
  audits: sequential functions of finished files, without state that a step could find stale.
* Command-line tools, examples, vendored code.

In the controller, two events are assumed away because the code cannot notice them: a new fight in
the same Board address with a later clock, and a clock moved forward outside an update.

## 7. Plan

Done: journal and deduplication with their abstract store; adoption; controller; pipe server; branch and cold
workers; evaluation; window observer; replay; audio; lifecycle. Theorems for every safety property of all but
replay.

Left, in this order:

1. Theorems by a least counterexample, as for `BoundaryTold`: `EvidenceIntact`, `ReplayHonest` and
   `NoFalseAlarm`, each with an invariant for every place of its fold.
2. The composition of journal and controller, for a request whose audit fails while a journal error
   is handled, and the adoption of both files.
3. `capture_frame` with its RAM-only responses across `branch_rebind`.
