---------------------------- MODULE LiveSession ----------------------------
(***************************************************************************)
(* One live session of an evaluation (evaluation.py): live_session creates *)
(* the run, launches the game through launcher.start, hands over to its    *)
(* body and cleans up in a fixed order in which no failure stops the rest; *)
(* _retain_session and finalize_run then compress, package and seal what   *)
(* the session left and say whether it passed.  The body is the source run *)
(* (SourcePlay) or a replay, of which only its end is modelled here.       *)
(***************************************************************************)
EXTENDS SourcePlay, EvidenceCodec

CONSTANTS
    MaxFaults     \* bound: failures of a session

ASSUME FaultAssumption == MaxFaults \in Nat

VARIABLES
    role,       \* "source" or "cold"
    game,       \* the process, and its recorder with capture.lock
    launch,     \* launcher.start: pid known, native receipt on disk, start returned
    at,         \* where live_session or finalize_run is
    has,        \* what live_session has open or built
    locks,      \* *.lock files in the run
    cleanup,    \* the cleanup dictionary: its True keys
    errors,     \* its _error keys
    windows,    \* the verdicts of the two window observers
    primary,    \* an exception left the body or the set-up
    ended,      \* source_completed, or a replay that was equal
    disk,       \* receipts in the run: cleanup, host identity, sealed manifest
    item,       \* the retained item
    mishaps,    \* ghost: what went wrong
    faults      \* ghost: how often

sessionVars == <<role, game, launch, at, has, locks, cleanup, errors, windows, primary, ended,
                 disk, item, mishaps, faults>>
vars == <<playVars, codec, sessionVars>>

Closings == {"recording_closed", "client_closed", "trace_closed", "owned_process_stopped"}
NoItem == [sealed |-> FALSE, trajectory |-> FALSE, passed |-> FALSE, secondary |-> {}, failures |-> {}]

Init ==
    /\ PlayInit /\ CodecInit
    /\ role \in {"source", "cold"}
    /\ game = [proc |-> "none", rec |-> "none"]
    /\ launch = [pid |-> FALSE, receipt |-> FALSE, ready |-> FALSE]
    /\ at = "disk"
    /\ has = {} /\ locks = {} /\ cleanup = {} /\ errors = {}
    /\ windows = [launch |-> "unverified", runtime |-> "unverified"]
    /\ primary = FALSE /\ ended = FALSE
    /\ disk = {} /\ item = NoItem
    /\ mishaps = {} /\ faults = 0

----------------------------------------------------------------------------
(* Set-up: every stage succeeds or raises into the finally block. *)

Goes(there) == at' = there
Fault(stage) == faults < MaxFaults /\ faults' = faults + 1 /\ mishaps' = mishaps \cup {stage}
Well == UNCHANGED <<mishaps, faults>>
Has(x) == has' = has \cup {x}
Outside == UNCHANGED <<playVars, codec, role, item>>
RestOfSession == UNCHANGED <<ended, disk, cleanup, item, role, codec>>

(* An exception: the finally block (nothing there yet before the run). *)
Raises(stage, finals) == Fault(stage) /\ primary' = TRUE /\ Goes(finals)

(* A stage that keeps nothing but its place and one thing it built. *)
Stage(here, thing, there) ==
    /\ at = here
    /\ \/ Has(thing) /\ Goes(there) /\ Well /\ UNCHANGED primary
       \/ Raises(here, IF "run" \in has THEN "final" ELSE "retain") /\ UNCHANGED has
    /\ UNCHANGED <<game, launch, locks, errors, windows, playVars>>
    /\ RestOfSession

DiskCheck == Stage("disk", "space", "create")
CreateRun == Stage("create", "run", "trace")

(* SessionTrace takes its lock, and gives it back if it cannot start. *)
OpenTrace ==
    /\ at = "trace"
    /\ \/ Has("trace") /\ locks' = locks \cup {"trace"} /\ Goes("hosts") /\ Well /\ UNCHANGED primary
       \/ Raises("trace", "final") /\ UNCHANGED <<has, locks>>
    /\ UNCHANGED <<game, launch, errors, windows, playVars>> /\ RestOfSession

(* host_sources must match the run's implementation archive. *)
HostSources ==
    /\ at = "hosts"
    /\ \/ Has("hosts") /\ Goes("observe") /\ Well /\ UNCHANGED primary
       \/ Has("hosts") /\ Raises("hosts", "final")
       \/ Raises("hosts", "final") /\ UNCHANGED has
    /\ UNCHANGED <<game, launch, locks, errors, windows, playVars>> /\ RestOfSession

(* LaunchWindowMonitor.__enter__; when it fails it has tried to close itself. *)
EnterObserver ==
    /\ at = "observe"
    /\ \/ locks' = locks \cup {"observer"} /\ Goes("prepare") /\ Well /\ UNCHANGED primary
       \/ /\ Fault("observer") /\ primary' = TRUE /\ Goes("windows")
          /\ \E l \in {locks, locks \cup {"observer"}} : locks' = l
    /\ UNCHANGED <<game, launch, has, errors, windows, playVars>> /\ RestOfSession

----------------------------------------------------------------------------
(* launcher.start *)

Launching(stage) ==
    /\ at = stage
    /\ UNCHANGED <<has, locks, errors, windows, primary, playVars>>
    /\ RestOfSession

(* prepare: nothing was started when it fails. *)
Prepare ==
    /\ at = "prepare"
    /\ \/ Goes("launch") /\ Well /\ UNCHANGED primary
       \/ Fault("prepare") /\ primary' = TRUE /\ Goes("leave")
    /\ UNCHANGED <<game, launch, has, locks, errors, windows, playVars>> /\ RestOfSession

(* The helper creates the game suspended, and writes its receipt before it *)
(* resumes it; with a good answer the state knows the pid.  A helper that  *)
(* fails terminates what it created.  One that takes too long is killed    *)
(* and terminates nothing: then the receipt names the game, or, when it    *)
(* was not yet written (or is torn), nothing does.                         *)
NativeLaunch ==
    /\ Launching("launch")
    /\ \/ /\ game' = [proc |-> "running", rec |-> "none"]
          /\ launch' = [launch EXCEPT !.pid = TRUE, !.receipt = TRUE]
          /\ \/ Goes("inject") /\ Well
             \/ Goes("failed") /\ Fault("launch")
       \/ /\ \E p \in {"running", "dead"} : game' = [proc |-> p, rec |-> "none"]
          /\ launch' = [launch EXCEPT !.receipt = TRUE]
          /\ Goes("failed") /\ Fault("launch")
       \/ /\ \E p \in {"none", "dead"} : game' = [proc |-> p, rec |-> "none"]
          /\ UNCHANGED launch /\ Goes("failed") /\ Fault("launch")
       \/ /\ game' = [proc |-> "running", rec |-> "none"]
          /\ UNCHANGED launch /\ Goes("failed") /\ Fault("helper")

(* The injected runtime opens its recorder, takes capture.lock and answers *)
(* hello; then it is asked to initialize the scene.                        *)
Initialize ==
    /\ Launching("inject")
    /\ \/ game' = [game EXCEPT !.rec = "open"] /\ Goes("verify") /\ Well
       \/ \E r \in {"none", "open"} : game' = [game EXCEPT !.rec = r] /\ Goes("failed") /\ Fault("launch")
    /\ UNCHANGED launch

(* verify_branch_scope, verify_audio_activation and verify_scenario: the   *)
(* game declares the branch, the audio mode and the scene the run asked    *)
(* for, or it is not used.                                                 *)
VerifyLaunch ==
    /\ Launching("verify")
    /\ \/ launch' = [launch EXCEPT !.ready = TRUE] /\ Goes("bind") /\ Well
       \/ UNCHANGED launch /\ Goes("failed") /\ Fault("launch")
    /\ UNCHANGED game

(* start's handler: the pid is recovered from the receipt, which may be    *)
(* unreadable; a process it knows is stopped, whatever could not be saved, *)
(* and one it does not know is left.                                       *)
RecoveredNever == launch.pid
Recovered == launch.pid \/ launch.receipt

StartFailed ==
    /\ at = "failed"
    /\ \/ Recovered /\ game' = [game EXCEPT !.proc = "dead"] /\ Well
       \/ ~Recovered /\ UNCHANGED game /\ Well
       \/ /\ Recovered /\ Fault("stop")
          /\ \E p \in {game.proc, "dead"} : game' = [game EXCEPT !.proc = p]
       \/ ~launch.pid /\ launch.receipt /\ UNCHANGED game /\ Fault("receipt")
    /\ primary' = TRUE /\ Goes("leave")
    /\ UNCHANGED <<launch, has, locks, errors, windows, playVars>> /\ RestOfSession

(* monitor.bind_pid, in the context. *)
BindPid ==
    /\ at = "bind"
    /\ Has("state")
    /\ \/ Goes("leave") /\ Well /\ UNCHANGED primary
       \/ Fault("observer") /\ primary' = TRUE /\ Goes("leave")
    /\ UNCHANGED <<game, launch, locks, errors, windows, playVars>> /\ RestOfSession

(* The observer is asked to stop, and terminated when it does not; only a  *)
(* dead one loses its lock.  It raises nothing: the verdict says so.       *)
LeaveObserver(verdict) ==
    \/ /\ locks' = locks \ {"observer"}
       /\ windows' = [windows EXCEPT ![verdict] = IF "state" \in has THEN "pass" ELSE "unverified"]
       /\ Well
    \/ /\ \E v \in {"fail", "unverified"} : windows' = [windows EXCEPT ![verdict] = v]
       /\ \E l \in {locks, locks \ {"observer"}} : locks' = l
       /\ Fault("windows")

LeaveLaunch ==
    /\ at = "leave"
    /\ LeaveObserver("launch") /\ Goes("windows")
    /\ UNCHANGED <<game, launch, has, errors, primary, playVars>> /\ RestOfSession

(* retain: a failure is noted and the block goes on. *)
Retain(stage) ==
    \/ UNCHANGED errors /\ Well
    \/ errors' = errors \cup {stage} /\ Fault(stage)

KeepWindows ==
    /\ at = "windows"
    /\ Retain("launch_window")
    /\ Goes(IF primary THEN "final" ELSE "runtime")
    /\ UNCHANGED <<game, launch, has, locks, windows, primary, playVars>> /\ RestOfSession

EnterRuntime ==
    /\ at = "runtime"
    /\ Has("runtime")
    /\ \/ locks' = locks \cup {"observer"} /\ Goes("connect") /\ Well /\ UNCHANGED primary
       \/ Raises("observer", "final") /\ \E l \in {locks, locks \cup {"observer"}} : locks' = l
    /\ UNCHANGED <<game, launch, errors, windows, playVars>> /\ RestOfSession

Connect == Stage("connect", "client", "body")

----------------------------------------------------------------------------
(* The body: the source run with its preparation before and its receipts   *)
(* after, or a replay that is equal or raises.  The game may die under it. *)

PlayBody ==
    /\ at = "body" /\ role = "source" /\ ~PlayOver
    /\ PlayStep
    /\ game.proc = "dead" => /\ pauses'.completed = pauses.completed
                             /\ sent' # sent => play'.phase = "raised" /\ pauses' = pauses
    /\ UNCHANGED <<codec, sessionVars>>

BodyEnds ==
    /\ at = "body"
    /\ \/ /\ IF role = "cold" THEN game.proc = "running" ELSE play.phase = "done"
          /\ ended' = TRUE /\ Well /\ UNCHANGED primary
       \/ /\ primary' = TRUE /\ UNCHANGED ended
          /\ IF play.phase = "raised" \/ game.proc = "dead"
             THEN mishaps' = mishaps \cup {"body"} /\ UNCHANGED faults
             ELSE Fault("body") /\ (role = "source" => play.phase \in {"first", "done"})
    /\ Goes("final")
    /\ UNCHANGED <<playVars, codec, role, game, launch, has, locks, cleanup, errors, windows, disk, item>>

GameDies ==
    /\ game.proc = "running" /\ at \in {"body", "final", "close"}
    /\ game' = [game EXCEPT !.proc = "dead"]
    /\ Fault("game")
    /\ UNCHANGED <<playVars, codec, role, launch, at, has, locks, cleanup, errors, windows, primary,
                   ended, disk, item>>

----------------------------------------------------------------------------
(* The finally block. *)

Final(here, there) == at = here /\ Goes(there) /\ Outside /\ UNCHANGED <<launch, has, primary, ended>>
Closes(key) == cleanup' = cleanup \cup {key}

PrimaryWrite ==
    /\ Final("final", "close")
    /\ IF primary THEN Retain("primary_write") ELSE UNCHANGED errors /\ Well
    /\ UNCHANGED <<game, locks, cleanup, windows, disk>>

(* observe and stop_recording, which must answer closed=true. *)
CloseRecording ==
    /\ Final("close", "client")
    /\ IF "client" \notin has THEN UNCHANGED <<game, cleanup, errors>> /\ Well
       ELSE \/ /\ game.proc = "running"
               /\ game' = [game EXCEPT !.rec = "closed"]
               /\ Closes("recording_closed") /\ UNCHANGED errors /\ Well
            \/ /\ game.proc = "running"
               /\ \E r \in {game.rec, "closed"} : game' = [game EXCEPT !.rec = r]
               /\ errors' = errors \cup {"close"} /\ Fault("close") /\ UNCHANGED cleanup
            \/ /\ game.proc # "running"
               /\ errors' = errors \cup {"close"} /\ Well /\ UNCHANGED <<cleanup, game>>
    /\ UNCHANGED <<locks, windows, disk>>

CloseClient ==
    /\ Final("client", "observer")
    /\ IF "client" \notin has THEN UNCHANGED <<cleanup, errors>> /\ Well
       ELSE \/ Closes("client_closed") /\ UNCHANGED errors /\ Well
            \/ errors' = errors \cup {"client_close"} /\ Fault("client_close") /\ UNCHANGED cleanup
    /\ UNCHANGED <<game, locks, windows, disk>>

LeaveRuntime ==
    /\ Final("observer", "tracing")
    /\ IF "runtime" \notin has THEN UNCHANGED <<locks, windows, errors>> /\ Well
       ELSE \/ LeaveObserver("runtime") /\ UNCHANGED errors
            \/ errors' = errors \cup {"runtime_window"} /\ Fault("windows") /\ UNCHANGED <<locks, windows>>
    /\ UNCHANGED <<game, cleanup, disk>>

(* SessionTrace.close gives its lock back even when closing the file fails. *)
CloseTrace ==
    /\ Final("tracing", "stop")
    /\ locks' = locks \ {"trace"}
    /\ IF "trace" \notin has THEN UNCHANGED <<cleanup, errors>> /\ Well
       ELSE \/ Closes("trace_closed") /\ UNCHANGED errors /\ Well
            \/ errors' = errors \cup {"trace_close"} /\ Fault("trace_close") /\ UNCHANGED cleanup
    /\ UNCHANGED <<game, windows, disk>>

(* launcher.stop; it may fail before or after the process ended. *)
StopGame ==
    /\ Final("stop", "identity")
    /\ IF "state" \notin has THEN UNCHANGED <<game, cleanup, errors>> /\ Well
       ELSE \/ /\ game' = [game EXCEPT !.proc = "dead"]
               /\ Closes("owned_process_stopped") /\ UNCHANGED errors /\ Well
            \/ /\ \E p \in {game.proc, "dead"} : game' = [game EXCEPT !.proc = p]
               /\ errors' = errors \cup {"stop"} /\ UNCHANGED cleanup
               /\ IF game.proc = "dead" THEN Well ELSE Fault("stop")
    /\ UNCHANGED <<locks, windows, disk>>

HostIdentity ==
    /\ Final("identity", "receipt")
    /\ IF "hosts" \notin has THEN UNCHANGED <<disk, errors>> /\ Well
       ELSE \/ disk' = disk \cup {"hosts"} /\ UNCHANGED errors /\ Well
            \/ errors' = errors \cup {"host_identity"} /\ Fault("host_identity") /\ UNCHANGED disk
            \/ UNCHANGED <<disk, errors>> /\ Fault("host_changed")
    /\ UNCHANGED <<game, locks, cleanup, windows>>

CleanupWrite ==
    /\ Final("receipt", "retain")
    /\ \/ disk' = disk \cup {"cleanup"} /\ UNCHANGED errors /\ Well
       \/ errors' = errors \cup {"cleanup_write"} /\ Fault("cleanup_write") /\ UNCHANGED disk
    /\ UNCHANGED <<game, locks, cleanup, windows>>

----------------------------------------------------------------------------
(* _retain_session and finalize_run *)

(* What the cleanup receipt on disk says. *)
WritersClosed == "cleanup" \in disk /\ cleanup = Closings
CleanupPassed == WritersClosed /\ errors = {}
Package == role = "source"

Retaining(here) ==
    /\ at = here
    /\ UNCHANGED <<playVars, role, game, launch, has, locks, cleanup, errors, windows, primary, ended>>

(* A run that was never created is only noted; a missing receipt is an     *)
(* error of its own.                                                       *)
BeginRetention ==
    /\ Retaining("retain")
    /\ Goes(IF "run" \notin has THEN "done" ELSE IF WritersClosed THEN "compress" ELSE "seal")
    /\ item' = IF "run" \in has /\ "cleanup" \notin disk
               THEN [item EXCEPT !.secondary = @ \cup {"read_cleanup"}] ELSE item
    /\ Well /\ UNCHANGED <<codec, disk>>

CompressAudit ==
    /\ Retaining("compress") /\ ~Compressed
    /\ \/ Compress /\ Well
       \/ CompressFails /\ Fault("compression")
    /\ UNCHANGED <<at, disk, item>>

(* Packaging: enough space, and build_trajectory reads the closed audit.   *)
PackageRun ==
    /\ Retaining("compress") /\ Compressed
    /\ \/ Package /\ Readable /\ item' = [item EXCEPT !.trajectory = TRUE] /\ Well
       \/ Package /\ ~Readable /\ item' = [item EXCEPT !.secondary = @ \cup {"strict_packaging"}] /\ Well
       \/ /\ Package /\ Fault("packaging")
          /\ \E s \in {{}, {"strict_packaging"}} : item' = [item EXCEPT !.secondary = @ \cup s]
       \/ ~Package /\ UNCHANGED item /\ Well
    /\ Goes("seal")
    /\ UNCHANGED <<codec, disk>>

(* records.finish: no lock and no writer under way, a valid recording, and *)
(* the same files with the same bytes before and after the checksums.      *)
Finishable == WritersClosed /\ locks = {} /\ game.rec = "closed"
SealRun ==
    /\ Retaining("seal")
    /\ \/ Finishable /\ disk' = disk \cup {"sealed"} /\ item' = [item EXCEPT !.sealed = TRUE] /\ Well
       \/ ~Finishable /\ UNCHANGED disk /\ item' = [item EXCEPT !.secondary = @ \cup {"seal_archive"}] /\ Well
       \/ /\ Finishable /\ Fault("seal")
          /\ \E d \in {disk, disk \cup {"sealed"}} : disk' = d
          /\ item' = [item EXCEPT !.secondary = @ \cup {"seal_archive"}]
    /\ Goes("judge") /\ UNCHANGED codec

(* passed_recording and the infrastructure components, by what is on disk  *)
(* and what the session kept in memory.                                    *)
RuntimeFailed == errors # {}
PassedRecording ==
    /\ CleanupPassed /\ item.sealed /\ item.secondary = {} /\ (Package => item.trajectory)
    /\ ~RuntimeFailed
ResourcesKept == "client" \in has /\ (role = "source" => budget.stop = "none")
ComponentsLenient ==
    [recording |-> PassedRecording, runtime_windows |-> windows.runtime # "fail",
     private_launch |-> windows.launch = "pass", host_identity |-> "hosts" \in disk,
     resource_limits |-> ResourcesKept]
Components == [recording |-> PassedRecording, runtime_windows |-> windows.runtime = "pass",
               private_launch |-> windows.launch = "pass", host_identity |-> "hosts" \in disk,
               resource_limits |-> ResourcesKept]
Judge ==
    /\ Retaining("judge")
    /\ item' = [item EXCEPT !.failures = {k \in DOMAIN Components : ~Components[k]},
                            !.passed = ended /\ ~primary /\ (\A k \in DOMAIN Components : Components[k])
                                       /\ (Package => item.trajectory)]
    /\ Goes("done") /\ Well
    /\ UNCHANGED <<codec, disk>>

Step ==
    \/ DiskCheck \/ CreateRun \/ OpenTrace \/ HostSources \/ EnterObserver
    \/ Prepare \/ NativeLaunch \/ Initialize \/ VerifyLaunch \/ StartFailed \/ BindPid \/ LeaveLaunch \/ KeepWindows
    \/ EnterRuntime \/ Connect \/ PlayBody \/ BodyEnds
    \/ PrimaryWrite \/ CloseRecording \/ CloseClient \/ LeaveRuntime \/ CloseTrace \/ StopGame
    \/ HostIdentity \/ CleanupWrite
    \/ BeginRetention \/ CompressAudit \/ PackageRun \/ SealRun \/ Judge

Next == Step \/ GameDies

Spec == Init /\ [][Next]_vars
----------------------------------------------------------------------------
(* Every variable has its type, and a client only exists of a game whose   *)
(* launch returned, under the runtime's window observer.                   *)
SessionType ==
    /\ PlayType
    /\ codec.step \in {"idle", "packing", "receipt", "reclaiming", "done", "raised"}
    /\ codec.copies \in [Names -> SUBSET Forms]
    /\ game \in [proc : {"none", "running", "dead"}, rec : {"none", "open", "closed"}]
    /\ launch \in [pid : BOOLEAN, receipt : BOOLEAN, ready : BOOLEAN]
    /\ "client" \in has => launch.ready /\ "runtime" \in has
    /\ has \subseteq {"space", "run", "trace", "hosts", "state", "runtime", "client"}
    /\ locks \subseteq {"trace", "observer"} /\ cleanup \subseteq Closings
    /\ disk \subseteq {"hosts", "cleanup", "sealed"}
    /\ faults \in 0..MaxFaults

(* Many stages swallow their exception into a receipt and go on.  Still, a *)
(* session that passed had nothing go wrong anywhere: no stage failed, both*)
(* observers reached their verdict, no resource ran out, and the archive is*)
(* sealed.  Only a failed compression is forgiven, and of a source never   *)
(* one that leaves an audit no reader accepts.                             *)
NothingSwallowed ==
    /\ SessionType
    /\ item.passed =>
        /\ mishaps \subseteq {"compression"} /\ errors = {} /\ ~primary
        /\ cleanup = Closings /\ "sealed" \in disk
        /\ windows.launch = "pass" /\ windows.runtime = "pass"
        /\ role = "source" => Readable /\ budget.stop = "none"

(* Whatever was interrupted on the way: a run is sealed only when every    *)
(* writer into it is gone.  A session leaves its game running only when    *)
(* stopping it was tried and failed, or when nothing can name the process: *)
(* its helper was killed before the receipt (or the receipt cannot be      *)
(* read), and neither start nor the finally block looks for it.            *)
Unnamed == ~launch.pid /\ (launch.receipt => "receipt" \in mishaps)
ProcessesOwned ==
    /\ "sealed" \in disk => game = [proc |-> "dead", rec |-> "closed"] /\ locks = {}
    /\ at = "done" /\ game.proc = "running" => "stop" \in mishaps \/ Unnamed
=============================================================================
