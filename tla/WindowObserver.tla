--------------------------- MODULE WindowObserver ---------------------------
(***************************************************************************)
(* The window observer (window_observer.py): a LaunchWindowMonitor in the  *)
(* evaluation's process and its worker process, which samples who owns the *)
(* foreground and which windows of the bound game are visible, until the   *)
(* monitor signals the stop event.  The two share write-once documents     *)
(* (control, target), the worker's ready, samples and seal, and a lock.    *)
(* The verdict is given from the samples alone.                            *)
(*                                                                         *)
(* The samples are kept as what the verdict folds over them, and every time *)
(* stamp as its age in ticks.  A sample is taken at one moment between its *)
(* two time stamps.                                                        *)
(***************************************************************************)
EXTENDS Integers, FiniteSets

CONSTANTS
    MaxGap,       \* max_gap_seconds
    ScanEvery,    \* scan_interval_seconds
    MaxActs,      \* bound: changes of the game's windows and of the foreground
    MaxFailures   \* bound: failures of the observer

ASSUME ObserverAssumption ==
    MaxGap \in Nat \ {0} /\ ScanEvery \in Nat \ {0} /\ MaxActs \in Nat /\ MaxFailures \in Nat

VARIABLES
    parent,     \* the monitor: phase, runtime, started, stopped, healthy, verdict
    worker,     \* its process: phase, stop and age of the sample, read, held handles, ticks to the next scan
    files,      \* what is in the evidence directory, and the stop event
    taken,      \* the samples so far
    game,       \* the game: running, foreground, its windows by handle
    exposed,    \* ghost: the current and the longest stretch of foreground and of each visible window
    failures    \* ghost: failures so far

observerVars == <<parent, worker, files, taken, game, exposed, failures>>

Handles == {1, 2}

NoSamples == [n |-> 0, since |-> 0, after |-> FALSE, gap |-> FALSE, bad |-> FALSE,
              front |-> FALSE, shown |-> FALSE, target |-> FALSE, hidden |-> FALSE]

ObserverInit ==
    /\ \E runtime \in BOOLEAN :
          /\ parent = [phase |-> "new", runtime |-> runtime, started |-> FALSE, stopped |-> FALSE,
                       healthy |-> TRUE, verdict |-> "none"]
          /\ game = [runs |-> runtime, front |-> FALSE, acts |-> 0,
                     win |-> [h \in Handles |-> IF runtime /\ h = 1 THEN "hidden" ELSE "none"]]
    /\ worker = [phase |-> "none", stopping |-> FALSE, age |-> 0, target |-> FALSE,
                 held |-> {}, scan |-> 0, errors |-> FALSE,
                 front |-> FALSE, shown |-> FALSE, hidden |-> FALSE]
    /\ files = [control |-> FALSE, target |-> FALSE, ready |-> "none", lock |-> FALSE, stop |-> FALSE,
                seal |-> "none", whole |-> TRUE]
    /\ taken = NoSamples
    /\ exposed = [front |-> 0, shown |-> [h \in Handles |-> 0], long |-> FALSE, ever |-> FALSE]
    /\ failures = 0

Fails == failures < MaxFailures /\ failures' = failures + 1
Fine == UNCHANGED failures
Older(age, cap) == IF age < cap THEN age + 1 ELSE cap

----------------------------------------------------------------------------
(* The game and the clock (external). *)

InScope == parent.phase = "open"
LongFront == 2 * MaxGap + 1
LongShown == ScanEvery + 2 * MaxGap + 1
Tick ==
    /\ LET front == IF InScope /\ game.front THEN Older(exposed.front, LongFront) ELSE 0
           shown == [h \in Handles |-> IF InScope /\ files.target /\ game.win[h] = "visible"
                                       THEN Older(exposed.shown[h], LongShown) ELSE 0]
       IN exposed' = [exposed EXCEPT !.front = front, !.shown = shown,
                          !.long = @ \/ front = LongFront \/ \E h \in Handles : shown[h] = LongShown]
    /\ worker' = [worker EXCEPT !.age = IF worker.phase \in {"read", "write"} THEN Older(@, MaxGap + 1) ELSE 0,
                                !.scan = IF @ > 0 THEN @ - 1 ELSE 0]
    /\ taken' = [taken EXCEPT !.since = IF taken.n > 0 THEN Older(@, 2 * MaxGap + 2) ELSE 0]
    /\ UNCHANGED <<parent, files, game, failures>>

Seen(g) == g.front \/ \E h \in Handles : g.win[h] = "visible"
GameDoes(g) ==
    /\ game' = g
    /\ exposed' = [exposed EXCEPT !.ever = @ \/ Seen(g),
                                  !.front = IF g.front THEN @ ELSE 0,
                                  !.shown = [h \in Handles |-> IF g.win[h] = "visible" THEN @[h] ELSE 0]]
    /\ UNCHANGED <<parent, worker, files, taken, failures>>

(* The caller launches it inside the context; its windows come, change and  *)
(* go.  Another process may be given a handle that the game gave up, and    *)
(* shows a window of its own under it ("foreign", which is visible).        *)
Launch == ~game.runs /\ parent.phase = "open" /\ ~parent.stopped /\ ~files.target
          /\ GameDoes([game EXCEPT !.runs = TRUE, !.win[1] = "hidden"])
Window(h, from, to) == /\ game.runs /\ game.win[h] = from /\ game.acts < MaxActs
                       /\ GameDoes([game EXCEPT !.win[h] = to, !.acts = @ + 1])
Changes == {<<"none", "hidden">>, <<"none", "visible">>, <<"hidden", "visible">>, <<"visible", "hidden">>,
            <<"hidden", "none">>, <<"visible", "none">>, <<"none", "foreign">>, <<"foreign", "none">>}
GameActs ==
    \/ game.runs /\ game.acts < MaxActs /\ GameDoes([game EXCEPT !.front = ~@, !.acts = @ + 1])
    \/ \E h \in Handles, c \in Changes : Window(h, c[1], c[2])
GameDies == /\ game.runs /\ game.acts < MaxActs
            /\ GameDoes([game EXCEPT !.runs = FALSE, !.front = FALSE, !.acts = @ + 1,
                                     !.win = [h \in Handles |-> "none"]])

----------------------------------------------------------------------------
(* LaunchWindowMonitor *)

(* _publish_once, _read_published_document, StopChannel, stop_requested: a  *)
(* document is absent or complete, once; reading one may fail for good.     *)
Publish(docs) == [doc \in DOMAIN files |-> IF doc \in docs THEN TRUE ELSE files[doc]]
Published(doc) == files[doc]
SetEvent == files' = [files EXCEPT !.stop = TRUE]
StopRequested == files.stop

ParentStep == UNCHANGED <<taken, game, exposed>>

(* _start: the directory is claimed, the stop event made and control.json   *)
(* published; a pid known by now is bound; then the worker is started.      *)
Start ==
    /\ parent.phase = "new"
    /\ files' = Publish({"lock", "control"} \cup IF parent.runtime THEN {"target"} ELSE {})
    /\ parent' = [parent EXCEPT !.phase = "starting"]
    /\ worker' = [worker EXCEPT !.phase = "begin"]
    /\ ParentStep /\ Fine

(* It must be ready with a good first sample before the caller goes on.     *)
Ready ==
    /\ parent.phase = "starting" /\ files.ready = "good"
    /\ parent' = [parent EXCEPT !.phase = "open", !.started = TRUE]
    /\ UNCHANGED <<worker, files>> /\ ParentStep /\ Fine

(* bind_pid, of a process that is alive. *)
BindPid ==
    /\ parent.phase = "open" /\ ~Published("target") /\ game.runs
    /\ files' = Publish({"target"})
    /\ UNCHANGED <<parent, worker>> /\ ParentStep /\ Fine

(* __exit__: the caller leaves, or the start-up failed (the worker exited,  *)
(* its first sample failed, it was not ready in time): the stop time, then  *)
(* the signal.                                                              *)
Exit ==
    /\ \/ parent.phase = "open"
       \/ parent.phase = "starting" /\ (worker.phase = "exited" \/ files.ready = "bad")
    /\ parent' = [parent EXCEPT !.phase = "signal", !.stopped = TRUE,
                                !.healthy = @ /\ parent.phase = "open"]
    /\ exposed' = [exposed EXCEPT !.front = 0, !.shown = [h \in Handles |-> 0]]
    /\ UNCHANGED <<worker, files, taken, game>> /\ Fine
StartTimesOut ==
    /\ parent.phase = "starting" /\ Fails
    /\ parent' = [parent EXCEPT !.phase = "signal", !.stopped = TRUE, !.healthy = FALSE]
    /\ UNCHANGED <<worker, files>> /\ ParentStep

Signal ==
    /\ parent.phase = "signal"
    /\ \/ SetEvent /\ parent' = [parent EXCEPT !.phase = "join"] /\ Fine
       \/ UNCHANGED files /\ parent' = [parent EXCEPT !.phase = "join", !.healthy = FALSE] /\ Fails
    /\ UNCHANGED worker /\ ParentStep

(* The worker exits in time, or is terminated, which may not help.          *)
Joined == worker.phase = "exited"
WaitsForever == FALSE
Overdue == ~Joined
Join ==
    /\ parent.phase = "join"
    /\ \/ /\ Joined
          /\ parent' = [parent EXCEPT !.phase = "closed",
                                      !.healthy = @ /\ files.seal = "requested_stop" /\ ~worker.errors]
          /\ UNCHANGED worker
       \/ /\ Overdue
          /\ \E p \in {worker.phase, "exited"} : worker' = [worker EXCEPT !.phase = p]
          /\ parent' = [parent EXCEPT !.phase = "closed", !.healthy = FALSE]
    /\ UNCHANGED files /\ ParentStep /\ Fine

(* Only a dead worker's lock is removed. *)
Unlock ==
    /\ parent.phase = "closed"
    /\ parent' = [parent EXCEPT !.phase = "result"]
    /\ files' = [files EXCEPT !.lock = @ /\ worker.phase # "exited"]
    /\ UNCHANGED worker /\ ParentStep /\ Fine

(* _load: the seal must be of a requested stop without errors, over exactly *)
(* the samples on disk and the target that was bound, and these must cover  *)
(* the time between started and stopped without a failed or slow probe.     *)
(* (The first one does: the observer was ready after it.)                   *)
Loaded ==
    /\ files.seal = "requested_stop" /\ ~worker.errors /\ files.whole
    /\ worker.target = files.target
    /\ parent.started /\ taken.after
    /\ ~taken.bad /\ taken.target

(* launch_window_evidence: a sampled sight of the game is proof of failure  *)
(* even when samples are missing; a pass needs complete samples.            *)
Complete == parent.healthy /\ Loaded /\ files.target /\ taken.n >= 2 /\ ~taken.gap
Status ==
    IF files.target /\ (taken.front \/ taken.shown) THEN "fail"
    ELSE IF Complete /\ taken.hidden THEN "pass" ELSE "unverified"
Result ==
    /\ parent.phase = "result"
    /\ parent' = [parent EXCEPT !.phase = "done", !.verdict = Status]
    /\ UNCHANGED <<worker, files>> /\ ParentStep /\ Fine

Monitor == Start \/ Ready \/ BindPid \/ Exit \/ StartTimesOut \/ Signal \/ Join \/ Unlock \/ Result

----------------------------------------------------------------------------
(* _worker *)

WorkerStep == UNCHANGED <<parent, game, exposed>>
Stops(reason) == worker' = [worker EXCEPT !.phase = "seal"] /\ files' = [files EXCEPT !.seal = reason]

(* A failure of the loop itself is sealed with its component. *)
Breaks == /\ Fails
          /\ worker' = [worker EXCEPT !.phase = "seal", !.errors = TRUE]
          /\ files' = [files EXCEPT !.seal = "worker_error"]

(* The control document, the stop event and the identities. *)
Begin ==
    /\ worker.phase = "begin"
    /\ \/ Published("control") /\ worker' = [worker EXCEPT !.phase = "top"] /\ UNCHANGED files /\ Fine
       \/ Breaks
    /\ UNCHANGED taken /\ WorkerStep

(* The top of the loop: the target may have been published by now; a target *)
(* that exited ends the sampling; the stop event is looked at before the    *)
(* sample is taken, so that one whole sample follows it.                    *)
LoopTop ==
    /\ worker.phase = "top"
    /\ \/ Published("target") /\ ~game.runs /\ Stops("target_exited") /\ Fine
       \/ /\ ~(Published("target") /\ ~game.runs)
          /\ worker' = [worker EXCEPT !.phase = "read", !.target = Published("target"),
                                      !.stopping = StopRequested, !.age = 0]
          /\ UNCHANGED files /\ Fine
       \/ ~worker.target /\ Breaks
    /\ UNCHANGED taken /\ WorkerStep

(* WindowTracker.sample: a scan of all windows when none is held, when one  *)
(* is due, or when stopping; a held handle stays while it is alive and its  *)
(* owner is the game; losing the last one scans again in the same sample.   *)
Owned == {h \in Handles : game.win[h] \in {"hidden", "visible"}}
Existing == {h \in Handles : game.win[h] # "none"}
KeptAlive(held) == held \cap Existing
Kept(held) == held \cap Existing \cap Owned
ScanDue == worker.stopping \/ worker.held = {} \/ worker.scan = 0
AllLost == Kept(worker.held) = {}
Held == IF ScanDue \/ AllLost THEN Owned ELSE Kept(worker.held)
Visible(h) == game.win[h] \in {"visible", "foreign"}
Sighted == worker.target /\ \E h \in Held : Visible(h)

(* window_probe, and a probe that fails. *)
Probe ==
    /\ worker.phase = "read"
    /\ \/ /\ worker' = [worker EXCEPT !.phase = "write", !.front = game.front, !.shown = Sighted,
                                      !.hidden = worker.target /\ Held # {} /\ ~Sighted,
                                      !.held = IF worker.target THEN Held ELSE {},
                                      !.scan = IF worker.target /\ (ScanDue \/ AllLost) THEN ScanEvery ELSE @]
          /\ Fine
       \/ /\ worker' = [worker EXCEPT !.phase = "write", !.front = FALSE, !.shown = FALSE,
                                      !.hidden = FALSE, !.errors = TRUE]
          /\ Fails
    /\ UNCHANGED <<files, taken>> /\ WorkerStep

(* The sample is written; the first one makes the observer ready.           *)
WriteSample ==
    /\ worker.phase = "write"
    /\ taken' = [n |-> IF taken.n < 2 THEN taken.n + 1 ELSE 2,
                 since |-> worker.age, after |-> parent.stopped,
                 gap |-> taken.gap \/ (taken.n > 0 /\ taken.since - worker.age > MaxGap),
                 bad |-> taken.bad \/ worker.errors \/ worker.age > MaxGap,
                 front |-> taken.front \/ worker.front, shown |-> taken.shown \/ worker.shown,
                 target |-> worker.target, hidden |-> worker.hidden]
    /\ IF worker.stopping THEN Stops("requested_stop")
       ELSE /\ worker' = [worker EXCEPT !.phase = "top", !.age = 0,
                                        !.front = FALSE, !.shown = FALSE, !.hidden = FALSE]
            /\ files' = [files EXCEPT !.ready = IF @ # "none" THEN @ ELSE IF worker.errors THEN "bad" ELSE "good"]
    /\ WorkerStep /\ Fine

(* The seal is on disk, the lock is gone, the process exits. *)
SealSamples ==
    /\ worker.phase = "seal"
    /\ worker' = [worker EXCEPT !.phase = "exited"]
    /\ files' = [files EXCEPT !.lock = FALSE]
    /\ UNCHANGED taken /\ WorkerStep /\ Fine

Sampler == Begin \/ LoopTop \/ Probe \/ WriteSample \/ SealSamples

(* The worker dies without a seal; a sample on disk is damaged (external).  *)
WorkerDies ==
    /\ worker.phase \notin {"none", "exited"} /\ Fails
    /\ worker' = [worker EXCEPT !.phase = "exited"] /\ files' = [files EXCEPT !.seal = "none"]
    /\ UNCHANGED taken /\ WorkerStep
Damage ==
    /\ files.whole /\ taken.n > 0 /\ parent.phase \in {"closed", "result"} /\ Fails
    /\ files' = [files EXCEPT !.whole = FALSE]
    /\ \E kept \in BOOLEAN : taken' = [taken EXCEPT !.front = @ /\ kept, !.shown = @ /\ kept]
    /\ UNCHANGED worker /\ WorkerStep

ObserverNext == Tick \/ Launch \/ GameActs \/ GameDies \/ Monitor \/ Sampler \/ WorkerDies \/ Damage

(* The monitor goes on; the worker is not owed progress, and neither is the *)
(* caller inside the context.                                               *)
Monitoring == Start \/ Ready \/ StartTimesOut \/ Signal \/ Join \/ Unlock \/ Result
ObserverSpec == ObserverInit /\ [][ObserverNext]_observerVars /\ WF_observerVars(Monitoring)

----------------------------------------------------------------------------
(* Every variable has its type, and only a dead worker loses its lock.      *)
ObserverType ==
    /\ failures \in 0..MaxFailures
    /\ parent.phase \in {"new", "starting", "open", "signal", "join", "closed", "result", "done"}
    /\ parent.verdict \in {"none", "pass", "fail", "unverified"}
    /\ worker.phase \in {"none", "begin", "top", "read", "write", "seal", "exited"}
    /\ worker.held \subseteq Handles
    /\ parent.phase # "new" /\ ~files.lock => worker.phase = "exited"

(* What the verdict is worth.  A pass: between started and stopped the game *)
(* was never in the foreground for longer than the longest stretch that two *)
(* samples can leave out, and, from its binding on, no window of it was     *)
(* visible for longer than that and a scan.  A fail: it really was seen,    *)
(* and no other process's window was taken for it.                          *)
VerdictHonest ==
    /\ ObserverType
    /\ parent.verdict = "pass" => ~exposed.long
    /\ parent.verdict = "fail" => exposed.ever

(* Leaving the context always comes to a verdict, whatever the worker does. *)
ObserverCloses == parent.phase = "signal" ~> parent.phase = "done"
=============================================================================
