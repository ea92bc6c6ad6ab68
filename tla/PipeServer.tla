----------------------------- MODULE PipeServer -----------------------------
(***************************************************************************)
(* The named-pipe server (runtime/pipe_server.cpp): one worker thread per  *)
(* connection queues a ticket for every request and waits for its answer,  *)
(* the game thread drains disconnects first and tickets after, and hands   *)
(* them to the controller.  Clients may leave at any time (a timed-out     *)
(* client.py transport closes its pipe) and may retry an ID elsewhere.     *)
(*                                                                         *)
(* Of the controller only the waiting matters here: the pending request,   *)
(* the tickets that wait for it, and the answers it keeps.                 *)
(***************************************************************************)
EXTENDS Naturals, Sequences, FiniteSets

CONSTANTS
    Conns,          \* worker threads that may be alive at once (8 in the code)
    Ids,            \* request IDs; one ID always has the same content
    Controls,       \* those that pause or cancel
    QueueLimit,     \* 1024 in the code
    Batch,          \* tickets taken in one Drain, 32 in the code
    MaxTickets      \* bound on the requests explored

ASSUME ServerAssumption ==
    /\ Controls \subseteq Ids
    /\ {QueueLimit, Batch, MaxTickets} \subseteq Nat \ {0}

None == "none"
ASSUME NoneAssumption == None \notin Ids

VARIABLES
    worker,     \* [Conns -> worker thread and the client's end of its pipe]
    tickets,    \* every ticket made
    queue,      \* queue_, of ticket numbers
    gone,       \* disconnects_, of request IDs
    drain,      \* where the game thread is in Drain
    ctl,        \* the controller
    stop        \* the server is "up", "stopping" or "down"

vars == <<worker, tickets, queue, gone, drain, ctl, stop>>

Free == [at |-> "free", link |-> FALSE, frame |-> None, ticket |-> 0]
Away == [at |-> "away", list |-> <<>>, count |-> 0, ticket |-> 0]

Init ==
    /\ worker = [w \in Conns |-> Free]
    /\ tickets = <<>> /\ queue = <<>> /\ gone = <<>>
    /\ drain = Away
    /\ ctl = [pending |-> None, waiters |-> {}, kept |-> [id \in Ids |-> None]]
    /\ stop = "up"

-----------------------------------------------------------------------------
(* Clients.                                                                *)

Connect(w) ==
    /\ stop = "up" /\ worker[w].at = "free"
    /\ worker' = [worker EXCEPT ![w] = [Free EXCEPT !.at = "reading", !.link = TRUE]]
    /\ UNCHANGED <<tickets, queue, gone, drain, ctl, stop>>

Send(w, id) ==
    /\ worker[w].link /\ worker[w].at = "reading" /\ worker[w].frame = None
    /\ Len(tickets) + Cardinality({v \in Conns : worker[v].frame # None}) < MaxTickets
    /\ worker' = [worker EXCEPT ![w].frame = id]
    /\ UNCHANGED <<tickets, queue, gone, drain, ctl, stop>>

Leave(w) ==
    /\ worker[w].link
    /\ worker' = [worker EXCEPT ![w].link = FALSE]
    /\ UNCHANGED <<tickets, queue, gone, drain, ctl, stop>>

-----------------------------------------------------------------------------
(* Serve, on the worker's thread.                                          *)

Waiting(w) == worker[w].at = "waiting"
Answered(w) == tickets[worker[w].ticket].answer # None

(* A whole frame is read though its client may be gone by now.             *)
Receive(w) ==
    LET full == Len(queue) >= QueueLimit
    IN /\ worker[w].at = "reading" /\ worker[w].frame # None /\ stop = "up"
       /\ tickets' = Append(tickets, [id |-> worker[w].frame, gone |-> FALSE,
                                      answer |-> IF full THEN "queue_full" ELSE None])
       /\ queue' = IF full THEN queue ELSE Append(queue, Len(tickets'))
       /\ worker' = [worker EXCEPT ![w].at = "waiting", ![w].frame = None,
                                   ![w].ticket = Len(tickets')]
       /\ UNCHANGED <<gone, drain, ctl, stop>>

(* A broken pipe or the stop event ends a transfer.                        *)
TransferFails(w) ==
    /\ \/ worker[w].at = "reading" /\ (stop # "up" \/ (worker[w].frame = None /\ ~worker[w].link))
       \/ Waiting(w) /\ Answered(w) /\ (stop # "up" \/ ~worker[w].link)
    /\ worker' = [worker EXCEPT ![w] = Free]
    /\ UNCHANGED <<tickets, queue, gone, drain, ctl, stop>>

(* Every 20 ms the waiting worker looks for its client.  It keeps the      *)
(* ticket's mutex until it has also queued the disconnect.                 *)
MarkGone(w) ==
    /\ Waiting(w) /\ ~Answered(w) /\ ~worker[w].link /\ stop = "up"
    /\ tickets' = [tickets EXCEPT ![worker[w].ticket].gone = TRUE]
    /\ worker' = [worker EXCEPT ![w].at = "leaving"]
    /\ UNCHANGED <<queue, gone, drain, ctl, stop>>

PushGone(w) ==
    /\ worker[w].at = "leaving"
    /\ gone' = Append(gone, tickets[worker[w].ticket].id)
    /\ worker' = [worker EXCEPT ![w] = Free]
    /\ UNCHANGED <<tickets, queue, drain, ctl, stop>>

(* A faulty StopWaiting: only an answer ends the wait.                     *)
StopWaitingAnswered(w) ==
    /\ Waiting(w) /\ ~Answered(w) /\ stop # "up" /\ ~worker[w].link
    /\ worker' = [worker EXCEPT ![w] = Free]
    /\ UNCHANGED <<tickets, queue, gone, drain, ctl, stop>>

StopWaiting(w) ==
    /\ Waiting(w) /\ ~Answered(w) /\ stop # "up"
    /\ worker' = [worker EXCEPT ![w] = Free]
    /\ UNCHANGED <<tickets, queue, gone, drain, ctl, stop>>

(* The answer is written; the worker reads the next frame.                 *)
Deliver(w) ==
    /\ Waiting(w) /\ Answered(w) /\ worker[w].link
    /\ worker' = [worker EXCEPT ![w].at = "reading", ![w].ticket = 0]
    /\ UNCHANGED <<tickets, queue, gone, drain, ctl, stop>>

-----------------------------------------------------------------------------
(* The controller, on the game thread.  A reply waits for its ticket's     *)
(* mutex.                                                                  *)

(* A ticket's mutex is held by its worker.                                 *)
Held(t) == \E w \in Conns : worker[w].at = "leaving" /\ worker[w].ticket = t
Reply(ts, answer) ==
    /\ \A t \in ts : ~Held(t)
    /\ tickets' = [t \in DOMAIN tickets |->
                     IF t \in ts THEN [tickets[t] EXCEPT !.answer = answer] ELSE tickets[t]]

(* A faulty Finished that does not keep the answer.                        *)
FinishedUnkept(reason) == [ctl EXCEPT !.pending = None, !.waiters = {}]

Finished(reason) ==
    IF ctl.pending = None THEN ctl
    ELSE [pending |-> None, waiters |-> {}, kept |-> [ctl.kept EXCEPT ![ctl.pending] = reason]]

(* The request ends while the engine runs: its budget, a wave, a fault.    *)
Ends ==
    /\ drain.at = "away" /\ stop = "up" /\ ctl.pending # None
    /\ ctl' = Finished("done") /\ Reply(ctl.waiters, "done")
    /\ UNCHANGED <<worker, queue, gone, drain, stop>>

-----------------------------------------------------------------------------
(* Drain.                                                                  *)

Begin ==
    /\ drain.at = "away" /\ stop = "up"
    /\ drain' = [Away EXCEPT !.at = "gone", !.list = gone] /\ gone' = <<>>
    /\ UNCHANGED <<worker, tickets, queue, ctl, stop>>

Disconnect ==
    /\ drain.at = "gone" /\ drain.list # <<>>
    /\ drain' = [drain EXCEPT !.list = Tail(@)]
    /\ IF ctl.pending = Head(drain.list)
       THEN ctl' = Finished("client_disconnected") /\ Reply(ctl.waiters, "client_disconnected")
       ELSE UNCHANGED <<ctl, tickets>>
    /\ UNCHANGED <<worker, queue, gone, stop>>

(* A faulty Take that empties the queue when its batch is full.            *)
TakeDropping ==
    /\ drain.at = "take" \/ (drain.at = "gone" /\ drain.list = <<>>)
    /\ IF queue = <<>> \/ drain.count = Batch
       THEN drain' = Away /\ queue' = <<>>
       ELSE /\ drain' = [drain EXCEPT !.at = "check", !.ticket = Head(queue), !.count = @ + 1]
            /\ queue' = Tail(queue)
    /\ UNCHANGED <<worker, tickets, gone, ctl, stop>>

Take ==
    /\ drain.at = "take" \/ (drain.at = "gone" /\ drain.list = <<>>)
    /\ IF queue = <<>> \/ drain.count = Batch
       THEN drain' = Away /\ UNCHANGED queue
       ELSE /\ drain' = [drain EXCEPT !.at = "check", !.ticket = Head(queue), !.count = @ + 1]
            /\ queue' = Tail(queue)
    /\ UNCHANGED <<worker, tickets, gone, ctl, stop>>

(* A faulty Check that hands over a ticket whose client is gone.           *)
CheckNothing ==
    /\ drain.at = "check"
    /\ drain' = [drain EXCEPT !.at = "request"]
    /\ UNCHANGED <<worker, tickets, queue, gone, ctl, stop>>

(* The client of a ticket may leave between this check and the request.    *)
Check ==
    /\ drain.at = "check"
    /\ drain' = IF tickets[drain.ticket].gone THEN [drain EXCEPT !.at = "take", !.ticket = 0]
                ELSE [drain EXCEPT !.at = "request"]
    /\ UNCHANGED <<worker, tickets, queue, gone, ctl, stop>>

Handed(id) == drain.at = "request" /\ tickets[drain.ticket].id = id
Return ==
    /\ drain' = [drain EXCEPT !.at = "take", !.ticket = 0]
    /\ UNCHANGED <<worker, queue, gone, stop>>
Keep(c, id, answer) == ctl' = [c EXCEPT !.kept[id] = answer]

(* A known ID is told its answer, or waits for the pending request.        *)
Retry(id) ==
    /\ Handed(id) /\ Return
    /\ \/ ctl.kept[id] # None /\ Reply({drain.ticket}, ctl.kept[id]) /\ UNCHANGED ctl
       \/ /\ ctl.pending = id
          /\ ctl' = [ctl EXCEPT !.waiters = @ \cup {drain.ticket}]
          /\ UNCHANGED tickets

New(id) == Handed(id) /\ ctl.kept[id] = None /\ ctl.pending # id

(* commit/advance is pending now, or it is answered at once: rejected, or  *)
(* "busy" while another one is pending.                                    *)
Mutation(id) ==
    /\ New(id) /\ id \notin Controls /\ Return
    /\ \/ /\ ctl.pending = None
          /\ ctl' = [ctl EXCEPT !.pending = id, !.waiters = {drain.ticket}]
          /\ UNCHANGED tickets
       \/ Keep(ctl, id, "rejected") /\ Reply({drain.ticket}, "rejected")

Pause(id) ==
    /\ New(id) /\ id \in Controls /\ Return
    /\ Keep(Finished("paused"), id, "paused")
    /\ Reply(ctl.waiters \cup {drain.ticket}, "paused")

-----------------------------------------------------------------------------
(* Shutdown: the game thread ends the pending request, signals the         *)
(* workers and joins them.                                                 *)

Stop ==
    /\ drain.at = "away" /\ stop = "up"
    /\ ctl' = Finished("runtime_shutdown") /\ Reply(ctl.waiters, "runtime_shutdown")
    /\ stop' = "stopping"
    /\ UNCHANGED <<worker, queue, gone, drain>>

Join ==
    /\ stop = "stopping" /\ \A w \in Conns : worker[w].at = "free"
    /\ stop' = "down" /\ queue' = <<>> /\ gone' = <<>>
    /\ UNCHANGED <<worker, tickets, drain, ctl>>

-----------------------------------------------------------------------------

Serve(w) ==
    \/ Receive(w) \/ TransferFails(w) \/ MarkGone(w) \/ PushGone(w)
    \/ StopWaiting(w) \/ Deliver(w)

Requests == \E id \in Ids : Retry(id) \/ Mutation(id) \/ Pause(id)
Drain == Begin \/ Disconnect \/ Take \/ Check \/ Requests

Next ==
    \/ \E w \in Conns : Connect(w) \/ Leave(w) \/ (\E id \in Ids : Send(w, id)) \/ Serve(w)
    \/ Drain \/ Ends \/ Stop \/ Join

(* Workers and the game's hook run on; nothing says a request's budget is  *)
(* soon used up, that clients act, or that the server is shut down.        *)
Spec == Init /\ [][Next]_vars /\ WF_vars(Drain) /\ WF_vars(Join) /\ \A w \in Conns : WF_vars(Serve(w))

-----------------------------------------------------------------------------
(* Properties                                                              *)

Replies == {None, "queue_full", "done", "rejected", "paused", "client_disconnected", "runtime_shutdown"}

(* The state has its types.                                                *)
TypeOK ==
    /\ worker \in [Conns -> [at : {"free", "reading", "waiting", "leaving"},
                             link : BOOLEAN, frame : Ids \cup {None}, ticket : Nat]]
    /\ tickets \in Seq([id : Ids, gone : BOOLEAN, answer : Replies])
    /\ queue \in Seq(DOMAIN tickets) /\ gone \in Seq(Ids)
    /\ drain \in [at : {"away", "gone", "take", "check", "request"}, list : Seq(Ids),
                  count : 0 .. Batch, ticket : Nat]
    /\ ctl \in [pending : Ids \cup {None}, waiters : SUBSET DOMAIN tickets, kept : [Ids -> Replies]]
    /\ stop \in {"up", "stopping", "down"}

(* Whoever asks for an ID, on whatever connection and however often, is    *)
(* told the same answer: the one kept for the ID.                          *)
SameAnswer ==
    /\ TypeOK
    /\ \A t, u \in {t \in DOMAIN tickets : tickets[t].answer \notin {None, "queue_full"}} :
           tickets[t].id = tickets[u].id => tickets[t].answer = tickets[u].answer

Awaited == \E w \in Conns : Waiting(w) /\ worker[w].link /\ worker[w].ticket \in ctl.waiters

(* An advancement nobody waits for any more ends ("cancellation then takes *)
(* effect at the next game-thread boundary", runtime/README.md:12), though *)
(* its client may leave between any two steps of the other threads.        *)
AbandonedEnds ==
    \A id \in Ids : (ctl.pending = id /\ ~Awaited) ~> (ctl.pending # id \/ Awaited)

(* If advancements end, a client that waits is answered or told that the   *)
(* server stops.                                                           *)
ClientsAnswered ==
    []<>(ctl.pending = None) =>
        \A w \in Conns : (Waiting(w) /\ worker[w].link) ~> (~Waiting(w) \/ ~worker[w].link)

(* Shutdown never waits forever for a worker: all are joined.              *)
StopJoins == stop = "stopping" ~> stop = "down"

=============================================================================
