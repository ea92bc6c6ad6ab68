--------------------------- MODULE PipeServerProofs ---------------------------
(***************************************************************************)
(* Proofs about PipeServer: its types, and that every retry of an ID, on   *)
(* whatever connection, is told the same answer.                           *)
(***************************************************************************)
EXTENDS PipeServer, SequenceTheorems, TLAPS

TicketType == [id : Ids, gone : BOOLEAN, answer : Replies]
WorkerType == [at : {"free", "reading", "waiting", "leaving"}, link : BOOLEAN,
               frame : Ids \cup {None}, ticket : Nat]
DrainType == [at : {"away", "gone", "take", "check", "request"}, list : Seq(Ids),
              count : 0 .. Batch, ticket : Nat]
CtlType == [pending : Ids \cup {None}, waiters : SUBSET DOMAIN tickets, kept : [Ids -> Replies]]

(* A worker in a wait, and the drain with a ticket at hand, name tickets   *)
(* that were made.                                                         *)
TicketsNamed ==
    /\ \A w \in Conns : worker[w].at \in {"waiting", "leaving"} => worker[w].ticket \in DOMAIN tickets
    /\ drain.at \in {"check", "request"} => drain.ticket \in DOMAIN tickets

(* What the game thread answered is what the controller keeps; a request   *)
(* that is still executing has no answer, and only its own tickets wait.   *)
AnswersKept ==
    /\ \A t \in DOMAIN tickets : tickets[t].answer \notin {None, "queue_full"} =>
           ctl.kept[tickets[t].id] = tickets[t].answer
    /\ \A t \in ctl.waiters : tickets[t].id = ctl.pending
    /\ ctl.pending # None => ctl.kept[ctl.pending] = None

Inv == TypeOK /\ TicketsNamed /\ AnswersKept

-----------------------------------------------------------------------------
(* Lemmas about the operators of the model.                                *)

(* What an update of one place of a function does.                         *)
LEMMA Updated ==
    ASSUME NEW D, NEW W, NEW f \in [D -> W], NEW d \in D, NEW r \in W,
           NEW g, g = [f EXCEPT ![d] = r]
    PROVE  g \in [D -> W] /\ g[d] = r /\ \A e \in D \ {d} : g[e] = f[e]
  OBVIOUS

(* Every ticket made is a ticket.                                          *)
LEMMA TicketFields ==
    ASSUME TypeOK
    PROVE  /\ tickets \in Seq(TicketType) /\ Len(tickets) \in Nat
           /\ DOMAIN tickets = 1 .. Len(tickets)
           /\ \A t \in DOMAIN tickets : tickets[t] \in TicketType
<1>1. tickets \in Seq(TicketType)
  BY DEF TypeOK, TicketType
<1> QED
  BY <1>1, LenProperties

(* A reply changes the answers of its tickets and nothing else of them.    *)
LEMMA ReplyAnswers ==
    ASSUME TypeOK, NEW ts, NEW answer \in Replies, Reply(ts, answer)
    PROVE  /\ tickets' \in Seq(TicketType)
           /\ DOMAIN tickets' = DOMAIN tickets
           /\ \A t \in DOMAIN tickets :
                 /\ tickets'[t].id = tickets[t].id
                 /\ tickets'[t].answer = IF t \in ts THEN answer ELSE tickets[t].answer
<1>1. tickets \in Seq(TicketType) /\ Len(tickets) \in Nat
  BY TicketFields
<1>2. DOMAIN tickets = 1 .. Len(tickets)
  BY TicketFields
<1>3. \A t \in DOMAIN tickets :
          tickets'[t] = IF t \in ts THEN [tickets[t] EXCEPT !.answer = answer] ELSE tickets[t]
  BY DEF Reply
<1>4. \A t \in DOMAIN tickets : tickets[t] \in TicketType
  BY TicketFields
<1>5. \A t \in DOMAIN tickets : tickets'[t] \in TicketType
  BY <1>3, <1>4 DEF TicketType
<1>6. tickets' \in [1 .. Len(tickets) -> TicketType]
  BY <1>2, <1>5 DEF Reply
<1>7. tickets' \in Seq(TicketType)
  BY <1>1, <1>6
<1>8. DOMAIN tickets' = DOMAIN tickets
  BY DEF Reply
<1>9. \A t \in DOMAIN tickets :
          /\ tickets'[t].id = tickets[t].id
          /\ tickets'[t].answer = IF t \in ts THEN answer ELSE tickets[t].answer
  BY <1>3, <1>4 DEF TicketType
<1> QED
  BY <1>7, <1>8, <1>9

(* Ending the pending request keeps its answer and those of the others.    *)
LEMMA FinishedKeeps ==
    ASSUME Inv, NEW reason \in Replies
    PROVE  /\ Finished(reason) \in CtlType
           /\ Finished(reason).pending = None /\ Finished(reason).waiters = {}
           /\ \A id \in Ids : Finished(reason).kept[id] = IF id = ctl.pending THEN reason ELSE ctl.kept[id]
<1>1. ctl \in CtlType
  BY DEF Inv, TypeOK, CtlType
<1>2. CASE ctl.pending = None
  <2>1. ctl.waiters = {}
    <3>1. \A t \in ctl.waiters : tickets[t].id \in Ids /\ tickets[t].id = None
      BY <1>2, <1>1, TicketFields DEF Inv, AnswersKept, TicketType, CtlType
    <3> QED
      BY <3>1, NoneAssumption
  <2> QED
    BY <1>1, <1>2, <2>1, NoneAssumption DEF Finished, CtlType
<1>3. CASE ctl.pending # None
  BY <1>1, <1>3 DEF Finished, CtlType
<1> QED
  BY <1>2, <1>3

-----------------------------------------------------------------------------
(* The inductive invariant                                                 *)

(* Nothing is asked yet.                                                   *)
LEMMA InitInv == Init => Inv
<1> SUFFICES ASSUME Init PROVE Inv
  OBVIOUS
<1>1. TypeOK
  BY ServerAssumption DEF Init, TypeOK, Free, Away, Replies
<1>2. TicketsNamed
  BY DEF Init, TicketsNamed, Free, Away
<1>3. AnswersKept
  BY DEF Init, AnswersKept
<1> QED
  BY <1>1, <1>2, <1>3 DEF Inv

(* A step that leaves the tickets, the controller and what is drained      *)
(* alone: a client or its worker moves.                                    *)
LEMMA WorkerSteps ==
    ASSUME Inv, NEW w \in Conns,
           Connect(w) \/ Leave(w) \/ (\E id \in Ids : Send(w, id)) \/ TransferFails(w) \/ PushGone(w)
             \/ StopWaiting(w) \/ Deliver(w)
    PROVE  Inv'
<1>1. UNCHANGED <<tickets, queue, drain, ctl, stop>>
  BY DEF Connect, Leave, Send, TransferFails, PushGone, StopWaiting, Deliver
<1>2. /\ worker' \in [Conns -> WorkerType]
      /\ \A v \in Conns : worker'[v].at \in {"waiting", "leaving"} =>
             worker[v].at \in {"waiting", "leaving"} /\ worker'[v].ticket = worker[v].ticket
  <2>1. worker \in [Conns -> WorkerType] /\ w \in Conns
    BY DEF Inv, TypeOK, WorkerType
  <2>2. CASE Connect(w)
    BY <2>1, <2>2 DEF Connect, Free, WorkerType
  <2>3. CASE Leave(w)
    BY <2>1, <2>3 DEF Leave, WorkerType
  <2>4. CASE \E id \in Ids : Send(w, id)
    BY <2>1, <2>4 DEF Send, WorkerType
  <2>5. CASE TransferFails(w) \/ PushGone(w) \/ StopWaiting(w)
    <3>1. worker' = [worker EXCEPT ![w] = [at |-> "free", link |-> FALSE, frame |-> None, ticket |-> 0]]
      BY <2>5 DEF TransferFails, PushGone, StopWaiting, Free
    <3> QED
      BY <2>1, <3>1 DEF WorkerType
  <2>6. CASE Deliver(w)
    BY <2>1, <2>6 DEF Deliver, WorkerType
  <2> QED
    BY <2>2, <2>3, <2>4, <2>5, <2>6
<1>3. gone' \in Seq(Ids)
  <2>1. CASE PushGone(w)
    <3>1. worker[w].ticket \in DOMAIN tickets
      BY <2>1 DEF PushGone, Inv, TicketsNamed
    <3>2. tickets[worker[w].ticket].id \in Ids
      BY <3>1, TicketFields DEF Inv, TicketType
    <3> QED
      BY <2>1, <3>2 DEF PushGone, Inv, TypeOK
  <2>2. CASE ~PushGone(w)
    BY <2>2 DEF Connect, Leave, Send, TransferFails, StopWaiting, Deliver, Inv, TypeOK
  <2> QED
    BY <2>1, <2>2
<1>4. TypeOK'
  BY <1>1, <1>2, <1>3 DEF Inv, TypeOK, WorkerType
<1>5. TicketsNamed' /\ AnswersKept'
  BY <1>1, <1>2 DEF Inv, TicketsNamed, AnswersKept
<1> QED
  BY <1>4, <1>5 DEF Inv

(* A step of the game thread keeps the types and the names.                *)
LEMMA GameTypes ==
    ASSUME Inv, UNCHANGED worker,
           tickets' \in Seq(TicketType), DOMAIN tickets' = DOMAIN tickets,
           queue' \in Seq(DOMAIN tickets), gone' \in Seq(Ids), ctl' \in CtlType,
           drain' \in DrainType, stop' \in {"up", "stopping", "down"},
           drain'.at \in {"check", "request"} => drain'.ticket \in DOMAIN tickets
    PROVE  TypeOK' /\ TicketsNamed'
<1>1. TypeOK'
  BY DEF Inv, TypeOK, TicketType, DrainType, CtlType
<1>2. TicketsNamed'
  BY DEF Inv, TicketsNamed
<1> QED
  BY <1>1, <1>2

(* The state before a step of the game thread.                             *)
LEMMA GameBefore ==
    ASSUME Inv
    PROVE  /\ queue \in Seq(DOMAIN tickets) /\ gone \in Seq(Ids) /\ ctl \in CtlType
           /\ drain \in DrainType /\ stop \in {"up", "stopping", "down"}
           /\ drain.at \in {"check", "request"} => drain.ticket \in DOMAIN tickets
  BY DEF Inv, TypeOK, CtlType, DrainType, TicketsNamed

(* The pending request is ended and its waiters, with one more ticket at   *)
(* most whose ID is kept with the same answer, are told.                   *)
LEMMA EndedAnswers ==
    ASSUME Inv, NEW reason \in Replies \ {None}, NEW ts \in SUBSET DOMAIN tickets,
           ctl.waiters \subseteq ts, Reply(ts, reason), ctl' \in CtlType, ctl'.pending = None,
           ctl'.waiters = {},
           \A t \in ts : ctl'.kept[tickets[t].id] = reason,
           \A t \in DOMAIN tickets : ctl.kept[tickets[t].id] # None =>
               ctl'.kept[tickets[t].id] \in {ctl.kept[tickets[t].id]}
    PROVE  AnswersKept'
<1>1. /\ DOMAIN tickets' = DOMAIN tickets
      /\ \A t \in DOMAIN tickets :
            /\ tickets'[t].id = tickets[t].id
            /\ tickets'[t].answer = IF t \in ts THEN reason ELSE tickets[t].answer
  BY ReplyAnswers DEF Inv
<1>2. ASSUME NEW t \in DOMAIN tickets', tickets'[t].answer \notin {None, "queue_full"}
      PROVE  ctl'.kept[tickets'[t].id] = tickets'[t].answer
  <2>1. CASE t \in ts
    BY <1>1, <2>1
  <2>2. CASE t \notin ts
    BY <1>1, <1>2, <2>2 DEF Inv, AnswersKept
  <2> QED
    BY <2>1, <2>2
<1> QED
  BY <1>2 DEF AnswersKept

(* A new ticket is unanswered, or was never queued.                        *)
LEMMA ReceiveStep == ASSUME Inv, NEW w \in Conns, Receive(w) PROVE Inv'
<1> DEFINE new == [id |-> worker[w].frame, gone |-> FALSE,
                   answer |-> IF Len(queue) >= QueueLimit THEN "queue_full" ELSE None]
           n == Len(tickets) + 1
<1>1. worker[w].frame \in Ids /\ UNCHANGED <<gone, drain, ctl, stop>> /\ tickets' = Append(tickets, new)
  BY DEF Receive, Inv, TypeOK
<1>2. new \in TicketType
  BY <1>1 DEF TicketType, Replies
<1> HIDE DEF new
<1>3. tickets \in Seq(TicketType) /\ Len(tickets) \in Nat /\ DOMAIN tickets = 1 .. Len(tickets)
  BY TicketFields DEF Inv
<1>4. /\ tickets' \in Seq(TicketType) /\ Len(tickets') = n /\ DOMAIN tickets' = 1 .. n
      /\ DOMAIN tickets \subseteq DOMAIN tickets' /\ n \in DOMAIN tickets'
      /\ \A t \in DOMAIN tickets' : t = n \/ t \in DOMAIN tickets
      /\ \A t \in DOMAIN tickets : tickets'[t] = tickets[t]
      /\ tickets'[n] = new
  BY <1>1, <1>2, <1>3, AppendProperties
<1>5. queue' \in Seq(DOMAIN tickets')
  <2>1. queue \in Seq(DOMAIN tickets')
    BY <1>4, SeqMonotonic DEF Inv, TypeOK
  <2>2. queue' = queue \/ queue' = Append(queue, n)
    BY <1>4 DEF Receive
  <2> QED
    BY <1>4, <2>1, <2>2, AppendProperties
<1>6. worker' = [worker EXCEPT ![w].at = "waiting", ![w].frame = None, ![w].ticket = n]
  BY <1>4 DEF Receive
<1>7. /\ worker' \in [Conns -> WorkerType]
      /\ \A v \in Conns : worker'[v].at \in {"waiting", "leaving"} =>
             \/ worker'[v].ticket = n
             \/ worker[v].at \in {"waiting", "leaving"} /\ worker'[v].ticket = worker[v].ticket
  <2>1. worker \in [Conns -> WorkerType]
    BY DEF Inv, TypeOK, WorkerType
  <2>2. n \in Nat
    BY <1>3
  <2> HIDE DEF n
  <2>3. worker' \in [Conns -> WorkerType]
    BY <1>6, <2>1, <2>2 DEF WorkerType
  <2>4. \A v \in Conns : v # w => worker'[v] = worker[v]
    BY <1>6, <2>1 DEF WorkerType
  <2>5. worker'[w].ticket = n
    BY <1>6, <2>1 DEF WorkerType
  <2> QED
    BY <2>3, <2>4, <2>5
<1>8. TypeOK'
  BY <1>1, <1>4, <1>5, <1>7 DEF Inv, TypeOK, TicketType, WorkerType
<1>9. TicketsNamed'
  BY <1>1, <1>4, <1>7 DEF Inv, TicketsNamed
<1>10. AnswersKept'
  <2>1. tickets'[n].answer \in {None, "queue_full"}
    BY <1>4 DEF new
  <2>2. ctl.waiters \subseteq DOMAIN tickets
    BY DEF Inv, TypeOK
  <2> QED
    BY <1>1, <1>4, <2>1, <2>2 DEF Inv, AnswersKept
<1> QED
  BY <1>8, <1>9, <1>10 DEF Inv

(* A client leaves its wait.                                               *)
LEMMA MarkGoneStep == ASSUME Inv, NEW w \in Conns, MarkGone(w) PROVE Inv'
<1> DEFINE k == worker[w].ticket
<1>1. k \in DOMAIN tickets /\ UNCHANGED <<queue, gone, drain, ctl, stop>>
  BY DEF MarkGone, Waiting, Inv, TicketsNamed
<1>2. tickets' = [tickets EXCEPT ![k].gone = TRUE]
  BY DEF MarkGone
<1>3. /\ tickets \in Seq(TicketType) /\ Len(tickets) \in Nat /\ DOMAIN tickets = 1 .. Len(tickets)
      /\ \A t \in DOMAIN tickets : tickets[t] \in TicketType
  BY TicketFields DEF Inv
<1> HIDE DEF k
<1>4. [tickets[k] EXCEPT !.gone = TRUE] \in TicketType
  BY <1>1, <1>3 DEF TicketType
<1>5. tickets' \in Seq(TicketType) /\ DOMAIN tickets' = DOMAIN tickets
  BY <1>1, <1>2, <1>3, <1>4, ExceptSeq
<1>6. \A t \in DOMAIN tickets : tickets'[t].id = tickets[t].id /\ tickets'[t].answer = tickets[t].answer
  BY <1>2, <1>3 DEF TicketType
<1>7. /\ worker' \in [Conns -> [at : {"free", "reading", "waiting", "leaving"},
                                link : BOOLEAN, frame : Ids \cup {None}, ticket : Nat]]
      /\ \A v \in Conns : worker'[v].ticket = worker[v].ticket
      /\ \A v \in Conns : worker'[v].at \in {"waiting", "leaving"} =>
             worker[v].at \in {"waiting", "leaving"}
  BY DEF MarkGone, Waiting, Inv, TypeOK
<1>8. TypeOK'
  BY <1>1, <1>5, <1>7 DEF Inv, TypeOK, TicketType
<1>9. TicketsNamed'
  BY <1>1, <1>5, <1>7 DEF Inv, TicketsNamed
<1>10. AnswersKept'
  BY <1>1, <1>5, <1>6 DEF Inv, AnswersKept, TypeOK
<1> QED
  BY <1>8, <1>9, <1>10 DEF Inv

(* The pending request ends, in the engine or because the server stops.    *)
LEMMA EndStep ==
    ASSUME Inv, NEW reason \in Replies \ {None}, UNCHANGED <<worker, queue, gone>>,
           drain' \in DrainType, drain'.at \notin {"check", "request"},
           stop' \in {"up", "stopping", "down"},
           ctl' = Finished(reason), Reply(ctl.waiters, reason)
    PROVE  Inv'
<1>1. /\ ctl' \in CtlType /\ ctl'.pending = None /\ ctl'.waiters = {}
      /\ \A id \in Ids : ctl'.kept[id] = IF id = ctl.pending THEN reason ELSE ctl.kept[id]
  BY FinishedKeeps
<1>2. ctl.waiters \subseteq DOMAIN tickets
  BY GameBefore DEF CtlType
<1>3. \A t \in DOMAIN tickets : tickets[t].id \in Ids
  BY TicketFields DEF Inv, TicketType
<1>4. tickets' \in Seq(TicketType) /\ DOMAIN tickets' = DOMAIN tickets
  BY ReplyAnswers DEF Inv
<1>5. TypeOK' /\ TicketsNamed'
  BY <1>1, <1>4, GameTypes, GameBefore
<1>6. \A t \in ctl.waiters : ctl'.kept[tickets[t].id] = reason
  BY <1>1, <1>2, <1>3 DEF Inv, AnswersKept
<1>7. \A t \in DOMAIN tickets : ctl.kept[tickets[t].id] # None =>
          ctl'.kept[tickets[t].id] \in {ctl.kept[tickets[t].id]}
  BY <1>1, <1>3, NoneAssumption DEF Inv, AnswersKept
<1>8. AnswersKept'
  BY <1>1, <1>2, <1>6, <1>7, EndedAnswers
<1> QED
  BY <1>5, <1>8 DEF Inv

(* A step of Drain that answers nobody.                                    *)
LEMMA QuietStep ==
    ASSUME Inv, UNCHANGED <<worker, tickets, ctl>>,
           queue' \in Seq(DOMAIN tickets), gone' \in Seq(Ids),
           drain' \in DrainType, stop' \in {"up", "stopping", "down"},
           drain'.at \in {"check", "request"} => drain'.ticket \in DOMAIN tickets
    PROVE  Inv'
<1>1. tickets \in Seq(TicketType) /\ ctl \in CtlType
  BY TicketFields, GameBefore DEF Inv
<1>2. TypeOK' /\ TicketsNamed'
  BY <1>1, GameTypes
<1>3. AnswersKept'
  BY DEF Inv, AnswersKept
<1> QED
  BY <1>2, <1>3 DEF Inv

(* Disconnects are taken up, tickets are taken and looked at.              *)
LEMMA DrainSteps == ASSUME Inv, Begin \/ Disconnect \/ Take \/ Check PROVE Inv'
<1>1. CASE Begin
  <2>1. drain' = [at |-> "gone", list |-> gone, count |-> 0, ticket |-> 0]
    BY <1>1 DEF Begin, Away
  <2>2. 0 \in 0 .. Batch /\ gone \in Seq(Ids)
    BY GameBefore, ServerAssumption
  <2>3. drain' \in DrainType /\ drain'.at = "gone"
    BY <2>1, <2>2 DEF DrainType
  <2> QED
    BY <1>1, <2>3, GameBefore, QuietStep DEF Begin
<1>2. CASE Disconnect
  <2>1. drain' \in DrainType /\ drain'.at = "gone"
    BY <1>2, GameBefore, HeadTailProperties DEF Disconnect, DrainType
  <2>2. UNCHANGED <<worker, queue, gone, stop>>
    BY <1>2 DEF Disconnect
  <2>3. CASE UNCHANGED <<ctl, tickets>>
    BY <2>1, <2>2, <2>3, GameBefore, QuietStep
  <2>4. CASE ctl' = Finished("client_disconnected") /\ Reply(ctl.waiters, "client_disconnected")
    BY <2>1, <2>2, <2>4, GameBefore, EndStep DEF Replies, None
  <2> QED
    BY <1>2, <2>3, <2>4 DEF Disconnect
<1>3. CASE Take
  <2>1. UNCHANGED <<worker, tickets, gone, ctl, stop>>
    BY <1>3 DEF Take
  <2>2. CASE drain' = Away /\ UNCHANGED queue
    <3>1. drain' \in DrainType /\ drain'.at = "away"
      BY <2>2, ServerAssumption DEF Away, DrainType
    <3> QED
      BY <2>1, <2>2, <3>1, GameBefore, QuietStep
  <2>3. CASE /\ queue # <<>> /\ drain.count # Batch
             /\ drain' = [drain EXCEPT !.at = "check", !.ticket = Head(queue), !.count = @ + 1]
             /\ queue' = Tail(queue)
    <3>1. Head(queue) \in DOMAIN tickets /\ queue' \in Seq(DOMAIN tickets)
      BY <2>3, GameBefore, HeadTailProperties
    <3>2. Head(queue) \in Nat
      BY <3>1, TicketFields DEF Inv
    <3>3. drain.count + 1 \in 0 .. Batch
      BY <2>3, GameBefore, ServerAssumption DEF DrainType
    <3>4. drain' \in DrainType /\ drain'.ticket = Head(queue)
      BY <2>3, <3>2, <3>3, GameBefore DEF DrainType
    <3> QED
      BY <2>1, <3>1, <3>4, GameBefore, QuietStep
  <2> QED
    BY <1>3, <2>2, <2>3 DEF Take
<1>4. CASE Check
  <2>1. drain' \in DrainType /\ (drain'.at \in {"check", "request"} => drain'.ticket = drain.ticket)
    BY <1>4, GameBefore DEF Check, DrainType
  <2> QED
    BY <1>4, <2>1, GameBefore, QuietStep DEF Check
<1> QED
  BY <1>1, <1>2, <1>3, <1>4

(* The request at hand is answered or waits; the drain goes on.            *)
LEMMA RequestStep ==
    ASSUME Inv, NEW id \in Ids, Handed(id), Return
    PROVE  /\ drain.ticket \in DOMAIN tickets /\ tickets[drain.ticket].id = id
           /\ UNCHANGED <<worker, queue, gone, stop>>
           /\ drain' \in DrainType /\ drain'.at = "take"
  BY GameBefore DEF Handed, Return, DrainType

(* A retry is told what is kept, or waits with the request it repeats.     *)
LEMMA RetryStep == ASSUME Inv, NEW id \in Ids, Retry(id) PROVE Inv'
<1>1. Handed(id) /\ Return
  BY DEF Retry
<1>2. /\ drain.ticket \in DOMAIN tickets /\ tickets[drain.ticket].id = id
      /\ UNCHANGED <<worker, queue, gone, stop>> /\ drain' \in DrainType /\ drain'.at = "take"
  BY <1>1, RequestStep
<1>3. CASE ctl.kept[id] # None /\ Reply({drain.ticket}, ctl.kept[id]) /\ UNCHANGED ctl
  <2> DEFINE answer == ctl.kept[id]
  <2>1. answer \in Replies
    BY GameBefore DEF CtlType
  <2>2. /\ tickets' \in Seq(TicketType) /\ DOMAIN tickets' = DOMAIN tickets
        /\ \A t \in DOMAIN tickets :
              /\ tickets'[t].id = tickets[t].id
              /\ tickets'[t].answer = IF t \in {drain.ticket} THEN answer ELSE tickets[t].answer
    BY <1>3, <2>1, ReplyAnswers DEF Inv
  <2>3. TypeOK' /\ TicketsNamed'
    BY <1>2, <1>3, <2>2, GameTypes, GameBefore
  <2>4. ASSUME NEW t \in DOMAIN tickets', tickets'[t].answer \notin {None, "queue_full"}
        PROVE  ctl'.kept[tickets'[t].id] = tickets'[t].answer
    <3>1. CASE t = drain.ticket
      BY <1>2, <1>3, <2>2, <3>1
    <3>2. CASE t # drain.ticket
      BY <1>3, <2>2, <2>4, <3>2 DEF Inv, AnswersKept
    <3> QED
      BY <3>1, <3>2
  <2>5. \A t \in ctl'.waiters : tickets'[t].id = ctl'.pending
    BY <1>3, <2>2, GameBefore DEF Inv, AnswersKept, CtlType
  <2>6. ctl'.pending # None => ctl'.kept[ctl'.pending] = None
    BY <1>3 DEF Inv, AnswersKept
  <2> QED
    BY <2>3, <2>4, <2>5, <2>6 DEF Inv, AnswersKept
<1>4. CASE /\ ctl.pending = id /\ ctl' = [ctl EXCEPT !.waiters = @ \cup {drain.ticket}]
           /\ UNCHANGED tickets
  <2>1. tickets \in Seq(TicketType)
    BY TicketFields DEF Inv
  <2>2. ctl' \in CtlType /\ ctl'.pending = id /\ ctl'.waiters = ctl.waiters \cup {drain.ticket} /\ ctl'.kept = ctl.kept
    BY <1>2, <1>4, GameBefore DEF CtlType
  <2>3. TypeOK' /\ TicketsNamed'
    BY <1>2, <1>4, <2>1, <2>2, GameTypes, GameBefore
  <2> QED
    BY <1>2, <1>4, <2>2, <2>3 DEF Inv, AnswersKept
<1> QED
  BY <1>3, <1>4 DEF Retry

(* A new advancement is pending, or rejected for good.                     *)
LEMMA MutationStep == ASSUME Inv, NEW id \in Ids, Mutation(id) PROVE Inv'
<1>1. Handed(id) /\ Return /\ ctl.kept[id] = None /\ ctl.pending # id
  BY DEF Mutation, New
<1>2. /\ drain.ticket \in DOMAIN tickets /\ tickets[drain.ticket].id = id
      /\ UNCHANGED <<worker, queue, gone, stop>> /\ drain' \in DrainType /\ drain'.at = "take"
  BY <1>1, RequestStep
<1>3. CASE /\ ctl.pending = None /\ ctl' = [ctl EXCEPT !.pending = id, !.waiters = {drain.ticket}]
           /\ UNCHANGED tickets
  <2>1. tickets \in Seq(TicketType)
    BY TicketFields DEF Inv
  <2>2. ctl' \in CtlType /\ ctl'.pending = id /\ ctl'.waiters = {drain.ticket} /\ ctl'.kept = ctl.kept
    BY <1>2, <1>3, GameBefore DEF CtlType
  <2>3. TypeOK' /\ TicketsNamed'
    BY <1>2, <1>3, <2>1, <2>2, GameTypes, GameBefore
  <2> QED
    BY <1>1, <1>2, <1>3, <2>2, <2>3 DEF Inv, AnswersKept
<1>4. CASE Keep(ctl, id, "rejected") /\ Reply({drain.ticket}, "rejected")
  <2>1. "rejected" \in Replies
    BY DEF Replies
  <2>2. /\ tickets' \in Seq(TicketType) /\ DOMAIN tickets' = DOMAIN tickets
        /\ \A t \in DOMAIN tickets :
              /\ tickets'[t].id = tickets[t].id
              /\ tickets'[t].answer = IF t \in {drain.ticket} THEN "rejected" ELSE tickets[t].answer
    BY <1>4, <2>1, ReplyAnswers DEF Inv
  <2>3. /\ ctl' \in CtlType /\ ctl'.pending = ctl.pending /\ ctl'.waiters = ctl.waiters
        /\ ctl'.kept[id] = "rejected" /\ \A i \in Ids : i # id => ctl'.kept[i] = ctl.kept[i]
    BY <1>4, <2>1, GameBefore DEF CtlType, Keep
  <2>4. TypeOK' /\ TicketsNamed'
    BY <1>2, <2>2, <2>3, GameTypes, GameBefore
  <2>5. \A t \in DOMAIN tickets : tickets[t].id \in Ids
    BY TicketFields DEF Inv, TicketType
  <2>6. ASSUME NEW t \in DOMAIN tickets', tickets'[t].answer \notin {None, "queue_full"}
        PROVE  ctl'.kept[tickets'[t].id] = tickets'[t].answer
    <3>1. CASE t = drain.ticket
      BY <1>2, <2>2, <2>3, <3>1
    <3>2. CASE t # drain.ticket
      <4>1. ctl.kept[tickets[t].id] = tickets[t].answer /\ tickets[t].answer # None
        BY <2>2, <2>6, <3>2 DEF Inv, AnswersKept
      <4> QED
        BY <1>1, <2>2, <2>3, <2>5, <3>2, <4>1
    <3> QED
      BY <3>1, <3>2
  <2>7. \A t \in ctl'.waiters : tickets'[t].id = ctl'.pending
    BY <2>2, <2>3, GameBefore DEF Inv, AnswersKept, CtlType
  <2>8. ctl'.pending # None => ctl'.kept[ctl'.pending] = None
    BY <1>1, <2>3, GameBefore DEF Inv, AnswersKept, CtlType
  <2> QED
    BY <2>4, <2>6, <2>7, <2>8 DEF Inv, AnswersKept
<1> QED
  BY <1>3, <1>4 DEF Mutation

(* A pause ends the pending request with its own answer.                   *)
LEMMA PauseStep == ASSUME Inv, NEW id \in Ids, Pause(id) PROVE Inv'
<1> DEFINE ts == ctl.waiters \cup {drain.ticket}
<1>1. /\ Handed(id) /\ Return /\ ctl.kept[id] = None /\ ctl.pending # id
      /\ ctl' = [Finished("paused") EXCEPT !.kept[id] = "paused"] /\ Reply(ts, "paused")
  BY DEF Pause, New, Keep
<1>2. /\ drain.ticket \in DOMAIN tickets /\ tickets[drain.ticket].id = id
      /\ UNCHANGED <<worker, queue, gone, stop>> /\ drain' \in DrainType /\ drain'.at = "take"
  BY <1>1, RequestStep
<1>3. "paused" \in Replies \ {None}
  BY DEF Replies, None
<1>4. /\ Finished("paused") \in CtlType
      /\ Finished("paused").pending = None /\ Finished("paused").waiters = {}
      /\ \A i \in Ids : Finished("paused").kept[i] = IF i = ctl.pending THEN "paused" ELSE ctl.kept[i]
  BY <1>3, FinishedKeeps
<1>5. /\ ctl' \in CtlType /\ ctl'.pending = None /\ ctl'.waiters = {}
      /\ \A i \in Ids : ctl'.kept[i] = IF i \in {ctl.pending, id} THEN "paused" ELSE ctl.kept[i]
  BY <1>1, <1>3, <1>4 DEF CtlType
<1>6. ctl.waiters \subseteq DOMAIN tickets /\ ts \in SUBSET DOMAIN tickets
  BY <1>2, GameBefore DEF CtlType
<1>7. \A t \in DOMAIN tickets : tickets[t].id \in Ids
  BY TicketFields DEF Inv, TicketType
<1>8. \A t \in ts : ctl'.kept[tickets[t].id] = "paused"
  BY <1>2, <1>5, <1>6, <1>7 DEF Inv, AnswersKept
<1>9. \A t \in DOMAIN tickets : ctl.kept[tickets[t].id] # None =>
          ctl'.kept[tickets[t].id] \in {ctl.kept[tickets[t].id]}
  BY <1>1, <1>5, <1>7, NoneAssumption DEF Inv, AnswersKept
<1>10. AnswersKept'
  BY <1>1, <1>3, <1>5, <1>6, <1>8, <1>9, EndedAnswers
<1>11. tickets' \in Seq(TicketType) /\ DOMAIN tickets' = DOMAIN tickets
  BY <1>1, <1>3, ReplyAnswers DEF Inv
<1>12. TypeOK' /\ TicketsNamed'
  BY <1>2, <1>5, <1>11, GameTypes, GameBefore
<1> QED
  BY <1>10, <1>12 DEF Inv

(* The engine ends the request, the server stops and joins its workers.    *)
LEMMA EndSteps == ASSUME Inv, Ends \/ Stop \/ Join PROVE Inv'
<1>1. CASE Ends
  <2>1. "done" \in Replies \ {None}
    BY DEF Replies, None
  <2> QED
    BY <1>1, <2>1, GameBefore, EndStep DEF Ends
<1>2. CASE Stop
  <2>1. "runtime_shutdown" \in Replies \ {None}
    BY DEF Replies, None
  <2> QED
    BY <1>2, <2>1, GameBefore, EndStep DEF Stop
<1>3. CASE Join
  <2>1. queue' \in Seq(DOMAIN tickets) /\ gone' \in Seq(Ids)
    BY <1>3 DEF Join
  <2> QED
    BY <1>3, <2>1, GameBefore, QuietStep DEF Join
<1> QED
  BY <1>1, <1>2, <1>3

(* Every step keeps the invariant.                                         *)
LEMMA NextInv == Inv /\ [Next]_vars => Inv'
<1> SUFFICES ASSUME Inv, [Next]_vars PROVE Inv'
  OBVIOUS
<1>1. ASSUME NEW w \in Conns,
             Connect(w) \/ Leave(w) \/ (\E id \in Ids : Send(w, id)) \/ TransferFails(w)
               \/ PushGone(w) \/ StopWaiting(w) \/ Deliver(w)
      PROVE  Inv'
  BY <1>1, WorkerSteps
<1>2. ASSUME NEW w \in Conns, Receive(w) \/ MarkGone(w) PROVE Inv'
  BY <1>2, ReceiveStep, MarkGoneStep
<1>3. ASSUME NEW id \in Ids, Retry(id) \/ Mutation(id) \/ Pause(id) PROVE Inv'
  BY <1>3, RetryStep, MutationStep, PauseStep
<1>4. CASE Begin \/ Disconnect \/ Take \/ Check
  BY <1>4, DrainSteps
<1>5. CASE Ends \/ Stop \/ Join
  BY <1>5, EndSteps
<1>6. CASE UNCHANGED vars
  BY <1>6 DEF vars, Inv, TypeOK, TicketsNamed, AnswersKept
<1> QED
  BY <1>1, <1>2, <1>3, <1>4, <1>5, <1>6 DEF Next, Serve, Drain, Requests

(* Whatever the order of disconnects, retries, replies and shutdown, and   *)
(* however many clients there are, whoever asks for an ID is told the one  *)
(* answer that is kept for it.                                             *)
THEOREM AnsweredAlike == Spec => []SameAnswer
<1>1. Inv => SameAnswer
  BY DEF Inv, SameAnswer, AnswersKept
<1> QED
  BY <1>1, InitInv, NextInv, PTL DEF Spec

=============================================================================
