---------------------------- MODULE ThreadedAdapter ----------------------------
(***************************************************************************)
(* The WebSocket adapters that run on threads.  "v1" has one IO thread     *)
(* (client/ws_adapter_threaded.py), "v2" a send and a receive thread       *)
(* (client/ws_adapter_threaded_v2.py), "v3" the same two threads over      *)
(* another library (client/ws_adapter_cycletls.py).  All of them put two   *)
(* bounded queues between the threads and the coroutines of the event      *)
(* loop, a flag _running that either side resets, and a set of conn_ids    *)
(* whose messages are no longer sent.                                      *)
(*                                                                         *)
(* A message is a pair of its connection and its number.  What the peer    *)
(* sends is numbered, too.                                                 *)
(***************************************************************************)
EXTENDS Integers, Sequences

CONSTANTS Kinds,        \* the adapters create_ws_adapter chooses from
          Conns,        \* connections that send
          SendCapacity, \* size of _send_queue (4096)
          RecvCapacity, \* size of _recv_queue (512)
          MaxMessages,  \* bound: messages of a connection
          MaxInbound    \* bound: messages of the peer

ASSUME AdapterAssumption ==
  /\ Kinds \subseteq {"v1", "v2", "v3"}
  /\ SendCapacity \in Nat \ {0} /\ RecvCapacity \in Nat \ {0}
  /\ MaxMessages \in Nat /\ MaxInbound \in Nat

Messages == Conns \X (1..MaxMessages)
Sentinel == <<>>  \* None in _send_queue
End      == 0     \* the ConnectionError in _recv_queue

VARIABLES
  kind,
  running,      \* _running
  connecting,   \* connect(): "waiting", "returned", "raised"
  dial,         \* the handshake in its thread: "dialling", "up", "failed"
  ws,           \* the library's WebSocket: "none", "open", "closed"
  link,         \* the network under it: "up", "stuck" (the peer sends but reads no
                \* more), "broken", or "silent": nothing has arrived for the read
                \* time-out, nor will
  sendQueue, recvQueue,
  waiting,      \* put() calls that wait in the executor for room in _send_queue
  sender,       \* a connection's send(): "ready", "blocked", "raised", "closed"
  number,       \* number of messages a connection has sent
  closedIds,    \* _closed_conn_ids
  sendThread,   \* "none", "top", "get", "write", "done"
  inHand,       \* the message the send thread, or the IO thread, writes
  recvThread,   \* "none", "top", "receive", "check" (v2), "put", "write" (v1),
                \* "finally", "mark", "cleanup", "done"
  received,     \* number of messages received from the peer
  recvBuffer,   \* those the thread holds: _recv_buffer in v1, the one to put else
  dropped,      \* those that found _recv_queue full
  receiver,     \* recv(): "ready", "get", "ended"
  got,          \* what recv() has returned
  closing,      \* close(): "no", "join", "done"
  wire          \* the numbers of the messages sent, per connection

connectVars == <<kind, connecting, dial>>
sendVars == <<sendQueue, waiting, sender, number, closedIds>>
recvVars == <<received, recvBuffer, dropped>>
readVars == <<receiver, got>>
vars == <<running, connectVars, ws, link, sendVars, sendThread, inHand, recvQueue,
          recvThread, recvVars, readVars, closing, wire>>

Init ==
  /\ kind \in Kinds
  /\ running = TRUE /\ connecting = "waiting" /\ dial = "dialling"
  /\ ws = "none" /\ link = "up"
  /\ sendQueue = <<>> /\ recvQueue = <<>> /\ waiting = {}
  /\ sender = [c \in Conns |-> "ready"] /\ number = [c \in Conns |-> 0] /\ closedIds = {}
  /\ sendThread = "none" /\ inHand = Sentinel /\ recvThread = "none"
  /\ received = 0 /\ recvBuffer = <<>> /\ dropped = {} /\ receiver = "ready" /\ got = <<>>
  /\ closing = "no" /\ wire = [c \in Conns |-> <<>>]

-----------------------------------------------------------------------------
\* connect(), and the thread of the handshake.

\* The threads start even when connect() has given up.
DialOk ==
  /\ dial = "dialling" /\ link = "up"
  /\ dial' = "up" /\ ws' = "open" /\ recvThread' = "top"
  /\ sendThread' = IF kind = "v1" THEN "none" ELSE "top"
  /\ UNCHANGED <<running, kind, connecting, link, sendVars, inHand, recvQueue, recvVars, readVars, closing, wire>>

DialFails ==
  /\ dial = "dialling"
  /\ dial' = "failed" /\ running' = FALSE
  /\ UNCHANGED <<kind, connecting, ws, link, sendVars, sendThread, inHand, recvQueue, recvThread,
                 recvVars, readVars, closing, wire>>

ConnectReturns ==
  /\ connecting = "waiting" /\ dial # "dialling"
  /\ connecting' = IF dial = "failed" THEN "raised" ELSE "returned"
  /\ UNCHANGED <<running, kind, dial, ws, link, sendVars, sendThread, inHand, recvQueue, recvThread,
                 recvVars, readVars, closing, wire>>

\* Mutant of ConnectTimesOut: the flag is left to the thread of the handshake.
ConnectTimesOutOnly ==
  /\ connecting = "waiting"
  /\ connecting' = "raised"
  /\ UNCHANGED <<running, kind, dial, ws, link, sendVars, sendThread, inHand, recvQueue, recvThread,
                 recvVars, readVars, closing, wire>>

\* The handshake may still end between the time-out and this step.
ConnectTimesOut ==
  /\ connecting = "waiting"
  /\ connecting' = "raised" /\ running' = FALSE
  /\ UNCHANGED <<kind, dial, ws, link, sendVars, sendThread, inHand, recvQueue, recvThread,
                 recvVars, readVars, closing, wire>>

-----------------------------------------------------------------------------
\* The coroutines.  close() joins the threads and holds up the event loop.

LoopRuns == connecting = "returned" /\ closing # "join"

SendRoom == Len(sendQueue) < SendCapacity
RecvRoom == Len(recvQueue) < RecvCapacity
NextMessage(c) == <<c, number[c] + 1>>

\* Mutant of Send: the put in the executor is not awaited.
SendAndForget(c) ==
  /\ LoopRuns /\ sender[c] = "ready" /\ number[c] < MaxMessages /\ running
  /\ number' = [number EXCEPT ![c] = @ + 1]
  /\ IF SendRoom
     THEN sendQueue' = Append(sendQueue, NextMessage(c)) /\ UNCHANGED waiting
     ELSE waiting' = waiting \cup {NextMessage(c)} /\ UNCHANGED sendQueue
  /\ UNCHANGED <<running, connectVars, ws, link, sender, closedIds, sendThread, inHand, recvQueue,
                 recvThread, recvVars, readVars, closing, wire>>

\* A send() for a closed connection returns at once and is no step of the model.
Send(c) ==
  /\ LoopRuns /\ sender[c] = "ready" /\ number[c] < MaxMessages
  /\ \/ /\ ~running
        /\ sender' = [sender EXCEPT ![c] = "raised"]
        /\ UNCHANGED <<sendQueue, waiting, number>>
     \/ /\ running
        /\ number' = [number EXCEPT ![c] = @ + 1]
        /\ IF SendRoom
           THEN sendQueue' = Append(sendQueue, NextMessage(c)) /\ UNCHANGED <<waiting, sender>>
           ELSE /\ waiting' = waiting \cup {NextMessage(c)}
                /\ sender' = [sender EXCEPT ![c] = "blocked"]
                /\ UNCHANGED sendQueue
  /\ UNCHANGED <<running, connectVars, ws, link, closedIds, sendThread, inHand, recvQueue, recvThread,
                 recvVars, readVars, closing, wire>>

\* A thread of the executor gets room for its put(), whether or not the coroutine
\* that asked for it is still there.
PutGoesThrough(m) ==
  /\ m \in waiting /\ SendRoom
  /\ waiting' = waiting \ {m} /\ sendQueue' = Append(sendQueue, m)
  /\ sender' = IF sender[m[1]] = "blocked" THEN [sender EXCEPT ![m[1]] = "ready"] ELSE sender
  /\ UNCHANGED <<running, connectVars, ws, link, number, closedIds, sendThread, inHand, recvQueue,
                 recvThread, recvVars, readVars, closing, wire>>

\* mark_connection_closed; the connection has cancelled its send().
MarkConnectionClosed(c) ==
  /\ LoopRuns /\ sender[c] \in {"ready", "blocked"}
  /\ closedIds' = closedIds \cup {c} /\ sender' = [sender EXCEPT ![c] = "closed"]
  /\ UNCHANGED <<running, connectVars, ws, link, sendQueue, waiting, number, sendThread, inHand, recvQueue,
                 recvThread, recvVars, readVars, closing, wire>>

\* Mutant of RecvStarts: recv() waits for a message in any case.
RecvStartsUnchecked ==
  /\ LoopRuns /\ receiver = "ready"
  /\ receiver' = "get"
  /\ UNCHANGED <<running, connectVars, ws, link, sendVars, sendThread, inHand, recvQueue, recvThread,
                 recvVars, got, closing, wire>>

RecvStarts ==
  /\ LoopRuns /\ receiver = "ready"
  /\ receiver' = IF ~running /\ recvQueue = <<>> THEN "ended" ELSE "get"
  /\ UNCHANGED <<running, connectVars, ws, link, sendVars, sendThread, inHand, recvQueue, recvThread,
                 recvVars, got, closing, wire>>

RecvGets ==
  /\ LoopRuns /\ receiver = "get" /\ recvQueue # <<>>
  /\ recvQueue' = Tail(recvQueue)
  /\ IF Head(recvQueue) = End
     THEN receiver' = "ended" /\ UNCHANGED got
     ELSE receiver' = "ready" /\ got' = Append(got, Head(recvQueue))
  /\ UNCHANGED <<running, connectVars, ws, link, sendVars, sendThread, inHand, recvThread, recvVars, closing, wire>>

\* get() times out after a second; v1 waits for ever.
RecvGivesUp ==
  /\ LoopRuns /\ receiver = "get" /\ recvQueue = <<>> /\ ~running /\ kind # "v1"
  /\ receiver' = "ended"
  /\ UNCHANGED <<running, connectVars, ws, link, sendVars, sendThread, inHand, recvQueue, recvThread,
                 recvVars, got, closing, wire>>

\* close() up to the join: v1 leaves its thread to notice the flag.
CloseStarts ==
  /\ LoopRuns /\ closing = "no"
  /\ closing' = "join" /\ running' = FALSE
  /\ sendQueue' = IF kind # "v1" /\ SendRoom THEN Append(sendQueue, Sentinel) ELSE sendQueue
  /\ UNCHANGED <<connectVars, ws, link, waiting, sender, number, closedIds, sendThread, inHand, recvQueue,
                 recvThread, recvVars, readVars, wire>>

\* Mutant of CloseEnds: the clean-up is left to the receive thread.
CloseEndsOnly ==
  /\ closing = "join"
  /\ closing' = "done"
  /\ UNCHANGED <<running, connectVars, ws, link, sendVars, sendThread, inHand, recvQueue, recvThread,
                 recvVars, readVars, wire>>

\* The join of a thread gives up after 2 s; v1 has no clean-up of its own.
CloseEnds ==
  /\ closing = "join"
  /\ closing' = "done"
  /\ ws' = IF kind = "v1" THEN ws ELSE "closed"
  /\ UNCHANGED <<running, connectVars, link, sendVars, sendThread, inHand, recvQueue, recvThread,
                 recvVars, readVars, wire>>

-----------------------------------------------------------------------------
\* The send thread of v2 and v3.

SendThreadEnds ==
  /\ sendThread' = "done" /\ running' = FALSE
  /\ UNCHANGED <<sendQueue, inHand, wire>>

SendThreadTop ==
  /\ sendThread = "top"
  /\ IF running
     THEN sendThread' = "get" /\ UNCHANGED <<running, sendQueue, inHand, wire>>
     ELSE SendThreadEnds
  /\ UNCHANGED <<connectVars, ws, link, waiting, sender, number, closedIds, recvQueue, recvThread,
                 recvVars, readVars, closing>>

\* get() times out after half a second.
NothingToSend ==
  /\ sendThread = "get" /\ sendQueue = <<>>
  /\ sendThread' = "top"
  /\ UNCHANGED <<running, connectVars, ws, link, sendVars, inHand, recvQueue, recvThread, recvVars,
                 readVars, closing, wire>>

Sent(m) == [wire EXCEPT ![m[1]] = Append(@, m[2])]

\* Mutant of IsStale: the queue is not filtered.
NeverStale(m) == FALSE

IsStale(m) == m[1] \in closedIds

TakeMessage ==
  /\ sendThread = "get" /\ sendQueue # <<>>
  /\ LET m == Head(sendQueue) IN
       /\ sendQueue' = Tail(sendQueue)
       /\ CASE m = Sentinel -> sendThread' = "done" /\ running' = FALSE /\ UNCHANGED inHand
            [] m # Sentinel /\ IsStale(m) -> sendThread' = "top" /\ UNCHANGED <<running, inHand>>
            [] OTHER -> sendThread' = "write" /\ inHand' = m /\ UNCHANGED running
  /\ UNCHANGED <<connectVars, ws, link, waiting, sender, number, closedIds, recvQueue, recvThread,
                 recvVars, readVars, closing, wire>>

\* What is sent while nobody reads goes to the buffers of the system, as long as they
\* have room: it is not certain that the write returns.
WriteMessage ==
  /\ sendThread = "write"
  /\ IF ws = "open" /\ link # "broken"
     THEN /\ wire' = Sent(inHand) /\ inHand' = Sentinel /\ sendThread' = "top"
          /\ UNCHANGED <<running, sendQueue>>
     ELSE SendThreadEnds
  /\ UNCHANGED <<connectVars, ws, link, waiting, sender, number, closedIds, recvQueue, recvThread,
                 recvVars, readVars, closing>>

-----------------------------------------------------------------------------
\* The receive thread of v2 and v3.  v2 looks at _running every half a second
\* while it waits; v3 waits in receive() until the WebSocket is closed.

RecvThreadGoes(from, to) ==
  /\ recvThread = from /\ recvThread' = to
  /\ UNCHANGED <<connectVars, link, sendVars, sendThread, inHand, readVars, closing, wire>>

\* The read time-out is looked at here only, before the thread waits for a message.
GoesOn == running /\ link # "silent"

RecvThreadTop ==
  /\ kind # "v1" /\ RecvThreadGoes("top", IF GoesOn THEN "receive" ELSE "finally")
  /\ UNCHANGED <<running, ws, recvQueue, recvVars>>

Carries == link \in {"up", "stuck"}

Receive ==
  /\ kind # "v1" /\ ws = "open" /\ Carries /\ received < MaxInbound
  /\ RecvThreadGoes("receive", IF kind = "v2" THEN "check" ELSE "put")
  /\ received' = received + 1 /\ recvBuffer' = <<received + 1>>
  /\ UNCHANGED <<running, ws, recvQueue, dropped>>

\* v2 throws the message away if the flag has been reset meanwhile.
CheckRunning ==
  /\ RecvThreadGoes("check", IF running THEN "put" ELSE "finally")
  /\ UNCHANGED <<running, ws, recvQueue, recvVars>>

ReceiveFails ==
  /\ \/ kind # "v1" /\ (ws # "open" \/ link = "broken")
     \/ kind = "v2" /\ ~running
  /\ RecvThreadGoes("receive", "finally")
  /\ UNCHANGED <<running, ws, recvQueue, recvVars>>

\* v1 goes on with the next message of its buffer, and then to its writing.
AfterPut == IF kind # "v1" THEN "top" ELSE IF Len(recvBuffer) > 1 THEN "put" ELSE "write"

PutMessage ==
  /\ RecvRoom /\ RecvThreadGoes("put", AfterPut)
  /\ recvQueue' = Append(recvQueue, Head(recvBuffer)) /\ recvBuffer' = Tail(recvBuffer)
  /\ UNCHANGED <<running, ws, received, dropped>>

\* put() times out after 5 s, in v1 at once, and the message is dropped.
DropMessage ==
  /\ ~RecvRoom /\ RecvThreadGoes("put", AfterPut)
  /\ dropped' = dropped \cup {Head(recvBuffer)} /\ recvBuffer' = Tail(recvBuffer)
  /\ UNCHANGED <<running, ws, recvQueue, received>>

\* The finally block, of the IO thread as well.
ResetRunning ==
  /\ RecvThreadGoes("finally", "mark")
  /\ running' = FALSE
  /\ UNCHANGED <<ws, recvQueue, recvVars>>

\* Mutant of MarkEnd: the end takes the place of the messages that nobody has read.
MarkEndAtOnce ==
  /\ RecvThreadGoes("mark", "cleanup")
  /\ recvQueue' = <<End>>
  /\ UNCHANGED <<running, ws, recvVars>>

\* put() of the end times out after 0.1 s; nobody hears of it then.
MarkEnd ==
  /\ RecvThreadGoes("mark", "cleanup")
  /\ recvQueue' = IF RecvRoom THEN Append(recvQueue, End) ELSE recvQueue
  /\ UNCHANGED <<running, ws, recvVars>>

\* _cleanup, at most once; session.close() in v1.
CleanUp ==
  /\ RecvThreadGoes("cleanup", "done")
  /\ ws' = "closed"
  /\ UNCHANGED <<running, recvQueue, recvVars>>

-----------------------------------------------------------------------------
\* The IO thread of v1: it selects, reads what there is, puts the messages it has
\* read, and writes.

Select ==
  /\ kind = "v1" /\ RecvThreadGoes("top", IF GoesOn THEN "receive" ELSE "finally")
  /\ UNCHANGED <<running, ws, recvQueue, recvVars>>

\* A round of reading goes on until nothing is left.
IoReads ==
  /\ kind = "v1" /\ Carries /\ received < MaxInbound
  /\ RecvThreadGoes("receive", "receive")
  /\ received' = received + 1 /\ recvBuffer' = Append(recvBuffer, received + 1)
  /\ UNCHANGED <<running, ws, recvQueue, dropped>>

IoHasRead ==
  /\ kind = "v1" /\ link # "broken"
  /\ RecvThreadGoes("receive", IF recvBuffer = <<>> THEN "write" ELSE "put")
  /\ UNCHANGED <<running, ws, recvQueue, recvVars>>

\* A closed connection, or an error: what this round has read is not put.
IoFails ==
  /\ kind = "v1" /\ link = "broken"
  /\ RecvThreadGoes("receive", "finally")
  /\ UNCHANGED <<running, ws, recvQueue, recvVars>>

\* Mutant of IoTakes: the queue is not looked at when select() is called.
IoTakesNothing ==
  /\ kind = "v1" /\ RecvThreadGoes("write", "top")
  /\ UNCHANGED <<running, ws, recvQueue, recvVars>>

\* The next message becomes current_data, unless it is stale.
IoTakes ==
  /\ kind = "v1" /\ recvThread = "write" /\ inHand = Sentinel /\ sendQueue # <<>>
  /\ sendQueue' = Tail(sendQueue)
  /\ IF IsStale(Head(sendQueue))
     THEN recvThread' = "top" /\ UNCHANGED inHand
     ELSE inHand' = Head(sendQueue) /\ UNCHANGED recvThread
  /\ UNCHANGED <<running, connectVars, ws, link, waiting, sender, number, closedIds, sendThread,
                 recvQueue, recvVars, readVars, closing, wire>>

\* The last of the rounds in which current_data is taken.
IoWrites ==
  /\ kind = "v1" /\ recvThread = "write" /\ inHand # Sentinel /\ link # "broken"
  /\ wire' = Sent(inHand) /\ inHand' = Sentinel /\ recvThread' = "top"
  /\ UNCHANGED <<running, connectVars, ws, link, sendVars, sendThread, recvQueue, recvVars, readVars, closing>>

\* Nothing to write, a socket that takes nothing, or only a part.
IoWaits ==
  /\ kind = "v1" /\ RecvThreadGoes("write", "top")
  /\ UNCHANGED <<running, ws, recvQueue, recvVars>>

IoWriteFails ==
  /\ kind = "v1" /\ inHand # Sentinel /\ link = "broken"
  /\ RecvThreadGoes("write", "finally")
  /\ UNCHANGED <<running, ws, recvQueue, recvVars>>

-----------------------------------------------------------------------------
LinkFails ==
  /\ Carries /\ link' \in {"stuck", "silent", "broken"} \ {link}
  /\ UNCHANGED <<running, connectVars, ws, sendVars, sendThread, inHand, recvQueue, recvThread,
                 recvVars, readVars, closing, wire>>

Connect == ConnectReturns \/ ConnectTimesOut
Recv == RecvStarts \/ RecvGets \/ RecvGivesUp
SendThread == SendThreadTop \/ NothingToSend \/ TakeMessage \/ WriteMessage
RecvThread ==
  \/ RecvThreadTop \/ Receive \/ CheckRunning \/ ReceiveFails \/ PutMessage \/ DropMessage
  \/ ResetRunning \/ MarkEnd \/ CleanUp
  \/ Select \/ IoReads \/ IoHasRead \/ IoFails \/ IoTakes \/ IoWrites \/ IoWaits \/ IoWriteFails

Next ==
  \/ DialOk \/ DialFails \/ Connect
  \/ \E c \in Conns : Send(c) \/ MarkConnectionClosed(c)
  \/ \E m \in Messages : PutGoesThrough(m)
  \/ Recv \/ CloseStarts \/ CloseEnds
  \/ SendThread \/ RecvThread \/ LinkFails

\* Threads and coroutines that can go on do.  A write returns if the peer reads, or if
\* the network is broken: send() of v2 and v3 waits otherwise.  Nor does v1 get rid of
\* its message then; a socket whose peer reads takes data again and again.
PeerReads == link \in {"up", "broken"}
Fairness ==
  /\ WF_vars(Connect) /\ WF_vars(Recv) /\ WF_vars(CloseEnds)
  /\ WF_vars(SendThreadTop \/ NothingToSend \/ TakeMessage) /\ WF_vars(PeerReads /\ WriteMessage)
  /\ WF_vars(RecvThread) /\ SF_vars(PeerReads /\ (IoTakes \/ IoWrites))
  /\ \A m \in Messages : WF_vars(PutGoesThrough(m))

Spec == Init /\ [][Next]_vars /\ Fairness

-----------------------------------------------------------------------------
\* Properties.

TypeOK ==
  /\ kind \in Kinds /\ running \in BOOLEAN
  /\ connecting \in {"waiting", "returned", "raised"} /\ dial \in {"dialling", "up", "failed"}
  /\ ws \in {"none", "open", "closed"} /\ link \in {"up", "stuck", "silent", "broken"}
  /\ sendQueue \in Seq(Messages \cup {Sentinel}) /\ Len(sendQueue) <= SendCapacity
  /\ recvQueue \in Seq(0..MaxInbound) /\ Len(recvQueue) <= RecvCapacity
  /\ waiting \subseteq Messages /\ closedIds \subseteq Conns
  /\ sender \in [Conns -> {"ready", "blocked", "raised", "closed"}]
  /\ number \in [Conns -> 0..MaxMessages]
  /\ sendThread \in {"none", "top", "get", "write", "done"} /\ inHand \in Messages \cup {Sentinel}
  /\ recvThread \in {"none", "top", "receive", "check", "put", "write", "finally", "mark", "cleanup", "done"}
  /\ received \in 0..MaxInbound /\ recvBuffer \in Seq(1..MaxInbound) /\ dropped \subseteq 1..MaxInbound
  /\ receiver \in {"ready", "get", "ended"} /\ got \in Seq(1..MaxInbound)
  /\ closing \in {"no", "join", "done"} /\ wire \in [Conns -> Seq(1..MaxMessages)]

\* A connection's messages leave in the order of its send() calls and once each,
\* also those that had to wait for room in the queue.
SentInOrder ==
  \A c \in Conns : \A i, j \in 1..Len(wire[c]) : i < j => wire[c][i] < wire[c][j]

\* What is received reaches recv() in order and once each, and before the end.  On the
\* way it is in the hands of the receive thread or in the queue.  Two things can be
\* missing at last: what found the queue full, and what the thread holds when it
\* ends.  In v1 that is what the last round read, if the connection broke in it; in
\* v2 one message, if the flag was reset while it came in; in v3 nothing.
Arrived == got \o recvQueue \o recvBuffer
NoneMissing == {Arrived[i] : i \in DOMAIN Arrived} \ {End} = 1..received \ dropped
InOrder ==
  \A i, j \in DOMAIN Arrived :
    i < j /\ Arrived[i] # End /\ Arrived[j] # End => Arrived[i] < Arrived[j]
EndIsLast == \A k \in DOMAIN recvQueue : recvQueue[k] = End => k = Len(recvQueue)
LeftInHand ==
  recvThread \in {"finally", "mark", "cleanup", "done"} /\ recvBuffer # <<>> =>
    \/ kind = "v1" /\ link = "broken"
    \/ kind = "v2" /\ ~running /\ Len(recvBuffer) = 1
ReceivedIsComplete == NoneMissing /\ InOrder /\ EndIsLast /\ LeftInHand

\* After mark_connection_closed the messages of the connection that wait, in the
\* queue or for room in it, are not sent: what is on the WebSocket or being written
\* grows no more, so that at most the message in hand follows.
InHandOf(c) == IF inHand # Sentinel /\ inHand[1] = c THEN 1 ELSE 0
StaleIsNotSent ==
  [][\A c \in closedIds : (Len(wire[c]) + InHandOf(c))' <= Len(wire[c]) + InHandOf(c)]_vars

\* However the connection ends, recv() raises at last, even if the queue was full
\* when the end was to be put.
ReceiverLearnsOfEnd ==
  []<>(connecting = "returned" /\ ~running => receiver = "ended" \/ closing = "join")

\* Once the flag is reset, or connect() has given up, the threads end and no
\* WebSocket stays open, also if the handshake ends after that.  The exceptions are
\* a handshake of v3 that ends in the moment of the time-out: its receive thread waits
\* for the peer, and nobody calls close(); and a send() to a peer that does not read,
\* which holds its thread.
LeftInWrite == sendThread = "write" /\ ~PeerReads
LeftInReceive == kind = "v3" /\ connecting = "raised" /\ recvThread = "receive"
ThreadsAreOver ==
  recvThread \in {"none", "done"} /\ (sendThread \in {"none", "done"} \/ LeftInWrite) /\ ws # "open"
ThreadsEnd ==
  []<>(~running \/ connecting = "raised" => ThreadsAreOver \/ LeftInReceive)

\* A send() that waits for room gets it while the peer reads, unless the thread that
\* empties the queue has ended: then it waits for ever.
SenderThreadGone == "done" \in {sendThread, recvThread}
SenderGetsRoom == \A c \in Conns : []<>(sender[c] = "blocked" => SenderThreadGone \/ ~PeerReads)

\* "Every select looks at _running and read_timeout": a connection on which nothing
\* arrives any more is given up.
SilenceIsNoticed == connecting = "returned" /\ link = "silent" ~> ~running
===============================================================================
