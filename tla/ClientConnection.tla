--------------------------- MODULE ClientConnection ---------------------------
(***************************************************************************)
(* One proxied TCP connection of the client: SOCKS5Connection or           *)
(* HTTPConnectConnection with the coroutines of SOCKS5Server that run it,  *)
(* and the messages of its conn_id that pass through WebSocketClient.      *)
(*                                                                         *)
(* Everything but the threads of the fingerprinting adapters runs on one   *)
(* asyncio loop; an action is the code between two awaits that can         *)
(* suspend.  Tasks are recorded by where they are suspended: h is the      *)
(* handler of the accepted socket, sl is _send_loop, m is                  *)
(* _monitor_connect_result, r is the receive loop of the WebSocket, cu is  *)
(* a close() started by _cleanup_connections_for_ws, and cl is the one     *)
(* close() call that found running set.                                    *)
(***************************************************************************)
EXTENDS Naturals, Sequences

CONSTANTS
  QueueSize,  \* capacity of _send_queue, 4096 in the code
  MaxUp,      \* bound: chunks read from the local client
  MaxDown     \* bound: DATA messages of the server

ASSUME QueueSizeAssumption == QueueSize \in Nat \ {0}
ASSUME BoundsAssumption == MaxUp \in Nat /\ MaxDown \in Nat

VARIABLES
  mode,      \* "optimistic": reply before the server's answer; "wait": after it
  filters,   \* does the adapter filter closed conn_ids (the three threaded ones do)?
  running, event, inDict, \* running, connect_event with its result, connections[conn_id]
  sock,      \* the local socket: "open", "shut", "closed"
  toClient,  \* what was written to the local client
  up,        \* chunks read from the local client
  queue,     \* _send_queue: chunk numbers, 0 is the None sentinel
  wsUp,      \* is the WebSocket that carries this conn_id usable?
  sweep,     \* has a _cleanup_connections_for_ws been scheduled for it?
  marked,    \* has the adapter this conn_id in _closed_conn_ids?
  adapterQ,  \* messages in the adapter's send queue
  wire,      \* messages sent on the WebSocket
  srvReply, srvShut, down, \* the server: its answer, has it closed, DATA received
  h, sl, m, r, cu,
  cl,        \* the effective close() call: where it is suspended
  closer,    \* the task that runs it
  notify     \* its notify_server argument

localVars  == <<sock, toClient, up>>
wsVars     == <<wsUp, sweep, adapterQ, wire>>
serverVars == <<srvReply, srvShut, down>>
closeVars  == <<running, marked, cl, closer, notify>>
vars == <<mode, filters, event, inDict, localVars, queue, wsVars, serverVars, h, sl, m, r, cu, closeVars>>

None == 0
Msg(type, n) == [type |-> type, n |-> n]
Messages == [type : {"connect", "data", "close"}, n : Nat]
Writes   == [type : {"ok", "fail", "data"}, n : Nat]

TypeOK ==
  /\ mode \in {"optimistic", "wait"} /\ event \in {"none", "ok", "fail"}
  /\ filters \in BOOLEAN /\ sweep \in BOOLEAN
  /\ running \in BOOLEAN /\ inDict \in BOOLEAN /\ wsUp \in BOOLEAN /\ marked \in BOOLEAN
  /\ sock \in {"open", "shut", "closed"} /\ toClient \in Seq(Writes)
  /\ up \in 0..MaxUp /\ queue \in Seq(0..MaxUp) /\ Len(queue) <= QueueSize
  /\ adapterQ \in Seq(Messages) /\ wire \in Seq(Messages)
  /\ srvReply \in {"none", "ok", "fail"} /\ srvShut \in BOOLEAN /\ down \in 0..MaxDown
  /\ h \in {"handshake", "sendConnect", "waiting", "replying", "replyFail", "recv", "put",
            "putNone", "closing", "sleep", "done"}
  /\ sl \in {"none", "getting", "sending", "done"}
  /\ m \in {"none", "waiting", "closing", "done"}
  /\ r \in {"idle", "writing", "closing"}
  /\ cu \in {"none", "closing", "done"}
  /\ cl \in {"none", "awaitMonitor", "awaitSend", "sendingClose", "lingering", "done"}
  /\ closer \in {"none", "handler", "receiver", "monitor", "cleanup"} /\ notify \in BOOLEAN

Init ==
  /\ mode \in {"optimistic", "wait"} /\ filters \in BOOLEAN /\ event = "none" /\ running = TRUE /\ inDict = TRUE
  /\ sock = "open" /\ toClient = <<>> /\ up = 0 /\ queue = <<>>
  /\ wsUp = TRUE /\ sweep = FALSE /\ marked = FALSE /\ adapterQ = <<>> /\ wire = <<>>
  /\ srvReply = "none" /\ srvShut = FALSE /\ down = 0
  /\ h = "handshake" /\ sl = "none" /\ m = "none" /\ r = "idle" /\ cu = "none"
  /\ cl = "none" /\ closer = "none" /\ notify = FALSE

\* Mutant of HasRoom: the queue takes one element too many.
HasRoomOffByOne(q) == Len(q) <= QueueSize

HasRoom(q) == Len(q) < QueueSize
Live(task) == task \notin {"none", "done"}

\* ws.send() of a usable WebSocket: an adapter that filters queues the message for
\* its thread, unless the conn_id is marked as closed; websockets writes it.
WsSend(x, closed) ==
  /\ adapterQ' = IF filters /\ ~closed THEN Append(adapterQ, x) ELSE adapterQ
  /\ wire' = IF filters THEN wire ELSE Append(wire, x)
  /\ UNCHANGED sweep

\* send_message() once the WebSocket is lost: ws.send raises, the clean-up is
\* scheduled, and the message goes to another WebSocket or the call raises.
WsSendFails == sweep' = TRUE /\ UNCHANGED <<adapterQ, wire>>

\* sock_sendall() to the local client; the reply methods log an error only.
Write(type, n) == toClient' = IF sock = "open" THEN Append(toClient, Msg(type, n)) ELSE toClient

-----------------------------------------------------------------------------
\* close().

\* Mutant of CloseFromNotify: without a CLOSE to send the socket is not shut down.
CloseFromNotifyNoShutdown(tell) ==
  /\ IF tell /\ wsUp THEN WsSend(Msg("close", 0), TRUE) ELSE UNCHANGED <<sweep, adapterQ, wire>>
  /\ cl' = IF tell THEN "sendingClose" ELSE "lingering"
  /\ UNCHANGED sock

\* From the CLOSE message on.
CloseFromNotify(tell) ==
  IF tell
  THEN /\ IF wsUp THEN WsSend(Msg("close", 0), TRUE) ELSE WsSendFails
       /\ cl' = "sendingClose"
       /\ UNCHANGED sock
  ELSE /\ cl' = "lingering"
       /\ sock' = "shut"
       /\ UNCHANGED <<sweep, adapterQ, wire>>

\* Mutant of CloseFromSend: close() does not cancel and await the send loop.
CloseFromSendUnawaited(tell) == CloseFromNotify(tell)

CloseFromSend(tell) ==
  IF Live(sl)
  THEN cl' = "awaitSend" /\ UNCHANGED <<sock, sweep, adapterQ, wire>>
  ELSE CloseFromNotify(tell)

\* Where the caller of close() is once the call is at loc or has returned.
CallerAt(who, inside) ==
  /\ h' = IF who = "handler" THEN (IF inside THEN "closing" ELSE "sleep") ELSE h
  /\ r' = IF who = "receiver" THEN (IF inside THEN "closing" ELSE "idle") ELSE r
  /\ m' = IF who = "monitor" THEN (IF inside THEN "closing" ELSE "done") ELSE m
  /\ cu' = IF who = "cleanup" THEN (IF inside THEN "closing" ELSE "done") ELSE cu

CloseReturnsAtOnce(who) ==
  /\ ~running
  /\ CallerAt(who, FALSE)
  /\ UNCHANGED <<sock, sweep, adapterQ, wire, closeVars>>

\* Mutant of CloseBegins: running stays set.
CloseBeginsRunning(who, tell) ==
  /\ running /\ cl = "none"
  /\ marked' = filters /\ closer' = who /\ notify' = tell
  /\ CallerAt(who, TRUE)
  /\ CloseFromSend(tell)
  /\ UNCHANGED running

\* The monitor as closer cancels and awaits itself, which costs it one turn.
CloseBegins(who, tell) ==
  /\ running
  /\ running' = FALSE
  /\ marked' = filters
  /\ closer' = who
  /\ notify' = tell
  /\ CallerAt(who, TRUE)
  /\ IF Live(m)
     THEN cl' = "awaitMonitor" /\ UNCHANGED <<sock, sweep, adapterQ, wire>>
     ELSE CloseFromSend(tell)

Close(who, tell) == CloseReturnsAtOnce(who) \/ CloseBegins(who, tell)

MonitorGone ==
  /\ cl = "awaitMonitor" /\ (m = "done" \/ closer = "monitor")
  /\ CloseFromSend(notify)
  /\ UNCHANGED <<mode, filters, event, inDict, toClient, up, queue, wsUp, serverVars, h, sl, m, r, cu,
                 running, marked, closer, notify>>

SendGone ==
  /\ cl = "awaitSend" /\ sl = "done"
  /\ CloseFromNotify(notify)
  /\ UNCHANGED <<mode, filters, event, inDict, toClient, up, queue, wsUp, serverVars, h, sl, m, r, cu,
                 running, marked, closer, notify>>

\* The CLOSE message is sent, or sending it raised: shut the socket down.
CloseSent ==
  /\ cl = "sendingClose"
  /\ cl' = "lingering"
  /\ sock' = "shut"
  /\ UNCHANGED <<mode, filters, event, inDict, toClient, up, queue, wsVars, serverVars, h, sl, m, r, cu,
                 running, marked, closer, notify>>

\* After sleep(0.05), which ends after the loop has woken every task that was
\* waiting for the socket.
CloseEnds ==
  /\ cl = "lingering"
  /\ h \notin {"handshake", "recv", "replying", "replyFail"} /\ r # "writing"
  /\ cl' = "done"
  /\ sock' = "closed"
  /\ CallerAt(closer, FALSE)
  /\ UNCHANGED <<mode, filters, event, inDict, toClient, up, queue, wsVars, serverVars, sl, running,
                 marked, closer, notify>>

-----------------------------------------------------------------------------
\* The handler: _handle_connection, _handle_socks5_connection, handle.

\* The handshake fails, or the local client leaves.
HandshakeFails ==
  /\ h = "handshake"
  /\ Close("handler", TRUE)
  /\ UNCHANGED <<mode, filters, event, inDict, toClient, up, queue, wsUp, serverVars, sl>>

\* The router blocks the target.
Blocked ==
  /\ h = "handshake" /\ sock = "open"
  /\ Write("fail", 0)
  /\ h' = "replyFail"
  /\ UNCHANGED <<mode, filters, event, inDict, sock, up, queue, wsVars, serverVars, sl, m, r, cu, closeVars>>

SendConnect ==
  /\ h = "handshake" /\ sock = "open"
  /\ \/ /\ wsUp
        /\ WsSend(Msg("connect", 0), marked)
        /\ h' = "sendConnect"
        /\ UNCHANGED <<sock, m, r, cu, closeVars>>
     \/ /\ ~wsUp
        /\ Close("handler", TRUE)
  /\ UNCHANGED <<mode, filters, event, inDict, toClient, up, queue, wsUp, serverVars, sl>>

\* Mutant of ConnectSent: the optimistic reply does not skip the wait.
ConnectSentRepliesTwice ==
  /\ h = "sendConnect"
  /\ IF mode = "optimistic" THEN Write("ok", 0) ELSE UNCHANGED toClient
  /\ h' = "waiting"
  /\ UNCHANGED <<mode, filters, event, inDict, sock, up, queue, wsVars, serverVars, sl, m, r, cu, closeVars>>

\* In optimistic mode the reply does not wait for the server.
ConnectSent ==
  /\ h = "sendConnect"
  /\ \/ /\ mode = "optimistic"
        /\ Write("ok", 0)
        /\ h' = "replying"
     \/ /\ mode = "wait"
        /\ h' = "waiting"
        /\ UNCHANGED toClient
  /\ UNCHANGED <<mode, filters, event, inDict, sock, up, queue, wsVars, serverVars, sl, m, r, cu, closeVars>>

Answered ==
  /\ h = "waiting" /\ event # "none"
  /\ Write(event, 0)
  /\ h' = IF event = "ok" THEN "replying" ELSE "replyFail"
  /\ UNCHANGED <<mode, filters, event, inDict, sock, up, queue, wsVars, serverVars, sl, m, r, cu, closeVars>>

AnswerTimeout ==
  /\ h = "waiting" /\ event = "none"
  /\ Write("fail", 0)
  /\ h' = "replyFail"
  /\ UNCHANGED <<mode, filters, event, inDict, sock, up, queue, wsVars, serverVars, sl, m, r, cu, closeVars>>

Refused ==
  /\ h = "replyFail"
  /\ Close("handler", TRUE)
  /\ UNCHANGED <<mode, filters, event, inDict, toClient, up, queue, wsUp, serverVars, sl>>

\* forward_data ends: the sentinel, then close() in the caller's finally block.
Finish(q) ==
  \/ /\ HasRoom(q)
     /\ queue' = Append(q, None)
     /\ Close("handler", TRUE)
  \/ /\ ~HasRoom(q)
     /\ queue' = q
     /\ h' = "putNone"
     /\ UNCHANGED <<sock, sweep, adapterQ, wire, m, r, cu, closeVars>>

\* Mutant of Replied: the loops do not look at running.
RepliedUnchecked ==
  /\ h = "replying"
  /\ sl' = "getting"
  /\ m' = IF mode = "optimistic" THEN "waiting" ELSE m
  /\ h' = "recv"
  /\ UNCHANGED <<mode, filters, event, inDict, localVars, queue, wsVars, serverVars, r, cu, closeVars>>

\* The reply is out: start the monitor and the send loop, and read.
Replied ==
  /\ h = "replying"
  /\ sl' = IF running THEN "getting" ELSE "done"
  /\ m' = IF mode = "optimistic" THEN "waiting" ELSE m
  /\ \/ /\ running
        /\ h' = "recv"
        /\ UNCHANGED queue
     \/ /\ ~running
        /\ h' = "sleep"
        /\ queue' = Append(queue, None)
  /\ UNCHANGED <<mode, filters, event, inDict, localVars, wsVars, serverVars, r, cu, closeVars>>

LocalData ==
  /\ h = "recv" /\ sock = "open" /\ up < MaxUp
  /\ up' = up + 1
  /\ \/ /\ HasRoom(queue) /\ running
        /\ queue' = Append(queue, up')
        /\ UNCHANGED <<sock, sweep, adapterQ, wire, h, m, r, cu, closeVars>>
     \/ /\ HasRoom(queue) /\ ~running
        /\ Finish(Append(queue, up'))
     \/ /\ ~HasRoom(queue)
        /\ h' = "put"
        /\ UNCHANGED <<sock, queue, sweep, adapterQ, wire, m, r, cu, closeVars>>
  /\ UNCHANGED <<mode, filters, event, inDict, toClient, wsUp, serverVars, sl>>

\* Mutant of PutDone: a chunk that found the queue full is dropped.
PutDoneDropping ==
  /\ h = "put" /\ HasRoom(queue) /\ running
  /\ h' = "recv"
  /\ UNCHANGED <<mode, filters, event, inDict, localVars, queue, wsVars, serverVars, sl, m, r, cu, closeVars>>

PutDone ==
  /\ h = "put" /\ HasRoom(queue)
  /\ \/ /\ running
        /\ queue' = Append(queue, up)
        /\ h' = "recv"
        /\ UNCHANGED <<sock, sweep, adapterQ, wire, m, r, cu, closeVars>>
     \/ /\ ~running
        /\ Finish(Append(queue, up))
  /\ UNCHANGED <<mode, filters, event, inDict, toClient, up, wsUp, serverVars, sl>>

\* sock_recv returns b'' or raises.
LocalEnd ==
  /\ h = "recv"
  /\ Finish(queue)
  /\ UNCHANGED <<mode, filters, event, inDict, toClient, up, wsUp, serverVars, sl>>

PutNoneDone ==
  /\ h = "putNone" /\ HasRoom(queue)
  /\ queue' = Append(queue, None)
  /\ Close("handler", TRUE)
  /\ UNCHANGED <<mode, filters, event, inDict, toClient, up, wsUp, serverVars, sl>>

\* After sleep(0.1) the conn_id is forgotten.
Forget ==
  /\ h = "sleep"
  /\ h' = "done"
  /\ inDict' = FALSE
  /\ UNCHANGED <<mode, filters, event, localVars, queue, wsVars, serverVars, sl, m, r, cu, closeVars>>

-----------------------------------------------------------------------------
\* _send_loop.

TakeNone ==
  /\ sl = "getting" /\ cl # "awaitSend" /\ queue # <<>> /\ Head(queue) = None
  /\ sl' = "done"
  /\ queue' = Tail(queue)
  /\ UNCHANGED <<mode, filters, event, inDict, localVars, wsVars, serverVars, h, m, r, cu, closeVars>>

\* send_message raises when no WebSocket is left, which ends the loop; another
\* WebSocket takes the message to a server that does not know the conn_id.
TakeData ==
  /\ sl = "getting" /\ cl # "awaitSend" /\ queue # <<>> /\ Head(queue) # None
  /\ queue' = Tail(queue)
  /\ \/ /\ wsUp
        /\ WsSend(Msg("data", Head(queue)), marked)
        /\ sl' = "sending"
     \/ /\ ~wsUp
        /\ WsSendFails
        /\ sl' \in {"sending", "done"}
  /\ UNCHANGED <<mode, filters, event, inDict, localVars, wsUp, serverVars, h, m, r, cu, closeVars>>

Sent ==
  /\ sl = "sending" /\ cl # "awaitSend"
  /\ sl' = IF running THEN "getting" ELSE "done"
  /\ UNCHANGED <<mode, filters, event, inDict, localVars, queue, wsVars, serverVars, h, m, r, cu, closeVars>>

SendRaises ==
  /\ sl = "sending" /\ cl # "awaitSend" /\ ~wsUp
  /\ sl' = "done"
  /\ WsSendFails
  /\ UNCHANGED <<mode, filters, event, inDict, localVars, queue, wsUp, serverVars, h, m, r, cu, closeVars>>

SendCancelled ==
  /\ cl = "awaitSend" /\ Live(sl)
  /\ sl' = "done"
  /\ UNCHANGED <<mode, filters, event, inDict, localVars, queue, wsVars, serverVars, h, m, r, cu, closeVars>>

-----------------------------------------------------------------------------
\* _monitor_connect_result.

MonitorReady == m = "waiting" /\ cl # "awaitMonitor"

MonitorAnswered ==
  /\ MonitorReady /\ event # "none"
  /\ \/ /\ event = "ok"
        /\ m' = "done"
        /\ UNCHANGED <<sock, sweep, adapterQ, wire, h, r, cu, closeVars>>
     \/ /\ event = "fail"
        /\ Close("monitor", FALSE)
  /\ UNCHANGED <<mode, filters, event, inDict, toClient, up, queue, wsUp, serverVars, sl>>

\* Mutant of MonitorTimeout: the server is not told, as after a refusal.
MonitorTimeoutSilent ==
  /\ MonitorReady /\ event = "none"
  /\ Close("monitor", FALSE)
  /\ UNCHANGED <<mode, filters, event, inDict, toClient, up, queue, wsUp, serverVars, sl>>

MonitorTimeout ==
  /\ MonitorReady /\ event = "none"
  /\ Close("monitor", TRUE)
  /\ UNCHANGED <<mode, filters, event, inDict, toClient, up, queue, wsUp, serverVars, sl>>

MonitorCancelled ==
  /\ cl = "awaitMonitor" /\ m = "waiting"
  /\ m' = "done"
  /\ UNCHANGED <<mode, filters, event, inDict, localVars, queue, wsVars, serverVars, h, sl, r, cu, closeVars>>

-----------------------------------------------------------------------------
\* The receive loop: handle_message for this conn_id.  The server is any one
\* that RelayStream allows.

Connected == \E i \in DOMAIN wire : wire[i].type = "connect"
FromServer == r = "idle" /\ wsUp /\ Connected

RecvAnswer ==
  /\ FromServer /\ srvReply = "none"
  /\ srvReply' \in {"ok", "fail"}
  /\ event' = IF inDict THEN srvReply' ELSE event
  /\ UNCHANGED <<mode, filters, inDict, localVars, queue, wsVars, srvShut, down, h, sl, m, r, cu, closeVars>>

RecvData ==
  /\ FromServer /\ srvReply = "ok" /\ ~srvShut /\ down < MaxDown
  /\ down' = down + 1
  /\ \/ /\ inDict /\ sock = "open"
        /\ Write("data", down')
        /\ r' = "writing"
        /\ UNCHANGED <<sock, sweep, adapterQ, wire, h, m, cu, closeVars>>
     \/ /\ inDict /\ sock # "open"
        /\ Close("receiver", TRUE)
        /\ UNCHANGED toClient
     \/ /\ ~inDict
        /\ UNCHANGED <<sock, toClient, sweep, adapterQ, wire, h, m, r, cu, closeVars>>
  /\ UNCHANGED <<mode, filters, event, inDict, up, queue, wsUp, srvReply, srvShut, sl>>

Written ==
  /\ r = "writing" /\ sock = "open"
  /\ r' = "idle"
  /\ UNCHANGED <<mode, filters, event, inDict, localVars, queue, wsVars, serverVars, h, sl, m, cu, closeVars>>

\* The local client is gone, or close() shut the socket down.
WriteRaises ==
  /\ r = "writing"
  /\ Close("receiver", TRUE)
  /\ UNCHANGED <<mode, filters, event, inDict, toClient, up, queue, wsUp, serverVars, sl>>

RecvClose ==
  /\ FromServer /\ ~srvShut
  /\ srvShut' = TRUE
  /\ \/ inDict /\ Close("receiver", FALSE)
     \/ ~inDict /\ UNCHANGED <<sock, sweep, adapterQ, wire, h, m, r, cu, closeVars>>
  /\ UNCHANGED <<mode, filters, event, inDict, toClient, up, queue, wsUp, srvReply, down, sl>>

-----------------------------------------------------------------------------
\* The WebSocket.

\* The connection breaks.  A receive loop that ends with an exception cleans up; it
\* ends without one after a closing handshake, and always with the threaded adapters.
WsLost ==
  /\ wsUp
  /\ wsUp' = FALSE
  /\ sweep' \in IF filters THEN {sweep} ELSE {sweep, TRUE}
  /\ UNCHANGED <<mode, filters, event, inDict, localVars, queue, adapterQ, wire, serverVars, h, sl, m, r, cu, closeVars>>

\* _cleanup_connections_for_ws.  One is enough: a later one finds nothing to close.
CleanUp ==
  /\ sweep /\ cu = "none"
  /\ \/ inDict /\ running /\ CloseBegins("cleanup", FALSE)
     \/ /\ ~(inDict /\ running)
        /\ cu' = "done"
        /\ UNCHANGED <<sock, sweep, adapterQ, wire, h, m, r, closeVars>>
  /\ UNCHANGED <<mode, filters, event, inDict, toClient, up, queue, wsUp, serverVars, sl>>

\* The send thread of an adapter that filters.
ThreadSends ==
  /\ wsUp /\ adapterQ # <<>>
  /\ adapterQ' = Tail(adapterQ)
  /\ wire' = IF marked THEN wire ELSE Append(wire, Head(adapterQ))
  /\ UNCHANGED <<mode, filters, event, inDict, localVars, queue, wsUp, sweep, serverVars, h, sl, m, r, cu, closeVars>>

-----------------------------------------------------------------------------
HandlerNext == \/ HandshakeFails \/ Blocked \/ SendConnect \/ ConnectSent \/ Answered
               \/ AnswerTimeout \/ Refused \/ Replied \/ LocalData \/ PutDone \/ LocalEnd
               \/ PutNoneDone \/ Forget
SendNext    == TakeNone \/ TakeData \/ Sent \/ SendRaises \/ SendCancelled
MonitorNext == MonitorAnswered \/ MonitorTimeout \/ MonitorCancelled
ReceiveNext == RecvAnswer \/ RecvData \/ Written \/ WriteRaises \/ RecvClose
CloseNext   == MonitorGone \/ SendGone \/ CloseSent \/ CloseEnds
SocketNext  == WsLost \/ CleanUp \/ ThreadSends

Next == HandlerNext \/ SendNext \/ MonitorNext \/ ReceiveNext \/ CloseNext \/ SocketNext

Spec == Init /\ [][Next]_vars

\* A ready task runs, timeouts expire, and a send on the WebSocket returns or
\* raises.  Reads and writes of the local socket return once it is shut down;
\* before that nothing is assumed of the local client.
Fairness ==
  /\ WF_vars(ConnectSent \/ Answered \/ AnswerTimeout \/ Refused \/ Replied)
  /\ WF_vars(PutDone \/ PutNoneDone)
  /\ WF_vars(sock # "open" /\ (HandshakeFails \/ LocalEnd))
  /\ WF_vars(Forget)
  /\ WF_vars(sock # "open" /\ WriteRaises)
  /\ WF_vars(CleanUp)
  /\ WF_vars(MonitorNext)
  /\ WF_vars(SendNext)
  /\ WF_vars(CloseNext)

FairSpec == Spec /\ Fairness

-----------------------------------------------------------------------------
\* Properties.

\* The upload: CONNECT goes first, then the chunks of the local client in order
\* and without a gap, whatever is cancelled, dropped or marked closed meanwhile.
UploadInOrder ==
  \A i \in DOMAIN wire : wire[i].type = "data" =>
    i > 1 /\ wire[1].type = "connect" /\ wire[i] = Msg("data", i - 1)

\* Nothing follows the CLOSE message: close() has ended the send loop before.
CloseEndsUpload ==
  \A i \in DOMAIN wire : wire[i].type = "close" => i = Len(wire)

\* The local client gets one reply, and the server's data in order.  (The reply need
\* not come first: the answer of the server only sets an event, and the receive loop
\* may write data before the handler has written its reply.)
DownloadInOrder ==
  \A i, j \in DOMAIN toClient : i < j =>
    /\ toClient[i].type # "data" => toClient[j].type = "data"
    /\ toClient[i].type = "data" /\ toClient[j].type = "data" => toClient[i].n < toClient[j].n

\* With the adapter that does not filter, the server knows of the end after close():
\* from the CLOSE message, from its own CLOSE or refusal, or from the loss of the
\* WebSocket.
ServerKnows ==
  \/ \E i \in DOMAIN wire : wire[i].type = "close"
  \/ srvShut \/ srvReply = "fail" \/ ~wsUp
ServerLearnsOfEnd == cl = "done" /\ Connected /\ ~filters => ServerKnows

\* While the connection runs the upload never dies silently: the send loop ends
\* only because the WebSocket is lost.
SendLoopAlive == running /\ sl = "done" => ~wsUp

\* Once close() sends CLOSE no send loop is alive, and a handler that was still
\* replying starts none.
NoSendLoopLeft == cl \in {"sendingClose", "lingering", "done"} => ~Live(sl)

\* The reader of the local socket blocks on a queue that nobody empties.
Stuck == h \in {"put", "putNone"} /\ ~HasRoom(queue) /\ sl = "done"

\* A connection that starts to close is closed and forgotten, unless the reader
\* is stuck.
EndsOnceClosed == ~running ~> (h = "done" /\ sock = "closed") \/ Stuck

-----------------------------------------------------------------------------
\* What comments of the repository say and the code does not do.

\* "Make sure that the connection is closed properly and the server notified", by
\* the finally block of the handler, whatever the adapter.
CloseIsDelivered == cl = "done" /\ closer = "handler" /\ Connected => ServerKnows

\* "When a WebSocket disconnects ... the client has to clean up as well": a
\* connection of a lost WebSocket is closed.
LossClosesConnection == ~wsUp /\ Connected /\ inDict ~> ~running
==============================================================================
