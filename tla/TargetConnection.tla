--------------------------- MODULE TargetConnection ---------------------------
(***************************************************************************)
(* One TargetConnection of the server together with the WebSocketHandler   *)
(* methods that create it, feed it and announce its end: the life of one   *)
(* conn_id on one WebSocket.                                               *)
(*                                                                         *)
(* Everything runs on one asyncio loop, so an action is the code between   *)
(* two awaits that can suspend.  Tasks are recorded by where they are      *)
(* suspended: hc is handle_connect, rl is read_loop, sl is send_loop, cl   *)
(* is the one close() call that got past the _closing guard.  A handler    *)
(* runs up to its first suspension in the step that receives its message,  *)
(* because ensure_future keeps the order of the messages.                  *)
(***************************************************************************)
EXTENDS Naturals, Sequences

CONSTANTS
  QueueSize,  \* capacity of the send queue, 8 in the code
  MaxUp,      \* bound: DATA messages the client sends
  MaxDown     \* bound: packets the target produces

ASSUME QueueSizeAssumption == QueueSize \in Nat \ {0}
ASSUME BoundsAssumption == MaxUp \in Nat /\ MaxDown \in Nat

VARIABLES
  ws,         \* the WebSocket: "open", "lost" (on_close has not run), "closed"
  registered, \* is the conn_id in WebSocketHandler.connections?
  lock,       \* does the conn_id have an entry in conn_send_locks?
  frames,     \* frames written for this conn_id, in order
  hc,         \* handle_connect: "idle", "dial", "flush", "done"
  sweep,      \* is a close() scheduled by on_close still to run?
  running, closing, connected,  \* the three flags of the object
  early,      \* _early_data_buffer, less what the flush has written
  written,    \* DATA packets written to the target, in order of writing
  upSent,     \* number of DATA messages received from the client
  draining,   \* handle_data calls suspended in drain()
  stalled,    \* the target does not read and bytes wait in the writer
  writer,     \* "none", "open", "closed" (close() was called on it)
  rl,         \* read_loop task
  readCancel, \* a cancel() of the read task has not been delivered yet
  sl,         \* send_loop task
  queue,      \* _send_queue: packet numbers, 0 is the None sentinel
  got,        \* number of packets read from the target
  sent,       \* number of DATA frames written
  cl,         \* the effective close() call: where it is suspended
  closer,     \* which task runs that call: "read", "send" or "other"
  timedOut    \* has the 30 s wait for the send task expired?

wsVars   == <<ws, registered, hc, sweep>>
upVars   == <<connected, early, written, upSent, draining, stalled>>
downVars == <<got, sent, lock, frames>>
taskVars == <<rl, readCancel, sl, queue>>
endVars  == <<running, closing, closer, cl, writer>>
vars     == <<wsVars, upVars, downVars, taskVars, endVars, timedOut>>

None == 0
Frame(type, n) == [type |-> type, n |-> n]
FrameSet == [type : {"ok", "fail", "data", "close"}, n : Nat]

ReadStates  == {"none", "spawned", "reading", "putting", "putNone", "closing", "done"}
SendStates  == {"none", "getting", "sending", "closing", "done"}
CloseStates == {"none", "awaitRead", "drain", "awaitSend", "waitClosed", "notify", "done"}

FlagsOK ==
  /\ registered \in BOOLEAN /\ lock \in BOOLEAN /\ sweep \in BOOLEAN /\ stalled \in BOOLEAN
  /\ running \in BOOLEAN /\ closing \in BOOLEAN /\ connected \in BOOLEAN
  /\ readCancel \in BOOLEAN /\ timedOut \in BOOLEAN

TasksOK ==
  /\ ws \in {"open", "lost", "closed"}
  /\ hc \in {"idle", "dial", "flush", "done"}
  /\ writer \in {"none", "open", "closed"}
  /\ rl \in ReadStates
  /\ sl \in SendStates
  /\ cl \in CloseStates
  /\ closer \in {"none", "read", "send", "other"}

DataOK ==
  /\ frames \in Seq(FrameSet)
  /\ early \in Seq(Nat) /\ written \in Seq(Nat)
  /\ upSent \in 0..MaxUp /\ draining \in Nat
  /\ got \in 0..MaxDown /\ sent \in Nat

QueueOK == queue \in Seq(Nat) /\ Len(queue) <= QueueSize

TypeOK == FlagsOK /\ TasksOK /\ DataOK /\ QueueOK

Init ==
  /\ ws = "open" /\ registered = FALSE /\ hc = "idle" /\ sweep = FALSE
  /\ connected = FALSE /\ early = <<>> /\ written = <<>>
  /\ upSent = 0 /\ draining = 0 /\ stalled = FALSE
  /\ got = 0 /\ sent = 0 /\ lock = FALSE /\ frames = <<>>
  /\ rl = "none" /\ readCancel = FALSE /\ sl = "none" /\ queue = <<>>
  /\ running = FALSE /\ closing = FALSE /\ closer = "none" /\ cl = "none"
  /\ writer = "none" /\ timedOut = FALSE

-----------------------------------------------------------------------------
\* write_message: the frame is queued at the call, or the call raises.
Emit(f) == frames' = IF ws = "open" THEN Append(frames, f) ELSE frames

Live(task) == task \notin {"none", "done"}

\* Faulty variant: off by one.
HasRoomOffByOne(q) == Len(q) <= QueueSize

HasRoom(q) == Len(q) < QueueSize

\* Faulty variant: the send task is always cancelled, never drained.
CloseFromSendCancelling(who, q) ==
  /\ IF Live(sl) THEN cl' = "awaitSend" /\ UNCHANGED writer
                 ELSE cl' = "waitClosed" /\ writer' = "closed"
  /\ queue' = q

\* The part of close() from the send task on, entered with queue q.  The send
\* task as closer cancels and awaits itself: asyncio turns the RuntimeError into
\* the pending CancelledError, which is swallowed, so it only loses one turn.
CloseFromSend(who, q) ==
  \/ /\ Live(sl) /\ who = "read"
     /\ cl' = "drain"
     /\ queue' = IF HasRoom(q) THEN Append(q, None) ELSE q
     /\ UNCHANGED writer
  \/ /\ Live(sl) /\ who # "read"
     /\ cl' = "awaitSend"
     /\ queue' = q
     /\ UNCHANGED writer
  \/ /\ ~Live(sl)
     /\ cl' = "waitClosed"
     /\ writer' = "closed"
     /\ queue' = q

\* close() up to its first suspension, called by task who when the queue is q;
\* a loop that calls it ends when the call returns.
CloseReturnsAtOnce(who, q) ==
  /\ closing \/ ~running
  /\ closing' = TRUE
  /\ rl' = IF who = "read" THEN "done" ELSE rl
  /\ sl' = IF who = "send" THEN "done" ELSE sl
  /\ queue' = q
  /\ UNCHANGED <<running, closer, cl, writer, readCancel>>

\* Faulty variant: no guard, a second call runs the cleanup again.
CloseBeginsAgain(who, q) ==
  /\ writer # "none"
  /\ closing' = TRUE
  /\ running' = FALSE
  /\ closer' = who
  /\ rl' = IF who = "read" THEN "closing" ELSE rl
  /\ sl' = IF who = "send" THEN "closing" ELSE sl
  /\ CloseFromSend(who, q)
  /\ UNCHANGED readCancel

CloseBegins(who, q) ==
  /\ ~closing /\ running
  /\ closing' = TRUE
  /\ running' = FALSE
  /\ closer' = who
  /\ rl' = IF who = "read" THEN "closing" ELSE rl
  /\ sl' = IF who = "send" THEN "closing" ELSE sl
  /\ \/ /\ who # "read" /\ Live(rl)
        /\ readCancel' = TRUE
        /\ cl' = "awaitRead"
        /\ queue' = q
        /\ UNCHANGED writer
     \/ /\ who = "read" \/ ~Live(rl)
        /\ CloseFromSend(who, q)
        /\ UNCHANGED readCancel

Close(who, q) == CloseReturnsAtOnce(who, q) \/ CloseBegins(who, q)

-----------------------------------------------------------------------------
\* handle_connect.

\* Refused: the connection limit is reached, or the request does not unpack.
RecvConnectRefused ==
  /\ ws = "open" /\ hc = "idle"
  /\ hc' = "done"
  /\ Emit(Frame("fail", 0))
  /\ UNCHANGED <<ws, registered, sweep, upVars, got, sent, lock, taskVars, endVars, timedOut>>

RecvConnect ==
  /\ ws = "open" /\ hc = "idle"
  /\ hc' = "dial"
  /\ registered' = TRUE
  /\ UNCHANGED <<ws, sweep, upVars, downVars, taskVars, endVars, timedOut>>

\* connect() raises: timeout or error of open_connection or of the flush.
ConnectRaises ==
  /\ hc' = "done"
  /\ registered' = FALSE
  /\ Emit(Frame("fail", 0))
  /\ UNCHANGED <<ws, sweep, got, sent, lock, taskVars, closing, closer, cl, timedOut>>

DialFail ==
  /\ hc = "dial"
  /\ ConnectRaises
  /\ UNCHANGED <<upVars, running, writer>>

\* The last part of connect() and the success frame.
ConnectReturns ==
  /\ hc' = "done"
  /\ rl' = "spawned"
  /\ sl' = "getting"
  /\ Emit(Frame("ok", 0))

\* Faulty variant: the loops start before the early data is flushed.
DialOkLoopsFirst ==
  /\ hc = "dial"
  /\ running' = TRUE
  /\ connected' = TRUE
  /\ writer' = "open"
  /\ rl' = "spawned"
  /\ sl' = "getting"
  /\ \/ /\ early = <<>>
        /\ hc' = "done"
        /\ Emit(Frame("ok", 0))
        /\ UNCHANGED <<early, written>>
     \/ /\ early # <<>>
        /\ written' = Append(written, Head(early))
        /\ early' = Tail(early)
        /\ hc' = "flush"
        /\ UNCHANGED frames
  /\ UNCHANGED <<ws, registered, sweep, upSent, draining, stalled, got, sent, lock,
                 readCancel, queue, closing, closer, cl, timedOut>>

\* The socket is up: the flags are set, then the first early packet is written.
DialOk ==
  /\ hc = "dial"
  /\ running' = TRUE
  /\ connected' = TRUE
  /\ writer' = "open"
  /\ \/ /\ early = <<>>
        /\ ConnectReturns
        /\ UNCHANGED <<early, written>>
     \/ /\ early # <<>>
        /\ written' = Append(written, Head(early))
        /\ early' = Tail(early)
        /\ hc' = "flush"
        /\ UNCHANGED <<rl, sl, frames>>
  /\ UNCHANGED <<ws, registered, sweep, upSent, draining, stalled, got, sent, lock,
                 readCancel, queue, closing, closer, cl, timedOut>>

\* Faulty variant: only the first packet of the buffer is flushed.
FlushNextForgetting ==
  /\ hc = "flush"
  /\ early' = <<>>
  /\ ConnectReturns
  /\ UNCHANGED <<ws, registered, sweep, connected, written, upSent, draining, stalled, got,
                 sent, lock, readCancel, queue, endVars, timedOut>>

\* drain() of an early packet returned.  A write after writer.close() may
\* still go out or be dropped by the transport.
FlushNext ==
  /\ hc = "flush"
  /\ \/ /\ early = <<>>
        /\ ConnectReturns
        /\ UNCHANGED <<early, written>>
     \/ /\ early # <<>>
        /\ \/ written' = Append(written, Head(early))
           \/ writer = "closed" /\ UNCHANGED written
        /\ early' = Tail(early)
        /\ UNCHANGED <<hc, rl, sl, frames>>
  /\ UNCHANGED <<ws, registered, sweep, connected, upSent, draining, stalled, got, sent,
                 lock, readCancel, queue, endVars, timedOut>>

\* drain() of an early packet timed out or raised.
FlushFail ==
  /\ hc = "flush"
  /\ ConnectRaises
  /\ UNCHANGED <<upVars, running, writer>>

-----------------------------------------------------------------------------
\* handle_data and TargetConnection.send_data.

RecvData ==
  /\ ws = "open" /\ hc # "idle" /\ upSent < MaxUp
  /\ upSent' = upSent + 1
  /\ \/ /\ registered /\ ~connected
        /\ early' = Append(early, upSent')
        /\ UNCHANGED <<written, draining>>
     \/ /\ registered /\ connected /\ running
        /\ written' = Append(written, upSent')
        /\ draining' = draining + 1
        /\ UNCHANGED early
     \/ /\ ~registered \/ (connected /\ ~running)
        /\ UNCHANGED <<early, written, draining>>
  /\ UNCHANGED <<wsVars, connected, stalled, downVars, taskVars, endVars, timedOut>>

DrainOk ==
  /\ draining > 0
  /\ draining' = draining - 1
  /\ UNCHANGED <<wsVars, connected, early, written, upSent, stalled, downVars, taskVars,
                 endVars, timedOut>>

\* drain() timed out or raised: the handler closes the connection.
DrainFail ==
  /\ draining > 0
  /\ draining' = draining - 1
  /\ Close("other", queue)
  /\ UNCHANGED <<wsVars, connected, early, written, upSent, stalled, downVars, timedOut>>

\* handle_close; a CLOSE for an unknown conn_id changes nothing.
RecvClose ==
  /\ ws = "open" /\ registered
  /\ registered' = FALSE
  /\ Close("other", queue)
  /\ UNCHANGED <<ws, hc, sweep, upVars, downVars, timedOut>>

-----------------------------------------------------------------------------
\* The WebSocket goes away.

WsLost ==
  /\ ws = "open"
  /\ ws' = "lost"
  /\ UNCHANGED <<registered, hc, sweep, upVars, downVars, taskVars, endVars, timedOut>>

\* Faulty variant: connections that are still dialling are passed over.
OnCloseRunningOnly ==
  /\ ws = "lost"
  /\ ws' = "closed"
  /\ sweep' = (registered /\ running)
  /\ registered' = FALSE
  /\ UNCHANGED <<hc, upVars, downVars, taskVars, endVars, timedOut>>

\* on_close: schedule a close() for each registered connection, forget them.
OnClose ==
  /\ ws = "lost"
  /\ ws' = "closed"
  /\ sweep' = registered
  /\ registered' = FALSE
  /\ UNCHANGED <<hc, upVars, downVars, taskVars, endVars, timedOut>>

SweepClose ==
  /\ sweep
  /\ sweep' = FALSE
  /\ Close("other", queue)
  /\ UNCHANGED <<ws, registered, hc, upVars, downVars, timedOut>>

-----------------------------------------------------------------------------
\* read_loop.

\* The finally block: the sentinel, then close(drain_queue=True).
ReadFinally ==
  \/ /\ HasRoom(queue)
     /\ Close("read", Append(queue, None))
  \/ /\ ~HasRoom(queue)
     /\ rl' = "putNone"
     /\ UNCHANGED <<readCancel, sl, queue, endVars>>

ReadStart ==
  /\ rl = "spawned" /\ ~readCancel
  /\ \/ /\ running
        /\ rl' = "reading"
        /\ UNCHANGED <<readCancel, sl, queue, endVars>>
     \/ /\ ~running
        /\ ReadFinally
  /\ UNCHANGED <<wsVars, upVars, downVars, timedOut>>

\* Faulty variant: a packet is dropped when the queue is full.
ReadDataDropping ==
  /\ rl = "reading" /\ ~readCancel /\ running /\ got < MaxDown
  /\ got' = got + 1
  /\ queue' = IF HasRoom(queue) THEN Append(queue, got') ELSE queue
  /\ UNCHANGED <<wsVars, upVars, sent, lock, frames, rl, readCancel, sl, endVars, timedOut>>

ReadData ==
  /\ rl = "reading" /\ ~readCancel /\ running /\ got < MaxDown
  /\ got' = got + 1
  /\ \/ /\ HasRoom(queue)
        /\ queue' = Append(queue, got')
        /\ UNCHANGED rl
     \/ /\ ~HasRoom(queue)
        /\ rl' = "putting"
        /\ UNCHANGED queue
  /\ UNCHANGED <<wsVars, upVars, sent, lock, frames, readCancel, sl, endVars, timedOut>>

\* The blocked put(data) finds room.
PutDone ==
  /\ rl = "putting" /\ ~readCancel /\ HasRoom(queue)
  /\ queue' = Append(queue, got)
  /\ rl' = "reading"
  /\ UNCHANGED <<wsVars, upVars, downVars, readCancel, sl, endVars, timedOut>>

\* read() returns b'' or raises.
ReadEnd ==
  /\ rl = "reading" /\ ~readCancel
  /\ ReadFinally
  /\ UNCHANGED <<wsVars, upVars, downVars, timedOut>>

\* The blocked put(None) finds room.
PutNoneDone ==
  /\ rl = "putNone" /\ ~readCancel /\ HasRoom(queue)
  /\ Close("read", Append(queue, None))
  /\ UNCHANGED <<wsVars, upVars, downVars, timedOut>>

\* Faulty variant: the loop swallows the cancellation and goes on.
ReadCancelledGoesOn ==
  /\ readCancel
  /\ readCancel' = FALSE
  /\ UNCHANGED <<wsVars, upVars, downVars, rl, queue, sl, endVars, timedOut>>

\* The cancellation arrives.  A task that never ran just ends; the put(None)
\* of the finally block swallows a cancellation but can block after one.
ReadCancelled ==
  /\ readCancel
  /\ readCancel' = FALSE
  /\ \/ /\ rl \in {"spawned", "putNone"}
        /\ rl' = "done"
        /\ UNCHANGED queue
     \/ /\ rl \in {"reading", "putting"} /\ HasRoom(queue)
        /\ rl' = "done"
        /\ queue' = Append(queue, None)
     \/ /\ rl \in {"reading", "putting"} /\ ~HasRoom(queue)
        /\ rl' = "putNone"
        /\ UNCHANGED queue
  /\ UNCHANGED <<wsVars, upVars, downVars, sl, endVars, timedOut>>

-----------------------------------------------------------------------------
\* send_loop and WebSocketHandler.send_data.

\* Faulty variant: close() cancels both tasks before it awaits either.
SendCancelPendingEarly == cl \in {"awaitRead", "awaitSend"} /\ closer # "send"

\* close() has cancelled the send task (it cannot cancel itself to effect).
SendCancelPending == cl = "awaitSend" /\ closer # "send"

SendReady(state) == sl = state /\ ~SendCancelPending

\* The sentinel ends the loop.
TakeNone ==
  /\ SendReady("getting") /\ queue # <<>> /\ Head(queue) = None
  /\ Close("send", Tail(queue))
  /\ UNCHANGED <<wsVars, upVars, downVars, timedOut>>

\* Faulty variant: send_data does not look the conn_id up under the lock.
TakeDataUnchecked ==
  /\ SendReady("getting") /\ queue # <<>> /\ Head(queue) # None
  /\ cl # "notify" /\ ws = "open"
  /\ lock' = TRUE
  /\ sent' = sent + 1
  /\ Emit(Frame("data", Head(queue)))
  /\ sl' = "sending"
  /\ queue' = Tail(queue)
  /\ UNCHANGED <<wsVars, upVars, got, rl, readCancel, endVars, timedOut>>

\* Under the send lock (not held by close_connection), a packet is sent, or
\* dropped because the connection is no longer registered, or the write raises
\* and the loop ends.
TakeData ==
  /\ SendReady("getting") /\ queue # <<>> /\ Head(queue) # None
  /\ cl # "notify"
  /\ lock' = TRUE
  /\ \/ /\ registered /\ ws = "open"
        /\ sent' = sent + 1
        /\ Emit(Frame("data", Head(queue)))
        /\ sl' = "sending"
        /\ queue' = Tail(queue)
        /\ UNCHANGED <<rl, readCancel, endVars>>
     \/ /\ ~registered
        /\ queue' = Tail(queue)
        /\ UNCHANGED <<sent, frames, rl, readCancel, sl, endVars>>
     \/ /\ registered /\ ws # "open"
        /\ Close("send", Tail(queue))
        /\ UNCHANGED <<sent, frames>>
  /\ UNCHANGED <<wsVars, upVars, got, timedOut>>

SendDone ==
  /\ SendReady("sending")
  /\ sl' = "getting"
  /\ UNCHANGED <<wsVars, upVars, downVars, rl, readCancel, queue, endVars, timedOut>>

SendFail ==
  /\ SendReady("sending") /\ ws # "open"
  /\ Close("send", queue)
  /\ UNCHANGED <<wsVars, upVars, downVars, timedOut>>

SendCancelled ==
  /\ SendCancelPending /\ Live(sl)
  /\ sl' = "done"
  /\ UNCHANGED <<wsVars, upVars, downVars, rl, readCancel, queue, endVars, timedOut>>

-----------------------------------------------------------------------------
\* The rest of close().

CloseReadDone ==
  /\ cl = "awaitRead" /\ rl = "done"
  /\ CloseFromSend(closer, queue)
  /\ UNCHANGED <<wsVars, upVars, downVars, rl, readCancel, sl, running, closing, closer, timedOut>>

CloseDrainTimeout ==
  /\ cl = "drain"
  /\ timedOut' = TRUE
  /\ cl' = "awaitSend"
  /\ UNCHANGED <<wsVars, upVars, downVars, taskVars, running, closing, closer, writer>>

\* Faulty variant: the cancelled send task is not awaited.
CloseSendUnawaited ==
  /\ cl \in {"drain", "awaitSend"}
  /\ writer' = "closed"
  /\ cl' = "waitClosed"
  /\ UNCHANGED <<wsVars, upVars, downVars, taskVars, running, closing, closer, timedOut>>

\* The send task is over (or is the closer itself): close the writer.
CloseSendDone ==
  /\ cl \in {"drain", "awaitSend"}
  /\ sl = "done" \/ closer = "send"
  /\ writer' = "closed"
  /\ cl' = "waitClosed"
  /\ UNCHANGED <<wsVars, upVars, downVars, taskVars, running, closing, closer, timedOut>>

\* close_connection returns: the loop that called close() ends with it.
CloseEnds ==
  /\ cl' = "done"
  /\ registered' = FALSE
  /\ lock' = FALSE
  /\ rl' = IF closer = "read" THEN "done" ELSE rl
  /\ sl' = IF closer = "send" THEN "done" ELSE sl

\* wait_closed() returns: close_connection takes the send lock and writes the
\* CLOSE frame, or the write raises and the rest follows at once.
CloseNotify ==
  /\ cl = "waitClosed" /\ ~stalled
  /\ sl # "sending"
  /\ \/ /\ ws = "open"
        /\ Emit(Frame("close", 0))
        /\ cl' = "notify"
        /\ lock' = TRUE
        /\ UNCHANGED <<registered, rl, sl>>
     \/ /\ ws # "open"
        /\ CloseEnds
        /\ UNCHANGED frames
  /\ UNCHANGED <<ws, hc, sweep, upVars, got, sent, readCancel, queue, running, closing,
                 closer, writer, timedOut>>

CloseNotified ==
  /\ cl = "notify"
  /\ CloseEnds
  /\ UNCHANGED <<ws, hc, sweep, upVars, got, sent, frames, readCancel, queue, running,
                 closing, closer, writer, timedOut>>

-----------------------------------------------------------------------------
\* The target's side of the writer.

TargetStalls ==
  /\ writer = "open" /\ written # <<>> /\ ~stalled
  /\ stalled' = TRUE
  /\ UNCHANGED <<wsVars, connected, early, written, upSent, draining, downVars, taskVars,
                 endVars, timedOut>>

TargetResumes ==
  /\ stalled
  /\ stalled' = FALSE
  /\ UNCHANGED <<wsVars, connected, early, written, upSent, draining, downVars, taskVars,
                 endVars, timedOut>>

-----------------------------------------------------------------------------
ConnectNext == RecvConnectRefused \/ RecvConnect \/ DialFail \/ DialOk \/ FlushNext \/ FlushFail
ClientNext  == RecvData \/ DrainOk \/ DrainFail \/ RecvClose \/ WsLost \/ OnClose \/ SweepClose
ReadNext    == ReadStart \/ ReadData \/ PutDone \/ ReadEnd \/ PutNoneDone \/ ReadCancelled
SendNext    == TakeNone \/ TakeData \/ SendDone \/ SendFail \/ SendCancelled
CloseNext   == CloseReadDone \/ CloseDrainTimeout \/ CloseSendDone \/ CloseNotify \/ CloseNotified
TargetNext  == TargetStalls \/ TargetResumes

Next == ConnectNext \/ ClientNext \/ ReadNext \/ SendNext \/ CloseNext \/ TargetNext

Spec == Init /\ [][Next]_vars

\* A ready task runs.  Dialling and flushing end because both awaits have the
\* 30 s timeout; a frame write ends because tornado either flushes it or finds the
\* WebSocket lost.  Nothing is assumed of the client, the target or the network.
Fairness ==
  /\ WF_vars(DialFail \/ DialOk)
  /\ WF_vars(FlushNext \/ FlushFail)
  /\ WF_vars(DrainOk \/ DrainFail)
  /\ WF_vars(OnClose)
  /\ WF_vars(SweepClose)
  /\ WF_vars(ReadStart \/ PutDone \/ PutNoneDone \/ ReadCancelled)
  /\ WF_vars(SendNext)
  /\ WF_vars(CloseNext)

FairSpec == Spec /\ Fairness

-----------------------------------------------------------------------------
\* Properties.

Told(type) == \E i \in DOMAIN frames : frames[i].type = type

\* The stream the client sees.  DATA frames carry 1, 2, 3, ... whoever closes
\* the connection, whatever is cancelled, dropped or raised on the way: the
\* send_loop is the only task that takes packets off the queue.
DownstreamInOrder ==
  \A i \in DOMAIN frames : frames[i].type = "data" =>
    /\ frames[i].n >= 1
    /\ frames[i].n > 1 => \E j \in 1..(i - 1) : frames[j] = Frame("data", frames[i].n - 1)
    /\ \A j \in 1..(i - 1) : frames[j].type = "data" => frames[j].n < frames[i].n

\* After the CLOSE frame the client gets no DATA for the conn_id, and no second
\* CLOSE: close_connection runs after the send task is over (or is the closer),
\* once, whichever of the client, the read loop, the send loop, a failed write
\* or on_close asks for the end.
CloseIsLast ==
  \A i, j \in DOMAIN frames :
    i < j /\ frames[i].type = "close" => frames[j].type \notin {"data", "close"}

\* No packet overtakes the answer to the CONNECT: connect() returns and the
\* success frame is written without a suspension after the loops are created.
AnswerBeforeData ==
  \A j \in DOMAIN frames : frames[j].type = "data" =>
    \E i \in 1..(j - 1) : frames[i].type = "ok"

\* When the target ends the stream, all it sent is written before the CLOSE,
\* unless the client left first or the 30 s drain timeout expired: the promise
\* of the comment on the draining branch of close().
DrainedBeforeClose ==
  (closer = "read" /\ cl \in {"waitClosed", "notify"} /\ registered /\ ws = "open" /\ ~timedOut)
    => sent = got

\* While the connection is healthy everything the client sent is written to the
\* target exactly once: the early buffer and the direct path miss nothing.
UpstreamComplete ==
  (hc = "done" /\ registered /\ running) =>
    /\ Len(written) = upSent
    /\ \A n \in 1..upSent : \E i \in DOMAIN written : written[i] = n

\* The send lock never makes anybody wait: when close_connection asks for it no
\* send_data is suspended inside it, and while close_connection holds it the
\* send loop has no packet to send.
LockIsFree ==
  /\ cl = "waitClosed" => sl # "sending"
  /\ cl = "notify" => ~(sl = "getting" /\ queue # <<>> /\ Head(queue) # None)

\* A finished close() leaves neither a dictionary entry nor a lock behind, and
\* no task of the connection can create the lock again.
NothingLeftBehind == cl = "done" => ~registered /\ ~lock

\* A socket to the target is open for a registered connection, or its close() is
\* scheduled or under way: no order of CLOSE, loss of the WebSocket and failures
\* leaves one behind.  There are two exceptions: a close() that came during the dial
\* has used up the _closing guard and found nothing to clean up, and when the flush
\* of the early data fails connect() raises before it starts the loops.
UnderClose == sweep \/ cl \notin {"none", "done"}
ClosedTooEarly == closing /\ cl = "none"
FlushFailed == hc = "done" /\ rl = "none"
OpenTargetIsOwned ==
  hc = "done" /\ writer = "open" => registered \/ UnderClose \/ ClosedTooEarly \/ FlushFailed

\* The deadlock of the two loops: put(None) blocks on a full queue in the
\* finally block of the cancelled read_loop, which close() awaits, while the send
\* loop has ended or is itself the closer.
Wedged ==
  /\ cl = "awaitRead"
  /\ rl = "putNone" /\ ~readCancel /\ ~HasRoom(queue)
  /\ sl \in {"closing", "done"}

\* The two loops deadlock only once the WebSocket is gone; with a live client
\* the send loop keeps taking packets and the sentinel finds its place.
WedgedOnlyAfterLoss == Wedged => ws # "open"

\* A close() that got past the guard runs to its end unless the loops deadlock
\* or the target stops reading (wait_closed() has no timeout).
CloseFinishes ==
  (cl # "none") ~> (cl = "done" \/ Wedged \/ stalled)

\* Action property: the connection is never re-registered, and after it is
\* unregistered nothing but CLOSE and the answer to the CONNECT is written.
SilentWhenUnregistered ==
  [][(hc # "idle" /\ ~registered) =>
       /\ ~registered'
       /\ Len(frames') > Len(frames) => frames'[Len(frames')].type # "data"]_vars

\* The abstract stream, by what the client has been told so far.
Stream == INSTANCE RelayStream WITH
  reply <- IF Told("ok") THEN "ok" ELSE IF Told("fail") THEN "fail" ELSE "none",
  source <- got,
  delivered <- sent,
  shut <- Told("close")

ImplementsStream == Stream!Spec

-----------------------------------------------------------------------------
\* What comments of the repository say and the code does not do.

\* "Keeps the order of the messages": DATA reaches the target in the order sent.
UpstreamInOrder ==
  \A i, j \in DOMAIN written : i < j => written[i] < written[j]
==============================================================================
