------------------------ MODULE ClientConnectionProofs ------------------------
(***************************************************************************)
(* The safety properties of ClientConnection, for every capacity of the    *)
(* send queue and any number of chunks and messages.                       *)
(*                                                                         *)
(* None of them is inductive.  IInv adds which close() call is under way   *)
(* and who runs it (CloseInv), what each task can have left behind at each *)
(* stage of the handler (StageInv), what is in the queue, in the adapter   *)
(* and on the WebSocket, which together are one stream (WireInv, PipeInv,  *)
(* QueueInv), what the server can know (KnowInv), and what the local       *)
(* client has been sent (DownInv).                                         *)
(***************************************************************************)
EXTENDS ClientConnection, TLAPS

Before    == {"handshake", "sendConnect", "waiting", "replying", "replyFail"}
Closing   == {"awaitMonitor", "awaitSend", "sendingClose", "lingering"}
PastSend  == {"sendingClose", "lingering", "done"}
ConnectMsg == Msg("connect", 0)
CloseMsg   == Msg("close", 0)

\* There is one effective close() call, its caller waits in it, and the local
\* socket is as far as the call.
CloseInv ==
  /\ running <=> cl = "none"
  /\ running <=> closer = "none"
  /\ marked <=> filters /\ ~running
  /\ h = "closing" <=> closer = "handler" /\ cl \in Closing
  /\ r = "closing" <=> closer = "receiver" /\ cl \in Closing
  /\ m = "closing" <=> closer = "monitor" /\ cl \in Closing
  /\ cu = "closing" <=> closer = "cleanup" /\ cl \in Closing
  /\ sock = CASE cl = "done" -> "closed" [] cl = "lingering" -> "shut" [] OTHER -> "open"

\* The loops exist once the handler has replied; a sentinel is the last thing the
\* handler leaves in the queue, and the send loop ends early only with the WebSocket.
StageInv ==
  /\ h \in Before => sl = "none" /\ m = "none" /\ queue = <<>> /\ up = 0
  /\ h \in {"recv", "put", "putNone"} => sl # "none"
  /\ h = "put" => up # 0
  /\ NoSendLoopLeft
  /\ SendLoopAlive
  /\ sweep => ~wsUp
  /\ \A i \in 1..Len(queue) : queue[i] = None =>
       ~running /\ h \in {"closing", "sleep", "done"} /\ i = Len(queue)

\* What is on the WebSocket: CONNECT, the chunks in order, CLOSE.
InStream(x, i) == x = IF i = 1 THEN ConnectMsg ELSE Msg("data", i - 1)
WireInv ==
  \A i \in 1..Len(wire) :
    \/ InStream(wire[i], i)
    \/ i = Len(wire) /\ wire[i] = CloseMsg /\ ~filters /\ cl \in PastSend

\* What is in the adapter continues the WebSocket as long as it will be sent.
Flows == wsUp /\ ~marked
Passed == Len(wire) + Len(adapterQ)
PipeInv ==
  /\ ~filters => adapterQ = <<>>
  /\ Flows => \A j \in 1..Len(adapterQ) : InStream(adapterQ[j], Len(wire) + j)
  /\ h = "handshake" /\ wsUp => running /\ r = "idle" /\ Passed = 0
  /\ h \in {"sendConnect", "waiting", "replying"} /\ wsUp /\ running => Passed = 1

\* The queue continues the adapter, and the reader continues the queue.
QueueInv == Flows /\ Live(sl) =>
  /\ Passed >= 1
  /\ \A i \in 1..Len(queue) : queue[i] # None => queue[i] = Passed - 1 + i
  /\ h = "recv" => up = Passed - 1 + Len(queue)
  /\ h = "put" => up = Passed + Len(queue)

\* How the server learns of the end, depending on the close() call.
KnowInv ==
  /\ event # "none" => srvReply = event
  /\ ~running /\ ~notify => srvShut \/ srvReply = "fail" \/ ~wsUp
  /\ notify /\ cl \in PastSend /\ ~filters /\ wsUp =>
       \E i \in 1..Len(wire) : wire[i].type = "close"

\* The handler replies once; the data so far have the numbers up to down.
DownInv ==
  /\ h \in {"handshake", "sendConnect", "waiting"} =>
       \A i \in 1..Len(toClient) : toClient[i].type = "data"
  /\ \A i \in 1..Len(toClient) : toClient[i].type = "data" => toClient[i].n <= down
  /\ DownloadInOrder

ControlInv == TypeOK /\ CloseInv /\ StageInv
IInv == ControlInv /\ WireInv /\ PipeInv /\ QueueInv /\ KnowInv /\ DownInv

-----------------------------------------------------------------------------
\* Sequences.

LEMMA AppendIs ==
  ASSUME NEW S, NEW q \in Seq(S), NEW e \in S
  PROVE  /\ Append(q, e) \in Seq(S) /\ Len(q) \in Nat /\ Len(Append(q, e)) = Len(q) + 1
         /\ \A i \in 1..Len(q) : Append(q, e)[i] = q[i]
         /\ Append(q, e)[Len(q) + 1] = e
OBVIOUS

LEMMA TailIs ==
  ASSUME NEW S, NEW q \in Seq(S), q # <<>>
  PROVE  /\ Tail(q) \in Seq(S) /\ Len(q) \in Nat \ {0} /\ Len(Tail(q)) = Len(q) - 1
         /\ \A i \in 1..Len(q) - 1 : Tail(q)[i] = q[i + 1]
         /\ Head(q) = q[1] /\ Head(q) \in S
OBVIOUS

-----------------------------------------------------------------------------
\* Control.

HandlerPlaces == {"handshake", "sendConnect", "waiting", "replying", "replyFail", "recv", "put",
                  "putNone", "closing", "sleep", "done"}
CloserTypes ==
  /\ filters \in BOOLEAN /\ running \in BOOLEAN /\ marked \in BOOLEAN /\ notify \in BOOLEAN /\ sweep \in BOOLEAN
  /\ sock \in {"open", "shut", "closed"}
  /\ h \in HandlerPlaces
  /\ m \in {"none", "waiting", "closing", "done"}
  /\ r \in {"idle", "writing", "closing"}
  /\ cu \in {"none", "closing", "done"}
  /\ cl \in {"none", "awaitMonitor", "awaitSend", "sendingClose", "lingering", "done"}
  /\ closer \in {"none", "handler", "receiver", "monitor", "cleanup"}
  /\ adapterQ \in Seq(Messages) /\ wire \in Seq(Messages)

Callers == {"handler", "receiver", "monitor", "cleanup"}

\* The part of ControlInv that a close() call touches.
CloseGroup == CloserTypes /\ CloseInv /\ NoSendLoopLeft /\ (sweep => ~wsUp)

LEMMA SendsAreMessages ==
  ASSUME NEW x \in Messages, NEW closed, WsSend(x, closed), adapterQ \in Seq(Messages), wire \in Seq(Messages)
  PROVE  adapterQ' \in Seq(Messages) /\ wire' \in Seq(Messages) /\ sweep' = sweep
BY DEF WsSend

LEMMA CloseFromSendIs ==
  ASSUME NEW tell \in BOOLEAN, CloseFromSend(tell), CloserTypes, sweep => ~wsUp, UNCHANGED <<sl, wsUp>>
  PROVE  /\ \/ cl' = "awaitSend" /\ sock' = sock
            \/ cl' = "sendingClose" /\ sock' = sock /\ ~Live(sl)
            \/ cl' = "lingering" /\ sock' = "shut" /\ ~Live(sl)
         /\ adapterQ' \in Seq(Messages) /\ wire' \in Seq(Messages)
         /\ sweep' \in BOOLEAN /\ (sweep' => ~wsUp)
<1>1. Msg("close", 0) \in Messages BY DEF Msg, Messages
<1>2. CASE Live(sl) BY <1>2 DEF CloseFromSend, CloserTypes
<1>3. CASE ~Live(sl) /\ ~tell BY <1>3 DEF CloseFromSend, CloseFromNotify, CloserTypes
<1>4. CASE ~Live(sl) /\ tell /\ wsUp
  BY <1>1, <1>4, SendsAreMessages DEF CloseFromSend, CloseFromNotify, CloserTypes
<1>5. CASE ~Live(sl) /\ tell /\ ~wsUp
  BY <1>5 DEF CloseFromSend, CloseFromNotify, CloserTypes, WsSendFails
<1> QED BY <1>2, <1>3, <1>4, <1>5

LEMMA CloseBeginsKept ==
  ASSUME CloseGroup, NEW who \in Callers, NEW tell \in BOOLEAN, CloseBegins(who, tell),
         UNCHANGED <<filters, sl, wsUp>>
  PROVE  CloseGroup'
<1>1. /\ running /\ running' = FALSE /\ marked' = filters /\ closer' = who /\ notify' = tell
      /\ CallerAt(who, TRUE)
  BY DEF CloseBegins
<1>2. /\ h' = IF who = "handler" THEN "closing" ELSE h
      /\ r' = IF who = "receiver" THEN "closing" ELSE r
      /\ m' = IF who = "monitor" THEN "closing" ELSE m
      /\ cu' = IF who = "cleanup" THEN "closing" ELSE cu
  BY <1>1 DEF CallerAt
<1>3. /\ cl = "none" /\ sock = "open" /\ h # "closing" /\ r # "closing" /\ m # "closing" /\ cu # "closing"
  BY <1>1 DEF CloseGroup, CloseInv, Closing
<1>4. /\ \/ cl' = "awaitMonitor" /\ sock' = sock
         \/ cl' = "awaitSend" /\ sock' = sock
         \/ cl' = "sendingClose" /\ sock' = sock /\ ~Live(sl)
         \/ cl' = "lingering" /\ sock' = "shut" /\ ~Live(sl)
      /\ adapterQ' \in Seq(Messages) /\ wire' \in Seq(Messages)
      /\ sweep' \in BOOLEAN /\ (sweep' => ~wsUp)
  <2>1. CASE Live(m) BY <2>1 DEF CloseBegins, CloseGroup, CloserTypes
  <2>2. CASE ~Live(m) BY <2>2, CloseFromSendIs DEF CloseBegins, CloseGroup
  <2> QED BY <2>1, <2>2
<1>5. CloserTypes'
  BY <1>1, <1>2, <1>3, <1>4 DEF CloseGroup, CloserTypes, HandlerPlaces, Callers
<1>6. CloseInv'
  BY <1>1, <1>2, <1>3, <1>4 DEF CloseGroup, CloseInv, Closing, Callers
<1>7. NoSendLoopLeft' BY <1>4 DEF NoSendLoopLeft, Live
<1> QED BY <1>4, <1>5, <1>6, <1>7 DEF CloseGroup

\* A close() call by a task that is not in one keeps the group.
LEMMA CloseKept ==
  ASSUME CloseGroup, NEW who \in Callers, NEW tell \in BOOLEAN, Close(who, tell),
         UNCHANGED <<filters, sl, wsUp>>,
         who = "handler" => h # "closing", who = "receiver" => r # "closing",
         who = "monitor" => m # "closing", who = "cleanup" => cu # "closing"
  PROVE  /\ CloseGroup' /\ ~running'
         /\ h' \in IF who = "handler" THEN {"closing", "sleep"} ELSE {h}
         /\ m' \in IF who = "monitor" THEN {"closing", "done"} ELSE {m}
<1>1. CASE CloseReturnsAtOnce(who)
  <2>1. /\ h' = IF who = "handler" THEN "sleep" ELSE h
        /\ r' = IF who = "receiver" THEN "idle" ELSE r
        /\ m' = IF who = "monitor" THEN "done" ELSE m
        /\ cu' = IF who = "cleanup" THEN "done" ELSE cu
        /\ ~running /\ UNCHANGED <<sock, sweep, adapterQ, wire, closeVars>>
    BY <1>1 DEF CloseReturnsAtOnce, CallerAt
  <2>2. CloserTypes' BY <2>1 DEF CloseGroup, CloserTypes, HandlerPlaces, closeVars
  <2>3. CloseInv' BY <2>1 DEF CloseGroup, CloseInv, closeVars, Closing
  <2> QED BY <2>1, <2>2, <2>3 DEF CloseGroup, NoSendLoopLeft, closeVars
<1>2. CASE CloseBegins(who, tell)
  <2>1. ~running' /\ CallerAt(who, TRUE) BY <1>2 DEF CloseBegins
  <2> QED BY <1>2, <2>1, CloseBeginsKept DEF CallerAt
<1> QED BY <1>1, <1>2 DEF Close

DataTypes ==
  /\ mode \in {"optimistic", "wait"} /\ event \in {"none", "ok", "fail"}
  /\ inDict \in BOOLEAN /\ wsUp \in BOOLEAN
  /\ toClient \in Seq(Writes)
  /\ up \in 0..MaxUp /\ queue \in Seq(0..MaxUp) /\ Len(queue) <= QueueSize
  /\ srvReply \in {"none", "ok", "fail"} /\ srvShut \in BOOLEAN /\ down \in 0..MaxDown
  /\ sl \in {"none", "getting", "sending", "done"}

Sentinels == \A i \in 1..Len(queue) : queue[i] = None =>
  ~running /\ h \in {"closing", "sleep", "done"} /\ i = Len(queue)

\* The rest of ControlInv.
TaskGroup ==
  /\ h \in Before => sl = "none" /\ m = "none" /\ queue = <<>> /\ up = 0
  /\ h \in {"recv", "put", "putNone"} => sl # "none"
  /\ h = "put" => up # 0
  /\ SendLoopAlive
  /\ Sentinels

LEMMA ControlParts == ControlInv <=> CloseGroup /\ DataTypes /\ TaskGroup
BY DEF ControlInv, CloseGroup, DataTypes, TaskGroup, TypeOK, CloserTypes, StageInv, Sentinels,
       HandlerPlaces

LEMMA ControlPartsPrimed == ControlInv' <=> (CloseGroup /\ DataTypes /\ TaskGroup)'
BY DEF ControlInv, CloseGroup, DataTypes, TaskGroup, TypeOK, CloserTypes, StageInv, Sentinels,
       HandlerPlaces

LEMMA InitControl == Init => ControlInv
<1> SUFFICES ASSUME Init PROVE ControlInv OBVIOUS
<1>1. CloserTypes
  <2>1. <<>> \in Seq(Messages) OBVIOUS
  <2> QED BY <2>1 DEF Init, CloserTypes, HandlerPlaces
<1>2. CloseInv BY DEF Init, CloseInv, Closing
<1>3. NoSendLoopLeft BY DEF Init, NoSendLoopLeft
<1>4. DataTypes
  <2>1. <<>> \in Seq(Writes) /\ <<>> \in Seq(0..MaxUp) OBVIOUS
  <2>2. Len(<<>>) <= QueueSize /\ 0 \in 0..MaxUp /\ 0 \in 0..MaxDown BY QueueSizeAssumption, BoundsAssumption
  <2> QED BY <2>1, <2>2 DEF Init, DataTypes
<1>5. TaskGroup BY DEF Init, TaskGroup, Before, SendLoopAlive, Sentinels
<1>6. ~sweep BY DEF Init
<1> QED BY <1>1, <1>2, <1>3, <1>4, <1>5, <1>6, ControlParts DEF CloseGroup

\* A reply or a chunk for the local client.
LEMMA WriteKept ==
  ASSUME NEW type \in {"ok", "fail", "data"}, NEW n \in Nat, Write(type, n), DataTypes
  PROVE  toClient' \in Seq(Writes)
<1>1. Msg(type, n) \in Writes BY DEF Msg, Writes
<1> QED BY <1>1 DEF Write, DataTypes

\* Nothing changes but the place of a handler that is in no close() call.
LEMMA HandlerMoves ==
  ASSUME CloseGroup, h \notin {"closing"}, h' \in HandlerPlaces \ {"closing"},
         UNCHANGED <<filters, wsVars, sock, m, r, cu, sl, closeVars>>
  PROVE  CloseGroup'
BY DEF CloseGroup, CloserTypes, CloseInv, NoSendLoopLeft, wsVars, closeVars

\* The sentinel is the handler's last message.
LEMMA SentinelPut ==
  ASSUME queue \in Seq(0..MaxUp), NEW q \in Seq(0..MaxUp), HasRoom(q),
         \A i \in 1..Len(q) : q[i] # None,
         queue' = Append(q, None), ~running', h' \in {"closing", "sleep", "done"}
  PROVE  queue' \in Seq(0..MaxUp) /\ Len(queue') <= QueueSize /\ Sentinels'
<1>1. None \in 0..MaxUp BY BoundsAssumption DEF None
<1> QED BY <1>1, AppendIs, QueueSizeAssumption DEF HasRoom, Sentinels

\* The end of forward_data, with the chunks in q.
LEMMA FinishKept ==
  ASSUME ControlInv, h \in {"recv", "put"}, NEW q \in Seq(0..MaxUp), Len(q) <= QueueSize,
         \A i \in 1..Len(q) : q[i] # None,
         Finish(q), up' \in 0..MaxUp,
         UNCHANGED <<mode, filters, event, inDict, toClient, wsUp, serverVars, sl>>
  PROVE  ControlInv'
<1>1. CloseGroup /\ DataTypes /\ TaskGroup BY ControlParts
<1>2. CASE HasRoom(q) /\ queue' = Append(q, None) /\ Close("handler", TRUE)
  <2>1. CloseGroup' /\ ~running' /\ h' \in {"closing", "sleep"} /\ m' = m
    BY <1>1, <1>2, CloseKept DEF Callers
  <2>2. queue' \in Seq(0..MaxUp) /\ Len(queue') <= QueueSize /\ Sentinels'
    BY <1>1, <1>2, <2>1, SentinelPut DEF DataTypes
  <2>3. DataTypes' BY <1>1, <2>2 DEF DataTypes, serverVars
  <2>4. TaskGroup' BY <1>1, <2>1, <2>2 DEF TaskGroup, Before, SendLoopAlive
  <2> QED BY <2>1, <2>3, <2>4, ControlPartsPrimed
<1>3. CASE /\ queue' = q /\ h' = "putNone"
           /\ UNCHANGED <<sock, sweep, adapterQ, wire, m, r, cu, closeVars>>
  <2>1. CloseGroup' BY <1>1, <1>3, HandlerMoves DEF HandlerPlaces, wsVars
  <2>2. DataTypes' BY <1>1, <1>3 DEF DataTypes, serverVars
  <2>3. TaskGroup' BY <1>1, <1>3 DEF TaskGroup, Before, SendLoopAlive, Sentinels, closeVars
  <2> QED BY <2>1, <2>2, <2>3, ControlPartsPrimed
<1> QED BY <1>2, <1>3 DEF Finish

LEMMA HandlerKeepsControl == ASSUME ControlInv, HandlerNext PROVE ControlInv'
<1>0. CloseGroup /\ DataTypes /\ TaskGroup BY ControlParts
<1>1. CASE HandshakeFails \/ Refused
  <2>1. /\ h \in Before /\ Close("handler", TRUE)
        /\ UNCHANGED <<mode, filters, event, inDict, toClient, up, queue, wsUp, serverVars, sl>>
    BY <1>1 DEF HandshakeFails, Refused, Before
  <2>2. CloseGroup' /\ ~running' /\ h' \in {"closing", "sleep"} /\ m' = m
    BY <1>0, <2>1, CloseKept DEF Before, Callers
  <2>3. DataTypes' BY <1>0, <2>1 DEF DataTypes, serverVars
  <2>4. TaskGroup' BY <1>0, <2>1, <2>2 DEF TaskGroup, Before, SendLoopAlive, Sentinels
  <2> QED BY <2>2, <2>3, <2>4, ControlPartsPrimed
<1>2. CASE Blocked \/ ConnectSent \/ Answered \/ AnswerTimeout
  <2>1. /\ h \in Before /\ h' \in Before
        /\ UNCHANGED <<mode, filters, event, inDict, sock, up, queue, wsVars, serverVars, sl, m, r, cu, closeVars>>
    BY <1>2 DEF Blocked, ConnectSent, Answered, AnswerTimeout, Before
  <2>2. CloseGroup' BY <1>0, <2>1, HandlerMoves DEF Before, HandlerPlaces
  <2>3. toClient' \in Seq(Writes)
    BY <1>0, <1>2, WriteKept DEF Blocked, ConnectSent, Answered, AnswerTimeout, DataTypes
  <2>4. DataTypes' BY <1>0, <2>1, <2>3 DEF DataTypes, serverVars, wsVars
  <2>5. TaskGroup' BY <1>0, <2>1 DEF TaskGroup, Before, SendLoopAlive, Sentinels, wsVars, closeVars
  <2> QED BY <2>2, <2>4, <2>5, ControlPartsPrimed
<1>3. CASE SendConnect
  <2>1. CASE wsUp /\ WsSend(Msg("connect", 0), marked)
             /\ h' = "sendConnect" /\ UNCHANGED <<sock, m, r, cu, closeVars>>
    <3>1. Msg("connect", 0) \in Messages BY DEF Msg, Messages
    <3>2. adapterQ' \in Seq(Messages) /\ wire' \in Seq(Messages) /\ sweep' = sweep
      BY <1>0, <2>1, <3>1, SendsAreMessages DEF CloseGroup, CloserTypes
    <3>3. CloseGroup'
      BY <1>0, <1>3, <2>1, <3>2
         DEF SendConnect, CloseGroup, CloserTypes, CloseInv, NoSendLoopLeft, HandlerPlaces, closeVars
    <3>4. DataTypes' BY <1>0, <1>3 DEF SendConnect, DataTypes, serverVars
    <3>5. TaskGroup'
      BY <1>0, <1>3, <2>1 DEF SendConnect, TaskGroup, Before, SendLoopAlive, Sentinels, closeVars
    <3> QED BY <3>3, <3>4, <3>5, ControlPartsPrimed
  <2>2. CASE Close("handler", TRUE)
    <3>1. CloseGroup' /\ ~running' /\ h' \in {"closing", "sleep"} /\ m' = m
      BY <1>0, <1>3, <2>2, CloseKept DEF SendConnect, Callers
    <3>2. DataTypes' BY <1>0, <1>3 DEF SendConnect, DataTypes, serverVars
    <3>3. TaskGroup'
      BY <1>0, <1>3, <3>1 DEF SendConnect, TaskGroup, Before, SendLoopAlive, Sentinels
    <3> QED BY <3>1, <3>2, <3>3, ControlPartsPrimed
  <2> QED BY <1>3, <2>1, <2>2 DEF SendConnect
<1>4. CASE Replied
  <2>1. queue = <<>> /\ up = 0 /\ sl = "none" /\ m = "none" BY <1>0, <1>4 DEF Replied, TaskGroup, Before
  <2>2. CloseGroup'
    <3>1. /\ h' \in {"recv", "sleep"} /\ m' \in {"none", "waiting"} /\ (~running => sl' = "done")
          /\ UNCHANGED <<filters, sock, wsUp, sweep, adapterQ, wire, r, cu, closeVars>>
      BY <1>4, <2>1 DEF Replied, wsVars, localVars
    <3>2. CloserTypes' BY <1>0, <3>1 DEF CloseGroup, CloserTypes, HandlerPlaces, closeVars
    <3>3. CloseInv' BY <1>0, <1>4, <2>1, <3>1 DEF Replied, CloseGroup, CloseInv, closeVars
    <3>4. NoSendLoopLeft' BY <1>0, <3>1 DEF CloseGroup, CloseInv, NoSendLoopLeft, Live, closeVars
    <3> QED BY <1>0, <3>1, <3>2, <3>3, <3>4 DEF CloseGroup, closeVars
  <2>3. CASE running
    <3>1. DataTypes' BY <1>0, <1>4, <2>3 DEF Replied, DataTypes, serverVars, wsVars, localVars
    <3>2. TaskGroup'
      BY <1>0, <1>4, <2>1, <2>3 DEF Replied, TaskGroup, Before, SendLoopAlive, Sentinels, closeVars
    <3> QED BY <2>2, <3>1, <3>2, ControlPartsPrimed
  <2>4. CASE ~running
    <3>1. HasRoom(queue) /\ queue \in Seq(0..MaxUp) /\ \A i \in 1..Len(queue) : queue[i] # None
      BY <1>0, <2>1, QueueSizeAssumption DEF HasRoom, DataTypes
    <3>2. queue' = Append(queue, None) /\ h' = "sleep" /\ sl' = "done" /\ ~running'
      BY <1>4, <2>4 DEF Replied, closeVars
    <3>3. queue' \in Seq(0..MaxUp) /\ Len(queue') <= QueueSize /\ Sentinels'
      BY <3>1, <3>2, SentinelPut
    <3>4. DataTypes' BY <1>0, <1>4, <3>2, <3>3 DEF Replied, DataTypes, serverVars, wsVars, localVars
    <3>5. TaskGroup' BY <3>2, <3>3 DEF TaskGroup, Before, SendLoopAlive
    <3> QED BY <2>2, <3>4, <3>5, ControlPartsPrimed
  <2> QED BY <2>3, <2>4
<1>5. CASE LocalData \/ PutDone
  <2> DEFINE n == IF h = "recv" THEN up + 1 ELSE up
             q == Append(queue, n)
  <2>1. /\ h \in {"recv", "put"} /\ queue \in Seq(0..MaxUp) /\ Len(queue) <= QueueSize
        /\ \A i \in 1..Len(queue) : queue[i] # None
        /\ up \in 0..MaxUp /\ up' \in 0..MaxUp /\ up' = n /\ n # 0
        /\ UNCHANGED <<mode, filters, event, inDict, toClient, wsUp, serverVars, sl>>
    BY <1>0, <1>5, BoundsAssumption DEF LocalData, PutDone, TaskGroup, DataTypes, Sentinels
  <2> HIDE DEF n
  <2>2. ASSUME HasRoom(queue)
        PROVE  /\ q \in Seq(0..MaxUp) /\ Len(q) <= QueueSize
               /\ \A i \in 1..Len(q) : q[i] # None
    BY <2>1, <2>2, AppendIs, QueueSizeAssumption DEF HasRoom, None
  <2>3. \/ /\ HasRoom(queue) /\ running /\ queue' = q /\ h' = "recv"
           /\ UNCHANGED <<sock, sweep, adapterQ, wire, m, r, cu, closeVars>>
        \/ HasRoom(queue) /\ Finish(q)
        \/ /\ ~HasRoom(queue) /\ h' = "put"
           /\ UNCHANGED <<sock, queue, sweep, adapterQ, wire, m, r, cu, closeVars>>
    BY <1>5, <2>1 DEF LocalData, PutDone, n
  <2>4. CASE HasRoom(queue) /\ Finish(q)
    BY <2>1, <2>2, <2>4, FinishKept
  <2>5. CASE /\ HasRoom(queue) /\ running /\ queue' = q /\ h' = "recv"
             /\ UNCHANGED <<sock, sweep, adapterQ, wire, m, r, cu, closeVars>>
    <3>1. CloseGroup' BY <1>0, <2>1, <2>5, HandlerMoves DEF HandlerPlaces, wsVars
    <3>2. DataTypes' BY <1>0, <2>1, <2>2, <2>5 DEF DataTypes, serverVars
    <3>3. TaskGroup'
      BY <1>0, <2>1, <2>2, <2>5 DEF TaskGroup, Before, SendLoopAlive, Sentinels, closeVars
    <3> QED BY <3>1, <3>2, <3>3, ControlPartsPrimed
  <2>6. CASE /\ h' = "put"
             /\ UNCHANGED <<sock, queue, sweep, adapterQ, wire, m, r, cu, closeVars>>
    <3>1. CloseGroup' BY <1>0, <2>1, <2>6, HandlerMoves DEF HandlerPlaces, wsVars
    <3>2. DataTypes' BY <1>0, <2>1, <2>6 DEF DataTypes, serverVars
    <3>3. TaskGroup'
      BY <1>0, <2>1, <2>6 DEF TaskGroup, Before, SendLoopAlive, Sentinels, closeVars
    <3> QED BY <3>1, <3>2, <3>3, ControlPartsPrimed
  <2> QED BY <2>3, <2>4, <2>5, <2>6
<1>6. CASE LocalEnd
  <2>1. /\ h = "recv" /\ queue \in Seq(0..MaxUp) /\ Len(queue) <= QueueSize
        /\ \A i \in 1..Len(queue) : queue[i] # None
        /\ up' \in 0..MaxUp /\ Finish(queue)
        /\ UNCHANGED <<mode, filters, event, inDict, toClient, wsUp, serverVars, sl>>
    BY <1>0, <1>6 DEF LocalEnd, DataTypes, TaskGroup, Sentinels
  <2> QED BY <2>1, FinishKept
<1>7. CASE PutNoneDone
  <2>1. CloseGroup' /\ ~running' /\ h' \in {"closing", "sleep"} /\ m' = m
    BY <1>0, <1>7, CloseKept DEF PutNoneDone, Callers
  <2>2. \A i \in 1..Len(queue) : queue[i] # None
    BY <1>0, <1>7 DEF PutNoneDone, TaskGroup, Sentinels
  <2>3. queue' \in Seq(0..MaxUp) /\ Len(queue') <= QueueSize /\ Sentinels'
    BY <1>0, <1>7, <2>1, <2>2, SentinelPut DEF PutNoneDone, DataTypes
  <2>4. DataTypes' BY <1>0, <1>7, <2>3 DEF PutNoneDone, DataTypes, serverVars
  <2>5. TaskGroup' BY <1>0, <1>7, <2>1, <2>3 DEF PutNoneDone, TaskGroup, Before, SendLoopAlive
  <2> QED BY <2>1, <2>4, <2>5, ControlPartsPrimed
<1>8. CASE Forget
  <2>1. CloseGroup' BY <1>0, <1>8, HandlerMoves DEF Forget, HandlerPlaces, wsVars, localVars
  <2>2. DataTypes' BY <1>0, <1>8 DEF Forget, DataTypes, serverVars, wsVars, localVars
  <2>3. TaskGroup'
    BY <1>0, <1>8 DEF Forget, TaskGroup, Before, SendLoopAlive, Sentinels, closeVars, wsVars, localVars
  <2> QED BY <2>1, <2>2, <2>3, ControlPartsPrimed
<1> QED BY <1>1, <1>2, <1>3, <1>4, <1>5, <1>6, <1>7, <1>8 DEF HandlerNext

LEMMA SendKeepsControl == ASSUME ControlInv, SendNext PROVE ControlInv'
<1>0. CloseGroup /\ DataTypes /\ TaskGroup BY ControlParts
<1>1. CASE TakeNone \/ TakeData
  <2>1. /\ sl = "getting" /\ queue # <<>> /\ queue' = Tail(queue)
        /\ UNCHANGED <<mode, filters, event, inDict, localVars, wsUp, serverVars, h, m, r, cu, closeVars>>
    BY <1>1 DEF TakeNone, TakeData, wsVars
  <2>2. /\ queue' \in Seq(0..MaxUp) /\ Len(queue') <= QueueSize
        /\ Len(queue) \in Nat \ {0} /\ Len(queue') = Len(queue) - 1
        /\ \A i \in 1..Len(queue) - 1 : queue'[i] = queue[i + 1]
        /\ Head(queue) = queue[1] /\ Head(queue) \in 0..MaxUp
    <3>1. queue \in Seq(0..MaxUp) /\ Len(queue) <= QueueSize BY <1>0 DEF DataTypes
    <3>2. /\ Tail(queue) \in Seq(0..MaxUp) /\ Len(queue) \in Nat \ {0} /\ Len(Tail(queue)) = Len(queue) - 1
          /\ \A i \in 1..Len(queue) - 1 : Tail(queue)[i] = queue[i + 1]
          /\ Head(queue) = queue[1] /\ Head(queue) \in 0..MaxUp
      BY <2>1, <3>1, TailIs
    <3>3. Len(queue) - 1 <= QueueSize BY <3>1, <3>2, QueueSizeAssumption
    <3> QED BY <2>1, <3>2, <3>3
  <2>3. /\ sl' \in {"sending", "done"} /\ (sl' = "done" /\ running => ~wsUp)
        /\ adapterQ' \in Seq(Messages) /\ wire' \in Seq(Messages)
        /\ sweep' \in BOOLEAN /\ (sweep' => ~wsUp)
    <3>1. CASE TakeNone
      <4>1. queue[1] = None /\ 1 \in 1..Len(queue) BY <2>2, <3>1 DEF TakeNone
      <4>2. ~running BY <1>0, <4>1 DEF TaskGroup, Sentinels
      <4> QED BY <1>0, <3>1, <4>2 DEF TakeNone, CloseGroup, CloserTypes, wsVars
    <3>2. CASE TakeData /\ wsUp
      <4>1. Msg("data", Head(queue)) \in Messages BY <2>2 DEF Msg, Messages
      <4>2. adapterQ' \in Seq(Messages) /\ wire' \in Seq(Messages) /\ sweep' = sweep
        BY <1>0, <3>2, <4>1, SendsAreMessages DEF TakeData, CloseGroup, CloserTypes
      <4> QED BY <1>0, <3>2, <4>2 DEF TakeData, CloseGroup, CloserTypes
    <3>3. CASE TakeData /\ ~wsUp
      BY <1>0, <3>3 DEF TakeData, WsSendFails, CloseGroup, CloserTypes
    <3> QED BY <1>1, <3>1, <3>2, <3>3
  <2>4. CloserTypes' BY <1>0, <2>1, <2>3 DEF CloseGroup, CloserTypes, localVars, closeVars
  <2>5. CloseInv' BY <1>0, <2>1 DEF CloseGroup, CloseInv, localVars, closeVars
  <2>6. NoSendLoopLeft' BY <1>0, <2>1 DEF CloseGroup, NoSendLoopLeft, Live, closeVars
  <2>7. DataTypes' BY <1>0, <2>1, <2>2, <2>3 DEF DataTypes, localVars, serverVars
  <2>8. Sentinels'
    <3> SUFFICES ASSUME NEW i \in 1..Len(queue'), queue'[i] = None
                 PROVE  ~running /\ h \in {"closing", "sleep", "done"} /\ i = Len(queue')
      BY <2>1 DEF Sentinels, closeVars
    <3>1. i \in 1..Len(queue) - 1 /\ i + 1 \in 1..Len(queue) /\ queue[i + 1] = None BY <2>2
    <3>2. ~running /\ h \in {"closing", "sleep", "done"} /\ i + 1 = Len(queue)
      BY <1>0, <3>1 DEF TaskGroup, Sentinels
    <3> QED BY <2>2, <3>1, <3>2
  <2>9. TaskGroup'
    BY <1>0, <2>1, <2>3, <2>8 DEF TaskGroup, Before, SendLoopAlive, localVars, closeVars
  <2> QED BY <2>1, <2>3, <2>4, <2>5, <2>6, <2>7, <2>9, ControlPartsPrimed DEF CloseGroup
<1>2. CASE Sent \/ SendRaises \/ SendCancelled
  <2>1. /\ Live(sl) /\ sl' \in {"getting", "done"} /\ (~running => sl' = "done")
        /\ (sl' = "done" /\ running => ~wsUp)
        /\ sweep' \in BOOLEAN /\ (sweep' => ~wsUp)
        /\ UNCHANGED <<mode, filters, event, inDict, localVars, queue, wsUp, adapterQ, wire, serverVars,
                       h, m, r, cu, closeVars>>
    <3>1. sweep \in BOOLEAN /\ (sweep => ~wsUp) /\ (running <=> cl = "none")
      BY <1>0 DEF CloseGroup, CloserTypes, CloseInv
    <3>2. CASE Sent
      <4>1. /\ sl = "sending" /\ sl' = IF running THEN "getting" ELSE "done"
            /\ UNCHANGED <<mode, filters, event, inDict, localVars, queue, wsVars, serverVars, h, m, r, cu, closeVars>>
        BY <3>2 DEF Sent
      <4> QED BY <3>1, <4>1 DEF Live, wsVars
    <3>3. CASE SendRaises BY <3>3 DEF SendRaises, WsSendFails, Live
    <3>4. CASE SendCancelled
      <4>1. running = FALSE \/ ~running BY <3>1, <3>4 DEF SendCancelled
      <4> QED BY <3>1, <3>4, <4>1 DEF SendCancelled, wsVars
    <3> QED BY <1>2, <3>2, <3>3, <3>4
  <2>2. CloserTypes' BY <1>0, <2>1 DEF CloseGroup, CloserTypes, localVars, closeVars
  <2>3. CloseInv' BY <1>0, <2>1 DEF CloseGroup, CloseInv, localVars, closeVars
  <2>4. NoSendLoopLeft' BY <1>0, <2>1 DEF CloseGroup, NoSendLoopLeft, closeVars
  <2>5. DataTypes' BY <1>0, <2>1 DEF DataTypes, localVars, serverVars
  <2>6. TaskGroup'
    BY <1>0, <2>1 DEF TaskGroup, Before, SendLoopAlive, Sentinels, Live, localVars, closeVars
  <2> QED BY <2>1, <2>2, <2>3, <2>4, <2>5, <2>6, ControlPartsPrimed DEF CloseGroup
<1> QED BY <1>1, <1>2 DEF SendNext

\* A close() call of another task than the handler.
LEMMA OthersClose ==
  ASSUME ControlInv, NEW who \in Callers \ {"handler"}, NEW tell \in BOOLEAN, Close(who, tell),
         who = "receiver" => r # "closing", who = "monitor" => m = "waiting",
         who = "cleanup" => cu # "closing", DataTypes',
         UNCHANGED <<filters, up, queue, wsUp, sl>>
  PROVE  ControlInv'
<1>0. CloseGroup /\ DataTypes /\ TaskGroup BY ControlParts
<1>1. CloseGroup' /\ ~running' /\ h' = h /\ m' \in IF who = "monitor" THEN {"closing", "done"} ELSE {m}
  BY <1>0, CloseKept
<1>2. h \in Before => m' = "none" BY <1>0, <1>1 DEF TaskGroup
<1>3. TaskGroup' BY <1>0, <1>1, <1>2 DEF TaskGroup, SendLoopAlive, Sentinels
<1> QED BY <1>1, <1>3, ControlPartsPrimed

LEMMA MonitorKeepsControl == ASSUME ControlInv, MonitorNext PROVE ControlInv'
<1>0. CloseGroup /\ DataTypes /\ TaskGroup BY ControlParts
<1>1. DataTypes'
  BY <1>0 DEF MonitorNext, MonitorAnswered, MonitorTimeout, MonitorCancelled, DataTypes, serverVars,
              localVars, wsVars
<1>2. CASE \E tell \in BOOLEAN : m = "waiting" /\ Close("monitor", tell)
                                /\ UNCHANGED <<filters, up, queue, wsUp, sl>>
  BY <1>1, <1>2, OthersClose DEF Callers
<1>3. CASE /\ m = "waiting" /\ m' = "done"
           /\ UNCHANGED <<filters, localVars, queue, wsVars, h, sl, r, cu, closeVars>>
  <2>1. CloserTypes' BY <1>0, <1>3 DEF CloseGroup, CloserTypes, localVars, closeVars, wsVars
  <2>2. CloseInv' BY <1>0, <1>3 DEF CloseGroup, CloseInv, localVars, closeVars
  <2>3. NoSendLoopLeft' BY <1>0, <1>3 DEF CloseGroup, NoSendLoopLeft, closeVars
  <2>4. TaskGroup'
    BY <1>0, <1>3 DEF TaskGroup, Before, SendLoopAlive, Sentinels, localVars, closeVars, wsVars
  <2> QED BY <1>0, <1>1, <1>3, <2>1, <2>2, <2>3, <2>4, ControlPartsPrimed DEF CloseGroup, wsVars
<1>4. MonitorNext => \/ \E tell \in BOOLEAN : m = "waiting" /\ Close("monitor", tell)
                                              /\ UNCHANGED <<filters, up, queue, wsUp, sl>>
                     \/ /\ m = "waiting" /\ m' = "done"
                        /\ UNCHANGED <<filters, localVars, queue, wsVars, h, sl, r, cu, closeVars>>
  <2>1. MonitorAnswered => \/ m = "waiting" /\ Close("monitor", FALSE)
                                              /\ UNCHANGED <<filters, up, queue, wsUp, sl>>
                     \/ /\ m = "waiting" /\ m' = "done"
                        /\ UNCHANGED <<filters, localVars, queue, wsVars, h, sl, r, cu, closeVars>>
    BY DEF MonitorAnswered, MonitorReady, localVars, wsVars
  <2>2. MonitorTimeout => m = "waiting" /\ Close("monitor", TRUE) /\ UNCHANGED <<filters, up, queue, wsUp, sl>>
    BY DEF MonitorTimeout, MonitorReady
  <2>3. MonitorCancelled => 
           /\ m = "waiting" /\ m' = "done"
           /\ UNCHANGED <<filters, localVars, queue, wsVars, h, sl, r, cu, closeVars>>
    BY DEF MonitorCancelled
  <2> QED BY <2>1, <2>2, <2>3 DEF MonitorNext
<1> QED BY <1>2, <1>3, <1>4

LEMMA ReceiveKeepsControl == ASSUME ControlInv, ReceiveNext PROVE ControlInv'
<1>0. CloseGroup /\ DataTypes /\ TaskGroup BY ControlParts
<1>1. DataTypes'
  <2>1. CASE RecvData
    <3>1. down' = down + 1 /\ down' \in 0..MaxDown BY <1>0, <2>1, BoundsAssumption DEF RecvData, DataTypes
    <3>2. toClient' \in Seq(Writes)
      <4>1. CASE Write("data", down') BY <1>0, <3>1, <4>1, WriteKept
      <4>2. CASE UNCHANGED toClient BY <1>0, <4>2 DEF DataTypes
      <4> QED BY <2>1, <4>1, <4>2 DEF RecvData
    <3> QED BY <1>0, <2>1, <3>1, <3>2 DEF RecvData, DataTypes
  <2>2. CASE RecvAnswer BY <1>0, <2>2 DEF RecvAnswer, DataTypes, localVars, wsVars
  <2>3. CASE Written BY <1>0, <2>3 DEF Written, DataTypes, localVars, wsVars, serverVars
  <2>4. CASE WriteRaises BY <1>0, <2>4 DEF WriteRaises, DataTypes, serverVars
  <2>5. CASE RecvClose BY <1>0, <2>5 DEF RecvClose, DataTypes
  <2> QED BY <2>1, <2>2, <2>3, <2>4, <2>5 DEF ReceiveNext
<1>2. CASE \E tell \in BOOLEAN : r # "closing" /\ Close("receiver", tell)
                                /\ UNCHANGED <<filters, up, queue, wsUp, sl>>
  BY <1>1, <1>2, OthersClose DEF Callers
<1>3. CASE /\ r # "closing" /\ r' \in {"idle", "writing"}
           /\ UNCHANGED <<filters, up, queue, wsUp, sock, sweep, adapterQ, wire, h, sl, m, cu, closeVars>>
  <2>1. CloserTypes' BY <1>0, <1>3 DEF CloseGroup, CloserTypes, closeVars
  <2>2. CloseInv' BY <1>0, <1>3 DEF CloseGroup, CloseInv, closeVars
  <2>3. NoSendLoopLeft' BY <1>0, <1>3 DEF CloseGroup, NoSendLoopLeft, closeVars
  <2>4. TaskGroup' BY <1>0, <1>3 DEF TaskGroup, SendLoopAlive, Sentinels, closeVars
  <2> QED BY <1>0, <1>1, <1>3, <2>1, <2>2, <2>3, <2>4, ControlPartsPrimed DEF CloseGroup
<1>4. \/ \E tell \in BOOLEAN : r # "closing" /\ Close("receiver", tell)
                               /\ UNCHANGED <<filters, up, queue, wsUp, sl>>
      \/ /\ r # "closing" /\ r' \in {"idle", "writing"}
         /\ UNCHANGED <<filters, up, queue, wsUp, sock, sweep, adapterQ, wire, h, sl, m, cu, closeVars>>
  <2>1. CASE RecvAnswer BY <2>1 DEF RecvAnswer, FromServer, localVars, wsVars
  <2>2. CASE RecvData BY <2>2 DEF RecvData, FromServer
  <2>3. CASE Written BY <2>3 DEF Written, localVars, wsVars
  <2>4. CASE WriteRaises BY <2>4 DEF WriteRaises
  <2>5. CASE RecvClose BY <2>5 DEF RecvClose, FromServer
  <2> QED BY <2>1, <2>2, <2>3, <2>4, <2>5 DEF ReceiveNext
<1> QED BY <1>2, <1>3, <1>4

LEMMA CloseKeepsControl == ASSUME ControlInv, CloseNext PROVE ControlInv'
<1>0. CloseGroup /\ DataTypes /\ TaskGroup BY ControlParts
<1>1. CASE CloseEnds
  <2>1. /\ cl = "lingering" /\ cl' = "done" /\ sock' = "closed"
        /\ h' = IF closer = "handler" THEN "sleep" ELSE h
        /\ r' = IF closer = "receiver" THEN "idle" ELSE r
        /\ m' = IF closer = "monitor" THEN "done" ELSE m
        /\ cu' = IF closer = "cleanup" THEN "done" ELSE cu
        /\ UNCHANGED <<mode, filters, event, inDict, toClient, up, queue, wsVars, serverVars, sl, running,
                       marked, closer, notify>>
    BY <1>1 DEF CloseEnds, CallerAt
  <2>2. /\ ~running /\ closer # "none"
        /\ h = "closing" <=> closer = "handler"
        /\ m = "closing" <=> closer = "monitor"
        /\ r = "closing" <=> closer = "receiver"
        /\ cu = "closing" <=> closer = "cleanup"
    BY <1>0, <2>1 DEF CloseGroup, CloseInv, Closing
  <2>3. CloserTypes' BY <1>0, <2>1 DEF CloseGroup, CloserTypes, HandlerPlaces, wsVars
  <2>4. CloseInv' BY <1>0, <2>1, <2>2 DEF CloseGroup, CloseInv, Closing
  <2>5. NoSendLoopLeft' BY <1>0, <2>1 DEF CloseGroup, NoSendLoopLeft
  <2>6. DataTypes' BY <1>0, <2>1 DEF DataTypes, serverVars, wsVars
  <2>7. Sentinels' BY <1>0, <2>1, <2>2 DEF TaskGroup, Sentinels
  <2>8. TaskGroup' BY <1>0, <2>1, <2>2, <2>7 DEF TaskGroup, Before, SendLoopAlive
  <2> QED BY <1>0, <2>1, <2>3, <2>4, <2>5, <2>6, <2>8, ControlPartsPrimed DEF CloseGroup, wsVars
<1>2. CASE MonitorGone \/ SendGone \/ CloseSent
  <2>1. /\ cl \in Closing /\ cl' \in Closing
        /\ UNCHANGED <<mode, filters, event, inDict, toClient, up, queue, wsUp, serverVars, h, sl, m, r, cu,
                       running, marked, closer, notify>>
        /\ sock' = IF cl' = "lingering" THEN "shut" ELSE "open"
        /\ cl' \in PastSend => ~Live(sl)
        /\ adapterQ' \in Seq(Messages) /\ wire' \in Seq(Messages)
        /\ sweep' \in BOOLEAN /\ (sweep' => ~wsUp)
    <3>1. CloserTypes /\ (sweep => ~wsUp) /\ notify \in BOOLEAN BY <1>0 DEF CloseGroup, CloserTypes
    <3>2. CASE MonitorGone
      <4>1. /\ \/ cl' = "awaitSend" /\ sock' = sock
               \/ cl' = "sendingClose" /\ sock' = sock /\ ~Live(sl)
               \/ cl' = "lingering" /\ sock' = "shut" /\ ~Live(sl)
            /\ adapterQ' \in Seq(Messages) /\ wire' \in Seq(Messages)
            /\ sweep' \in BOOLEAN /\ (sweep' => ~wsUp)
        BY <3>1, <3>2, CloseFromSendIs DEF MonitorGone
      <4>2. sock = "open" BY <1>0, <3>2 DEF MonitorGone, CloseGroup, CloseInv
      <4> QED BY <3>2, <4>1, <4>2 DEF MonitorGone, Closing, PastSend
    <3>3. CASE SendGone
      <4>1. ~Live(sl) /\ CloseFromSend(notify) BY <3>3 DEF SendGone, CloseFromSend, Live
      <4>2. /\ \/ cl' = "awaitSend" /\ sock' = sock
               \/ cl' = "sendingClose" /\ sock' = sock /\ ~Live(sl)
               \/ cl' = "lingering" /\ sock' = "shut" /\ ~Live(sl)
            /\ adapterQ' \in Seq(Messages) /\ wire' \in Seq(Messages)
            /\ sweep' \in BOOLEAN /\ (sweep' => ~wsUp)
        BY <3>1, <3>3, <4>1, CloseFromSendIs DEF SendGone
      <4>3. sock = "open" BY <1>0, <3>3 DEF SendGone, CloseGroup, CloseInv
      <4> QED BY <3>3, <4>1, <4>2, <4>3 DEF SendGone, Closing, PastSend
    <3>4. CASE CloseSent
      <4>1. ~Live(sl) BY <1>0, <3>4 DEF CloseSent, CloseGroup, NoSendLoopLeft
      <4> QED BY <3>1, <3>4, <4>1 DEF CloseSent, Closing, CloserTypes, wsVars
    <3> QED BY <1>2, <3>2, <3>3, <3>4
  <2>2. CloserTypes' BY <1>0, <2>1 DEF CloseGroup, CloserTypes, Closing
  <2>3. CloseInv' BY <1>0, <2>1 DEF CloseGroup, CloseInv, Closing
  <2>4. NoSendLoopLeft' BY <2>1 DEF NoSendLoopLeft, Closing, PastSend, Live
  <2>5. DataTypes' BY <1>0, <2>1 DEF DataTypes, serverVars
  <2>6. TaskGroup' BY <1>0, <2>1 DEF TaskGroup, SendLoopAlive, Sentinels
  <2> QED BY <2>1, <2>2, <2>3, <2>4, <2>5, <2>6, ControlPartsPrimed DEF CloseGroup
<1> QED BY <1>1, <1>2 DEF CloseNext

LEMMA SocketKeepsControl == ASSUME ControlInv, SocketNext PROVE ControlInv'
<1>0. CloseGroup /\ DataTypes /\ TaskGroup BY ControlParts
<1>1. CASE CleanUp /\ Close("cleanup", FALSE)
  <2>1. DataTypes' BY <1>0, <1>1 DEF CleanUp, DataTypes, serverVars
  <2> QED BY <1>1, <2>1, OthersClose DEF CleanUp, Callers
<1>2. CASE CleanUp /\ ~(inDict /\ running)
  <2>1. /\ cu = "none" /\ cu' = "done"
        /\ UNCHANGED <<mode, filters, event, inDict, toClient, up, queue, wsUp, serverVars, sl,
                       sock, sweep, adapterQ, wire, h, m, r, closeVars>>
    BY <1>2 DEF CleanUp
  <2>2. CloserTypes' BY <1>0, <2>1 DEF CloseGroup, CloserTypes, closeVars
  <2>3. CloseInv' BY <1>0, <2>1 DEF CloseGroup, CloseInv, closeVars
  <2>4. NoSendLoopLeft' BY <1>0, <2>1 DEF CloseGroup, NoSendLoopLeft, closeVars
  <2>5. DataTypes' BY <1>0, <2>1 DEF DataTypes, serverVars
  <2>6. TaskGroup' BY <1>0, <2>1 DEF TaskGroup, SendLoopAlive, Sentinels, closeVars
  <2> QED BY <1>0, <2>1, <2>2, <2>3, <2>4, <2>5, <2>6, ControlPartsPrimed DEF CloseGroup
<1>3. CASE WsLost \/ ThreadSends
  <2>1. /\ UNCHANGED <<mode, filters, event, inDict, localVars, queue, serverVars, h, sl, m, r, cu, closeVars>>
        /\ wsUp' \in BOOLEAN /\ (~wsUp => ~wsUp')
        /\ sweep' \in BOOLEAN /\ (sweep' => ~wsUp')
        /\ adapterQ' \in Seq(Messages) /\ wire' \in Seq(Messages)
    <3>1. CASE WsLost BY <1>0, <3>1 DEF WsLost, CloseGroup, CloserTypes
    <3>2. CASE ThreadSends
      <4>1. adapterQ \in Seq(Messages) /\ wire \in Seq(Messages) /\ sweep \in BOOLEAN /\ wsUp \in BOOLEAN
            /\ (sweep => ~wsUp)
        BY <1>0 DEF CloseGroup, CloserTypes, DataTypes
      <4>2. adapterQ # <<>> /\ adapterQ' = Tail(adapterQ)
            /\ wire' \in {wire, Append(wire, Head(adapterQ))}
        BY <3>2 DEF ThreadSends
      <4>3. Tail(adapterQ) \in Seq(Messages) /\ Head(adapterQ) \in Messages BY <4>1, <4>2, TailIs
      <4>4. Append(wire, Head(adapterQ)) \in Seq(Messages) BY <4>1, <4>3, AppendIs
      <4>5. wire' \in Seq(Messages) BY <4>1, <4>2, <4>4
      <4> QED BY <3>2, <4>1, <4>2, <4>3, <4>5 DEF ThreadSends
    <3> QED BY <1>3, <3>1, <3>2
  <2>2. CloserTypes' BY <1>0, <2>1 DEF CloseGroup, CloserTypes, localVars, closeVars
  <2>3. CloseInv' BY <1>0, <2>1 DEF CloseGroup, CloseInv, localVars, closeVars
  <2>4. NoSendLoopLeft' BY <1>0, <2>1 DEF CloseGroup, NoSendLoopLeft, closeVars
  <2>5. DataTypes' BY <1>0, <2>1 DEF DataTypes, localVars, serverVars
  <2>6. TaskGroup'
    BY <1>0, <2>1 DEF TaskGroup, SendLoopAlive, Sentinels, localVars, closeVars
  <2> QED BY <2>1, <2>2, <2>3, <2>4, <2>5, <2>6, ControlPartsPrimed DEF CloseGroup
<1> QED BY <1>1, <1>2, <1>3 DEF SocketNext, CleanUp, Close

LEMMA StutterKeepsControl == ASSUME ControlInv, UNCHANGED vars PROVE ControlInv'
<1>0. CloseGroup /\ DataTypes /\ TaskGroup BY ControlParts
<1>1. CloseGroup'
  BY <1>0 DEF CloseGroup, CloserTypes, CloseInv, NoSendLoopLeft, vars, localVars, wsVars, closeVars
<1>2. DataTypes' BY <1>0 DEF DataTypes, vars, localVars, wsVars, serverVars
<1>3. TaskGroup' BY <1>0 DEF TaskGroup, SendLoopAlive, Sentinels, vars, localVars, wsVars, closeVars
<1> QED BY <1>1, <1>2, <1>3, ControlPartsPrimed

LEMMA ControlKept == ControlInv /\ [Next]_vars => ControlInv'
BY HandlerKeepsControl, SendKeepsControl, MonitorKeepsControl, ReceiveKeepsControl,
   CloseKeepsControl, SocketKeepsControl, StutterKeepsControl DEF Next

-----------------------------------------------------------------------------
\* What every step keeps: nothing starts again.

Onward ==
  /\ filters' = filters
  /\ wsUp' => wsUp
  /\ running' => running
  /\ cl \in PastSend => cl' \in PastSend

\* What close() sends: nothing, or CLOSE as it gets past the send loop.
AddsClose ==
  /\ ~filters /\ wsUp /\ ~Live(sl) /\ ~running' /\ cl \notin PastSend /\ cl' \in PastSend
  /\ adapterQ' = adapterQ /\ wire' = Append(wire, CloseMsg)
CloseStep ==
  /\ AddsClose \/ UNCHANGED <<wire, adapterQ>>
  /\ notify' /\ cl' \in PastSend /\ ~filters /\ wsUp => (cl \in PastSend /\ notify) \/ AddsClose

LEMMA CloseFromSendAdds ==
  ASSUME NEW tell \in BOOLEAN, CloseFromSend(tell), cl \notin PastSend, ~running', notify' = tell
  PROVE  CloseStep
<1>1. CASE Live(sl) BY <1>1 DEF CloseFromSend, CloseStep, PastSend
<1>2. CASE ~Live(sl) /\ ~tell BY <1>2 DEF CloseFromSend, CloseFromNotify, CloseStep
<1>3. CASE ~Live(sl) /\ tell /\ wsUp
  BY <1>3 DEF CloseFromSend, CloseFromNotify, WsSend, CloseMsg, CloseStep, AddsClose, PastSend
<1>4. CASE ~Live(sl) /\ tell /\ ~wsUp
  BY <1>4 DEF CloseFromSend, CloseFromNotify, WsSendFails, CloseStep, PastSend
<1> QED BY <1>1, <1>2, <1>3, <1>4

LEMMA CloseAdds ==
  ASSUME CloseInv, NEW who, NEW tell \in BOOLEAN, Close(who, tell)
  PROVE  /\ CloseStep /\ ~running' /\ (cl \in PastSend => cl' \in PastSend)
         /\ running => notify' = tell
         /\ ~running => notify' = notify
<1>1. CASE CloseReturnsAtOnce(who)
  BY <1>1 DEF CloseReturnsAtOnce, CloseStep, closeVars
<1>2. CASE CloseBegins(who, tell)
  <2>1. running /\ ~running' /\ notify' = tell BY <1>2 DEF CloseBegins
  <2>2. cl \notin PastSend BY <2>1 DEF CloseInv, PastSend
  <2>3. CASE Live(m) BY <1>2, <2>1, <2>2, <2>3 DEF CloseBegins, CloseStep, PastSend
  <2>4. CASE ~Live(m) BY <1>2, <2>1, <2>2, <2>4, CloseFromSendAdds DEF CloseBegins
  <2> QED BY <2>1, <2>2, <2>3, <2>4
<1> QED BY <1>1, <1>2 DEF Close

\* A step in which close() is called, goes on, or is left alone.
LEMMA CloseNextAdds ==
  ASSUME ControlInv, CloseNext
  PROVE  CloseStep /\ (cl \in PastSend => cl' \in PastSend) /\ UNCHANGED <<running, notify>>
<1>1. CASE MonitorGone
  BY <1>1, CloseFromSendAdds DEF MonitorGone, ControlInv, TypeOK, CloseInv, PastSend
<1>2. CASE SendGone
  <2>1. CloseFromSend(notify) BY <1>2 DEF SendGone, CloseFromSend, Live
  <2> QED BY <1>2, <2>1, CloseFromSendAdds DEF SendGone, ControlInv, TypeOK, CloseInv, PastSend
<1>3. CASE CloseSent BY <1>3 DEF CloseSent, CloseStep, PastSend, wsVars
<1>4. CASE CloseEnds BY <1>4 DEF CloseEnds, CloseStep, PastSend, wsVars
<1> QED BY <1>1, <1>2, <1>3, <1>4 DEF CloseNext

LEMMA GoesOnward == ASSUME ControlInv, [Next]_vars PROVE Onward
<1>0. CloseInv BY DEF ControlInv
<1>1. CASE \E who \in Callers, tell \in BOOLEAN : Close(who, tell) /\ UNCHANGED <<filters, wsUp>>
  BY <1>0, <1>1, CloseAdds DEF Onward
<1>2. CASE filters' = filters /\ (wsUp' => wsUp) /\ UNCHANGED closeVars
  BY <1>2 DEF Onward, closeVars
<1>3. CASE HandlerNext
  <2>1. ASSUME NEW q, Finish(q)
        PROVE  Close("handler", TRUE) \/ UNCHANGED closeVars
    BY <2>1 DEF Finish
  <2>2. CASE HandshakeFails \/ SendConnect \/ Refused \/ LocalData \/ PutDone \/ LocalEnd \/ PutNoneDone
    BY <1>1, <1>2, <2>1, <2>2 DEF Callers, HandshakeFails, SendConnect, Refused, LocalData, PutDone,
                                  LocalEnd, PutNoneDone
  <2>3. CASE Blocked \/ ConnectSent \/ Answered \/ AnswerTimeout \/ Replied \/ Forget
    BY <1>2, <2>3 DEF Blocked, ConnectSent, Answered, AnswerTimeout, Replied, Forget, wsVars
  <2> QED BY <1>3, <2>2, <2>3 DEF HandlerNext
<1>4. CASE SendNext
  BY <1>2, <1>4 DEF SendNext, TakeNone, TakeData, Sent, SendRaises, SendCancelled, wsVars
<1>5. CASE MonitorNext
  BY <1>1, <1>2, <1>5 DEF Callers, MonitorNext, MonitorAnswered, MonitorTimeout, MonitorCancelled, wsVars
<1>6. CASE ReceiveNext
  BY <1>1, <1>2, <1>6 DEF Callers, ReceiveNext, RecvAnswer, RecvData, Written, WriteRaises, RecvClose, wsVars
<1>7. CASE CloseNext
  <2>1. UNCHANGED <<filters, wsUp>>
    BY <1>7 DEF CloseNext, MonitorGone, SendGone, CloseSent, CloseEnds, wsVars
  <2> QED BY <1>7, <2>1, CloseNextAdds DEF Onward
<1>8. CASE SocketNext
  BY <1>1, <1>2, <1>8 DEF Callers, SocketNext, WsLost, CleanUp, ThreadSends, Close
<1>9. CASE UNCHANGED vars BY <1>2, <1>9 DEF vars, wsVars
<1> QED BY <1>3, <1>4, <1>5, <1>6, <1>7, <1>8, <1>9 DEF Next

-----------------------------------------------------------------------------
\* The upload, from the reader's queue through the adapter to the WebSocket.

StreamInv == WireInv /\ PipeInv /\ QueueInv

\* While a CLOSE cannot have been sent, everything on the WebSocket is in the stream.
LEMMA WireIsStream ==
  ASSUME WireInv, filters \/ cl \notin PastSend
  PROVE  \A i \in 1..Len(wire) : InStream(wire[i], i)
BY DEF WireInv

LEMMA WireGrows ==
  ASSUME wire \in Seq(Messages), NEW x \in Messages, wire' = Append(wire, x),
         \A i \in 1..Len(wire) : InStream(wire[i], i),
         InStream(x, Len(wire) + 1) \/ (x = CloseMsg /\ ~filters' /\ cl' \in PastSend)
  PROVE  WireInv'
<1>1. /\ Len(wire) \in Nat /\ Len(wire') = Len(wire) + 1
      /\ \A i \in 1..Len(wire) : wire'[i] = wire[i]
      /\ wire'[Len(wire) + 1] = x
  BY AppendIs
<1> SUFFICES ASSUME NEW i \in 1..Len(wire')
             PROVE  \/ InStream(wire'[i], i)
                    \/ i = Len(wire') /\ wire'[i] = CloseMsg /\ ~filters' /\ cl' \in PastSend
  BY DEF WireInv, InStream
<1>2. CASE i \in 1..Len(wire) BY <1>1, <1>2
<1>3. CASE i = Len(wire) + 1 BY <1>1, <1>3
<1> QED BY <1>1, <1>2, <1>3

\* The places of a handler that has a CONNECT on its way and no reply yet.
Sending == {"sendConnect", "waiting", "replying"}

\* Nothing goes to the adapter, and nothing but CLOSE to the WebSocket.
LEMMA PipeStill ==
  ASSUME ControlInv, ControlInv', Onward, WireInv, PipeInv, AddsClose \/ UNCHANGED <<wire, adapterQ>>,
         h' = "handshake" /\ wsUp' => h = "handshake" /\ running' /\ r' = "idle",
         h' \in Sending => h \in Sending
  PROVE  WireInv' /\ PipeInv'
<1>1. Flows' => Flows BY DEF Flows, ControlInv, CloseInv, Onward
<1>2. CASE AddsClose
  <2>1. adapterQ = <<>> /\ adapterQ' = <<>> BY <1>2 DEF AddsClose, PipeInv
  <2>2. CloseMsg \in Messages BY DEF CloseMsg, Msg, Messages
  <2>3. WireInv'
    BY <1>2, <2>2, WireIsStream, WireGrows DEF AddsClose, Onward, ControlInv, TypeOK
  <2>4. h' # "handshake" \/ ~wsUp' BY <1>2 DEF AddsClose
  <2> QED BY <1>2, <2>1, <2>3, <2>4 DEF PipeInv, AddsClose
<1>3. CASE UNCHANGED <<wire, adapterQ>>
  <2>1. WireInv' BY <1>3 DEF WireInv, Onward, InStream
  <2>2. Passed' = Passed BY <1>3 DEF Passed
  <2>3. \A j \in 1..Len(adapterQ') : Flows' => InStream(adapterQ'[j], Len(wire') + j)
    BY <1>1, <1>3 DEF PipeInv, InStream
  <2> QED BY <1>3, <2>1, <2>2, <2>3 DEF PipeInv, Onward, Sending, InStream
<1> QED BY <1>2, <1>3

\* The reader and the queue at most add what comes next.
LEMMA QueueStill ==
  ASSUME ControlInv, ControlInv', Onward, QueueInv, AddsClose \/ UNCHANGED <<wire, adapterQ>>,
         Live(sl') => Live(sl),
         Flows /\ Live(sl) =>
           /\ \A i \in 1..Len(queue') : queue'[i] # None => queue'[i] = Passed - 1 + i
           /\ h' = "recv" => up' = Passed - 1 + Len(queue')
           /\ h' = "put" => up' = Passed + Len(queue')
  PROVE  QueueInv'
<1>1. Flows' => Flows BY DEF Flows, ControlInv, CloseInv, Onward
<1>2. SUFFICES ASSUME Flows', Live(sl)' PROVE QueueInv' BY DEF QueueInv
<1>3. Flows /\ Live(sl) BY <1>1, <1>2 DEF Live
<1>4. UNCHANGED <<wire, adapterQ>> BY <1>3 DEF AddsClose
<1>5. Passed' = Passed BY <1>4 DEF Passed
<1> QED BY <1>3, <1>5 DEF QueueInv, None

\* A step that leaves the reader and the queue alone.
LEMMA StreamStill ==
  ASSUME ControlInv, ControlInv', Onward, StreamInv, AddsClose \/ UNCHANGED <<wire, adapterQ>>,
         UNCHANGED <<queue, up>>, Live(sl') => Live(sl),
         h' = h \/ h' \notin {"handshake", "recv", "put"},
         h' \in Sending => h \in Sending,
         h' = "handshake" /\ wsUp' => running' /\ r' = "idle"
  PROVE  StreamInv'
<1>1. WireInv' /\ PipeInv' BY PipeStill DEF StreamInv
<1>2. QueueInv' BY QueueStill DEF StreamInv, QueueInv
<1> QED BY <1>1, <1>2 DEF StreamInv

\* The end of forward_data: q is what the reader leaves in front of the sentinel.
LEMMA FinishKeepsStream ==
  ASSUME ControlInv, ControlInv', Onward, StreamInv, h \in {"recv", "put"},
         NEW q \in Seq(0..MaxUp), Finish(q), UNCHANGED sl,
         Flows /\ Live(sl) => \A i \in 1..Len(q) : q[i] # None => q[i] = Passed - 1 + i
  PROVE  StreamInv'
<1>1. CASE queue' = Append(q, None) /\ Close("handler", TRUE)
  <2>1. AddsClose \/ UNCHANGED <<wire, adapterQ>> BY <1>1, CloseAdds DEF ControlInv, CloseStep
  <2>2. h' \in {"closing", "sleep"}
    BY <1>1 DEF Close, CloseReturnsAtOnce, CloseBegins, CallerAt
  <2>3. WireInv' /\ PipeInv' BY <2>1, <2>2, PipeStill DEF StreamInv, Sending
  <2>4. None \in 0..MaxUp BY BoundsAssumption DEF None
  <2>5. Flows /\ Live(sl) => \A i \in 1..Len(queue') : queue'[i] # None => queue'[i] = Passed - 1 + i
    BY <1>1, <2>4, AppendIs
  <2>6. QueueInv' BY <2>1, <2>2, <2>5, QueueStill DEF StreamInv
  <2> QED BY <2>3, <2>6 DEF StreamInv
<1>2. CASE /\ queue' = q /\ h' = "putNone"
           /\ UNCHANGED <<sock, sweep, adapterQ, wire, m, r, cu, closeVars>>
  <2>1. WireInv' /\ PipeInv' BY <1>2, PipeStill DEF StreamInv, Sending
  <2>2. QueueInv' BY <1>2, QueueStill DEF StreamInv
  <2> QED BY <2>1, <2>2 DEF StreamInv
<1> QED BY <1>1, <1>2 DEF Finish

LEMMA ReaderKeepsStream ==
  ASSUME ControlInv, ControlInv', Onward, StreamInv, LocalData \/ PutDone PROVE StreamInv'
<1> DEFINE n == IF h = "recv" THEN up + 1 ELSE up
           q == Append(queue, n)
<1>1. /\ h \in {"recv", "put"} /\ queue \in Seq(0..MaxUp)
      /\ up \in 0..MaxUp /\ up' = n /\ n \in 0..MaxUp /\ n \in Nat
      /\ UNCHANGED <<filters, wsUp, sl>>
  BY BoundsAssumption DEF LocalData, PutDone, ControlInv, TypeOK
<1>2. Flows /\ Live(sl) => Passed >= 1 /\ n = Passed + Len(queue)
  BY <1>1 DEF StreamInv, QueueInv, Passed, ControlInv, TypeOK
<1> HIDE DEF n
<1>3. /\ Len(queue) \in Nat /\ q \in Seq(0..MaxUp) /\ Len(q) = Len(queue) + 1
      /\ \A i \in 1..Len(queue) : q[i] = queue[i]
      /\ q[Len(queue) + 1] = n
  BY <1>1, AppendIs
<1>4. Passed \in Nat BY DEF Passed, ControlInv, TypeOK
<1>5. Flows /\ Live(sl) => \A i \in 1..Len(q) : q[i] # None => q[i] = Passed - 1 + i
  <2> SUFFICES ASSUME Flows, Live(sl), NEW i \in 1..Len(q), q[i] # None
               PROVE  q[i] = Passed - 1 + i
    OBVIOUS
  <2>1. CASE i \in 1..Len(queue) BY <1>3, <2>1 DEF StreamInv, QueueInv
  <2>2. CASE i = Len(queue) + 1 BY <1>2, <1>3, <1>4, <2>2
  <2> QED BY <1>3, <2>1, <2>2
<1>6. \/ Finish(q)
      \/ /\ running /\ queue' = q /\ h' = "recv"
         /\ UNCHANGED <<sock, sweep, adapterQ, wire, m, r, cu, closeVars>>
      \/ /\ h' = "put"
         /\ UNCHANGED <<sock, queue, sweep, adapterQ, wire, m, r, cu, closeVars>>
  BY <1>1 DEF LocalData, PutDone, n
<1>7. CASE Finish(q) BY <1>1, <1>3, <1>5, <1>7, FinishKeepsStream
<1>8. CASE /\ queue' = q /\ h' = "recv"
           /\ UNCHANGED <<sock, sweep, adapterQ, wire, m, r, cu, closeVars>>
  <2>1. WireInv' /\ PipeInv' BY <1>8, PipeStill DEF StreamInv, Sending
  <2>2. Flows /\ Live(sl) => up' = Passed - 1 + Len(queue') BY <1>1, <1>2, <1>3, <1>4, <1>8
  <2>3. QueueInv' BY <1>1, <1>5, <1>8, <2>2, QueueStill DEF StreamInv
  <2> QED BY <2>1, <2>3 DEF StreamInv
<1>9. CASE /\ h' = "put"
           /\ UNCHANGED <<sock, queue, sweep, adapterQ, wire, m, r, cu, closeVars>>
  <2>1. WireInv' /\ PipeInv' BY <1>9, PipeStill DEF StreamInv, Sending
  <2>2. Flows /\ Live(sl) => up' = Passed + Len(queue') BY <1>1, <1>2, <1>3, <1>4, <1>9
  <2>3. QueueInv' BY <1>1, <1>9, <2>2, QueueStill DEF StreamInv, QueueInv
  <2> QED BY <2>1, <2>3 DEF StreamInv
<1> QED BY <1>6, <1>7, <1>8, <1>9

\* CONNECT is the first message.
LEMMA ConnectKeepsStream ==
  ASSUME ControlInv, ControlInv', Onward, StreamInv, h = "handshake", wsUp, h' = "sendConnect",
         WsSend(ConnectMsg, marked), UNCHANGED <<filters, sl, closeVars>>
  PROVE  StreamInv'
<1>1. /\ sl = "none" /\ running /\ ~marked /\ Len(wire) = 0 /\ Len(adapterQ) = 0
      /\ wire \in Seq(Messages) /\ adapterQ \in Seq(Messages)
  BY DEF ControlInv, StageInv, Before, StreamInv, PipeInv, Passed, CloseInv, TypeOK
<1>2. ConnectMsg \in Messages /\ InStream(ConnectMsg, 1) BY DEF ConnectMsg, Msg, Messages, InStream
<1>3. QueueInv' BY <1>1 DEF QueueInv, Live
<1>4. CASE filters
  <2>1. adapterQ' = Append(adapterQ, ConnectMsg) /\ wire' = wire BY <1>1, <1>4 DEF WsSend
  <2>2. Len(adapterQ') = 1 /\ adapterQ'[1] = ConnectMsg BY <1>1, <1>2, <2>1, AppendIs
  <2>3. WireInv' BY <1>1, <2>1 DEF WireInv, InStream
  <2>4. Passed' = 1 BY <1>1, <2>1, <2>2 DEF Passed
  <2>5. \A j \in 1..Len(adapterQ') : InStream(adapterQ'[j], Len(wire') + j)
    BY <1>1, <1>2, <2>1, <2>2 DEF InStream
  <2>6. PipeInv' BY <1>4, <2>4, <2>5 DEF PipeInv, InStream
  <2> QED BY <1>3, <2>3, <2>6 DEF StreamInv
<1>5. CASE ~filters
  <2>1. adapterQ' = adapterQ /\ wire' = Append(wire, ConnectMsg) BY <1>5 DEF WsSend
  <2>2. Len(wire') = 1 BY <1>1, <1>2, <2>1, AppendIs
  <2>3. WireInv' BY <1>1, <1>2, <2>1, WireGrows DEF InStream
  <2>4. Passed' = 1 BY <1>1, <2>1, <2>2 DEF Passed
  <2>5. PipeInv' BY <1>1, <1>5, <2>1, <2>4 DEF PipeInv, InStream, StreamInv
  <2> QED BY <1>3, <2>3, <2>5 DEF StreamInv
<1> QED BY <1>4, <1>5

\* The reply is out, and the first chunk follows CONNECT.
LEMMA ReplyKeepsStream ==
  ASSUME ControlInv, ControlInv', Onward, StreamInv, Replied PROVE StreamInv'
<1>1. /\ h = "replying" /\ h' \in {"recv", "sleep"} /\ queue = <<>> /\ up = 0
      /\ UNCHANGED <<wsUp, adapterQ, wire, up, running, marked>>
  BY DEF Replied, ControlInv, StageInv, Before, wsVars, localVars, closeVars
<1>2. WireInv' /\ PipeInv' BY <1>1, PipeStill DEF StreamInv, Sending
<1>3. CASE running
  <2>1. h' = "recv" /\ queue' = <<>> BY <1>1, <1>3 DEF Replied
  <2>2. Flows' => Passed' = 1 BY <1>1, <1>3 DEF Flows, Passed, StreamInv, PipeInv
  <2>3. QueueInv' BY <1>1, <2>1, <2>2 DEF QueueInv
  <2> QED BY <1>2, <2>3 DEF StreamInv
<1>4. CASE ~running
  <2>1. QueueInv' BY <1>4 DEF Replied, QueueInv, Live
  <2> QED BY <1>2, <2>1 DEF StreamInv
<1> QED BY <1>3, <1>4

LEMMA HandlerCloseIs == ASSUME NEW tell, Close("handler", tell) PROVE h' \in {"closing", "sleep"}
BY DEF Close, CloseReturnsAtOnce, CloseBegins, CallerAt

LEMMA HandlerKeepsStream ==
  ASSUME ControlInv, ControlInv', Onward, StreamInv, HandlerNext PROVE StreamInv'
<1>1. CASE Close("handler", TRUE) /\ UNCHANGED <<queue, up, sl>>
  <2>1. AddsClose \/ UNCHANGED <<wire, adapterQ>> BY <1>1, CloseAdds DEF ControlInv, CloseStep
  <2>2. h' \in {"closing", "sleep"} BY <1>1, HandlerCloseIs
  <2> QED BY <1>1, <2>1, <2>2, StreamStill DEF Sending
<1>2. CASE HandshakeFails \/ Refused BY <1>1, <1>2 DEF HandshakeFails, Refused
<1>3. CASE Blocked \/ ConnectSent \/ Answered \/ AnswerTimeout \/ Forget
  <2>1. /\ UNCHANGED <<wire, adapterQ, queue, up, sl>> /\ h' \notin {"handshake", "recv", "put"}
        /\ h' \in Sending => h \in Sending
    BY <1>3 DEF Blocked, ConnectSent, Answered, AnswerTimeout, Forget, wsVars, localVars, Sending
  <2> QED BY <2>1, StreamStill
<1>4. CASE SendConnect BY <1>1, <1>4, ConnectKeepsStream DEF SendConnect, ConnectMsg
<1>5. CASE Replied BY <1>5, ReplyKeepsStream
<1>6. CASE LocalData \/ PutDone BY <1>6, ReaderKeepsStream
<1>7. CASE LocalEnd
  <2>1. queue \in Seq(0..MaxUp) BY DEF ControlInv, TypeOK
  <2>2. h = "recv" /\ Finish(queue) /\ UNCHANGED sl BY <1>7 DEF LocalEnd
  <2> QED BY <2>1, <2>2, FinishKeepsStream DEF StreamInv, QueueInv
<1>8. CASE PutNoneDone
  <2>1. AddsClose \/ UNCHANGED <<wire, adapterQ>>
    BY <1>8, CloseAdds DEF PutNoneDone, ControlInv, CloseStep
  <2>2. h' \in {"closing", "sleep"} /\ queue' = Append(queue, None) /\ UNCHANGED sl
    BY <1>8, HandlerCloseIs DEF PutNoneDone
  <2>3. WireInv' /\ PipeInv' BY <2>1, <2>2, PipeStill DEF StreamInv, Sending
  <2>4. queue \in Seq(0..MaxUp) /\ None \in 0..MaxUp BY BoundsAssumption DEF None, ControlInv, TypeOK
  <2>5. Flows /\ Live(sl) => \A i \in 1..Len(queue') : queue'[i] # None => queue'[i] = Passed - 1 + i
    BY <2>2, <2>4, AppendIs DEF StreamInv, QueueInv
  <2>6. QueueInv' BY <2>1, <2>2, <2>5, QueueStill DEF StreamInv
  <2> QED BY <2>3, <2>6 DEF StreamInv
<1> QED BY <1>2, <1>3, <1>4, <1>5, <1>6, <1>7, <1>8 DEF HandlerNext

\* The next chunk follows what was passed on.
LEMMA TakeDataKeepsStream ==
  ASSUME ControlInv, ControlInv', Onward, StreamInv, TakeData PROVE StreamInv'
<1>1. /\ sl = "getting" /\ queue # <<>> /\ queue' = Tail(queue) /\ Head(queue) # None
      /\ UNCHANGED <<filters, wsUp, up, h, r, running, marked, cl>>
  BY DEF TakeData, localVars, closeVars
<1>2. /\ wire \in Seq(Messages) /\ adapterQ \in Seq(Messages) /\ queue \in Seq(0..MaxUp)
      /\ Len(wire) \in Nat /\ Len(adapterQ) \in Nat /\ up \in 0..MaxUp
  BY DEF ControlInv, TypeOK
<1>3. /\ Len(queue) \in Nat \ {0} /\ Len(queue') = Len(queue) - 1
      /\ \A i \in 1..Len(queue) - 1 : queue'[i] = queue[i + 1]
      /\ Head(queue) = queue[1] /\ Head(queue) \in 0..MaxUp
  BY <1>1, <1>2, TailIs
<1>4. /\ h \notin Before /\ cl \notin PastSend /\ Live(sl)
  BY <1>1 DEF ControlInv, StageInv, NoSendLoopLeft, PastSend, Live
<1>5. ASSUME Flows
      PROVE  /\ Passed \in Nat /\ Passed >= 1 /\ Head(queue) = Passed
             /\ \A i \in 1..Len(queue') : queue'[i] # None => queue'[i] = Passed + i
             /\ h' = "recv" => up' = Passed + Len(queue')
             /\ h' = "put" => up' = Passed + 1 + Len(queue')
  <2>1. /\ Passed >= 1
        /\ \A i \in 1..Len(queue) : queue[i] # None => queue[i] = Passed - 1 + i
        /\ h = "recv" => up = Passed - 1 + Len(queue)
        /\ h = "put" => up = Passed + Len(queue)
    BY <1>4, <1>5 DEF StreamInv, QueueInv
  <2>2. Passed \in Nat BY <1>2 DEF Passed
  <2>3. Head(queue) = Passed BY <1>1, <1>3, <2>1, <2>2
  <2>4. ASSUME NEW i \in 1..Len(queue'), queue'[i] # None PROVE queue'[i] = Passed + i
    <3>1. i + 1 \in 1..Len(queue) /\ queue'[i] = queue[i + 1] BY <1>3
    <3> QED BY <2>1, <2>2, <2>4, <3>1
  <2>5. h' = "recv" => up' = Passed + Len(queue') BY <1>1, <1>3, <2>1, <2>2
  <2>6. h' = "put" => up' = Passed + 1 + Len(queue') BY <1>1, <1>3, <2>1, <2>2
  <2> QED BY <2>1, <2>2, <2>3, <2>4, <2>5, <2>6
<1>6. CASE wsUp /\ ~marked
  <2> DEFINE x == Msg("data", Head(queue))
  <2>1. Flows /\ WsSend(x, marked) BY <1>6 DEF TakeData, Flows
  <2>2. x \in Messages BY <1>3 DEF Msg, Messages
  <2>3. /\ Passed \in Nat /\ Passed >= 1 /\ Head(queue) = Passed
        /\ \A i \in 1..Len(queue') : queue'[i] # None => queue'[i] = Passed + i
        /\ h' = "recv" => up' = Passed + Len(queue')
        /\ h' = "put" => up' = Passed + 1 + Len(queue')
    BY <1>5, <2>1
  <2>4. InStream(x, Passed + 1) BY <2>3 DEF InStream
  <2> HIDE DEF x
  <2>5. WireInv' /\ PipeInv' /\ Passed' = Passed + 1
    <3>1. CASE filters
      <4>1. adapterQ' = Append(adapterQ, x) /\ wire' = wire BY <1>6, <2>1, <3>1 DEF WsSend
      <4>2. /\ Len(adapterQ') = Len(adapterQ) + 1
            /\ \A j \in 1..Len(adapterQ) : adapterQ'[j] = adapterQ[j]
            /\ adapterQ'[Len(adapterQ) + 1] = x
        BY <1>2, <2>2, <4>1, AppendIs
      <4>3. WireInv' BY <1>1, <4>1 DEF StreamInv, WireInv, InStream
      <4>4. Passed' = Passed + 1 BY <1>2, <4>1, <4>2 DEF Passed
      <4>5. ASSUME NEW j \in 1..Len(adapterQ') PROVE InStream(adapterQ'[j], Len(wire') + j)
        <5>1. CASE j \in 1..Len(adapterQ) BY <2>1, <4>1, <4>2, <5>1 DEF StreamInv, PipeInv
        <5>2. CASE j = Len(adapterQ) + 1
          <6>1. Len(wire') + j = Passed + 1 BY <1>2, <4>1, <5>2 DEF Passed
          <6> QED BY <2>4, <4>2, <5>2, <6>1
        <5> QED BY <1>2, <4>2, <5>1, <5>2
      <4>6. PipeInv' BY <1>1, <1>4, <3>1, <4>5 DEF PipeInv, InStream, Before
      <4> QED BY <4>3, <4>4, <4>6
    <3>2. CASE ~filters
      <4>1. adapterQ' = adapterQ /\ wire' = Append(wire, x) BY <2>1, <3>2 DEF WsSend
      <4>2. adapterQ = <<>> /\ Passed = Len(wire) BY <1>2, <3>2 DEF StreamInv, PipeInv, Passed
      <4>3. Len(wire') = Len(wire) + 1 BY <1>2, <2>2, <4>1, AppendIs
      <4>4. \A i \in 1..Len(wire) : InStream(wire[i], i) BY <1>4, WireIsStream DEF StreamInv
      <4>5. WireInv' BY <1>2, <2>2, <2>4, <4>1, <4>2, <4>4, WireGrows
      <4>6. Passed' = Passed + 1 BY <1>2, <4>1, <4>3 DEF Passed
      <4>7. PipeInv' BY <1>1, <1>4, <4>1, <4>2 DEF PipeInv, InStream, Before
      <4> QED BY <4>5, <4>6, <4>7
    <3> QED BY <3>1, <3>2
  <2>6. QueueInv' BY <2>3, <2>5 DEF QueueInv, None
  <2> QED BY <2>5, <2>6 DEF StreamInv
<1>7. CASE ~(wsUp /\ ~marked)
  <2>1. UNCHANGED <<wire, adapterQ>>
    <3>1. CASE ~wsUp BY <3>1 DEF TakeData, WsSendFails
    <3>2. CASE wsUp /\ marked
      <4>1. filters BY <3>2 DEF ControlInv, CloseInv
      <4> QED BY <3>2, <4>1 DEF TakeData, WsSend
    <3> QED BY <1>7, <3>1, <3>2
  <2>2. WireInv' /\ PipeInv' BY <1>1, <1>4, <2>1, PipeStill DEF StreamInv, Sending, Before
  <2>3. ~Flows' BY <1>1, <1>7 DEF Flows
  <2> QED BY <2>2, <2>3 DEF StreamInv, QueueInv
<1> QED BY <1>6, <1>7

\* The adapter's thread moves the next message on, or drops everything.
LEMMA ThreadKeepsStream ==
  ASSUME ControlInv, ControlInv', Onward, StreamInv, ThreadSends PROVE StreamInv'
<1>1. /\ wsUp /\ adapterQ # <<>> /\ adapterQ' = Tail(adapterQ)
      /\ wire' = IF marked THEN wire ELSE Append(wire, Head(adapterQ))
      /\ UNCHANGED <<filters, queue, up, wsUp, h, sl, r, cl, running, marked>>
  BY DEF ThreadSends, localVars, closeVars
<1>2. /\ wire \in Seq(Messages) /\ adapterQ \in Seq(Messages) /\ Len(wire) \in Nat
  BY DEF ControlInv, TypeOK
<1>3. /\ Len(adapterQ) \in Nat \ {0} /\ Len(adapterQ') = Len(adapterQ) - 1
      /\ \A j \in 1..Len(adapterQ) - 1 : adapterQ'[j] = adapterQ[j + 1]
      /\ Head(adapterQ) = adapterQ[1] /\ Head(adapterQ) \in Messages
  BY <1>1, <1>2, TailIs
<1>4. filters BY <1>1 DEF StreamInv, PipeInv
<1>5. CASE marked
  <2>1. WireInv' BY <1>1, <1>5 DEF StreamInv, WireInv, InStream
  <2>2. ~running BY <1>5 DEF ControlInv, CloseInv
  <2>3. h # "handshake" BY <1>1, <2>2 DEF StreamInv, PipeInv
  <2>4. PipeInv' BY <1>1, <1>4, <1>5, <2>2, <2>3 DEF PipeInv, Flows
  <2>5. QueueInv' BY <1>1, <1>5 DEF QueueInv, Flows
  <2> QED BY <2>1, <2>4, <2>5 DEF StreamInv
<1>6. CASE ~marked
  <2>1. Flows /\ wire' = Append(wire, Head(adapterQ)) BY <1>1, <1>6 DEF Flows
  <2>2. Len(wire') = Len(wire) + 1 BY <1>2, <1>3, <2>1, AppendIs
  <2>3. Passed' = Passed BY <1>2, <1>3, <2>2 DEF Passed
  <2>4. \A j \in 1..Len(adapterQ) : InStream(adapterQ[j], Len(wire) + j)
    BY <2>1 DEF StreamInv, PipeInv
  <2>5. InStream(Head(adapterQ), Len(wire) + 1) BY <1>3, <2>4
  <2>6. WireInv' BY <1>2, <1>3, <1>4, <2>1, <2>5, WireIsStream, WireGrows DEF StreamInv
  <2>7. ASSUME NEW j \in 1..Len(adapterQ') PROVE InStream(adapterQ'[j], Len(wire') + j)
    <3>1. j + 1 \in 1..Len(adapterQ) /\ adapterQ'[j] = adapterQ[j + 1] BY <1>3
    <3>2. Len(wire') + j = Len(wire) + (j + 1) BY <1>2, <2>2
    <3> QED BY <2>4, <3>1, <3>2
  <2>8. PipeInv' BY <1>1, <1>4, <2>3, <2>7 DEF PipeInv, InStream, StreamInv
  <2>9. QueueInv' BY <1>1, <2>1, <2>3 DEF QueueInv, StreamInv, None
  <2> QED BY <2>6, <2>8, <2>9 DEF StreamInv
<1> QED BY <1>5, <1>6

\* A connection that has not sent CONNECT hears nothing from the server.
LEMMA NothingHeard ==
  ASSUME ControlInv, PipeInv, FromServer PROVE h # "handshake"
<1>1. Len(wire) > 0 BY DEF FromServer, Connected, ControlInv, TypeOK
<1> QED BY <1>1 DEF FromServer, PipeInv, Passed, ControlInv, TypeOK

LEMMA StreamKept == ASSUME ControlInv, ControlInv', Onward, StreamInv, [Next]_vars PROVE StreamInv'
<1>0. /\ CloseInv /\ (h \in Before => sl = "none" /\ m = "none")
      /\ (sweep => ~wsUp)
  BY DEF ControlInv, StageInv
<1>1. CASE HandlerNext BY <1>1, HandlerKeepsStream
<1>2. CASE /\ AddsClose \/ UNCHANGED <<wire, adapterQ>>
           /\ UNCHANGED <<queue, up, sl>>
           /\ h' = h \/ h' = "sleep"
           /\ h = "handshake" /\ wsUp' => running' /\ r' = "idle"
  BY <1>2, StreamStill DEF Sending
<1>3. CASE SendNext
  <2>1. CASE TakeData BY <2>1, TakeDataKeepsStream
  <2>2. CASE TakeNone
    <3>1. UNCHANGED <<wire, adapterQ, h, running, r>> /\ sl' = "done" /\ h # "handshake"
      BY <1>0, <2>2 DEF TakeNone, wsVars, closeVars, Before
    <3>2. WireInv' /\ PipeInv' BY <3>1, PipeStill DEF StreamInv
    <3> QED BY <3>1, <3>2 DEF StreamInv, QueueInv, Live
  <2>3. CASE Sent \/ SendRaises \/ SendCancelled
    <3>1. UNCHANGED <<wire, adapterQ, queue, up, h, running, r>> /\ Live(sl) /\ h # "handshake"
      BY <1>0, <2>3 DEF Sent, SendRaises, SendCancelled, WsSendFails, wsVars, localVars, closeVars,
                        Live, Before
    <3> QED BY <3>1, StreamStill
  <2> QED BY <1>3, <2>1, <2>2, <2>3 DEF SendNext
<1>4. ASSUME NEW who \in Callers \ {"handler"}, NEW tell \in BOOLEAN, Close(who, tell),
             h # "handshake" \/ ~wsUp, UNCHANGED <<queue, up, sl, wsUp>>
      PROVE  StreamInv'
  <2>1. AddsClose \/ UNCHANGED <<wire, adapterQ>> BY <1>0, <1>4, CloseAdds DEF CloseStep
  <2>2. h' = h BY <1>4 DEF Close, CloseReturnsAtOnce, CloseBegins, CallerAt
  <2> QED BY <1>2, <1>4, <2>1, <2>2
<1>5. CASE MonitorNext
  <2>1. m = "waiting" /\ h # "handshake"
    BY <1>0, <1>5 DEF MonitorNext, MonitorAnswered, MonitorTimeout, MonitorCancelled, MonitorReady, Before
  <2>2. \/ \E tell \in BOOLEAN : Close("monitor", tell) /\ UNCHANGED <<queue, up, sl, wsUp>>
        \/ UNCHANGED <<wire, adapterQ, queue, up, sl, h>>
    BY <1>5 DEF MonitorNext, MonitorAnswered, MonitorTimeout, MonitorCancelled, wsVars, localVars
  <2> QED BY <1>2, <1>4, <2>1, <2>2 DEF Callers
<1>6. CASE ReceiveNext
  <2>1. h # "handshake" \/ ~wsUp
    BY <1>6, NothingHeard
       DEF ReceiveNext, RecvAnswer, RecvData, Written, WriteRaises, RecvClose, StreamInv, PipeInv
  <2>2. \/ \E tell \in BOOLEAN : Close("receiver", tell) /\ UNCHANGED <<queue, up, sl, wsUp>>
        \/ UNCHANGED <<wire, adapterQ, queue, up, sl, h, wsUp>>
    BY <1>6 DEF ReceiveNext, RecvAnswer, RecvData, Written, WriteRaises, RecvClose, wsVars, localVars
  <2> QED BY <1>2, <1>4, <2>1, <2>2 DEF Callers
<1>7. CASE CloseNext
  <2>1. CloseStep BY <1>7, CloseNextAdds
  <2>2. /\ UNCHANGED <<queue, up, sl, wsUp, running>> /\ (h' = h \/ h' = "sleep") /\ ~running
    BY <1>0, <1>7 DEF CloseNext, MonitorGone, SendGone, CloseSent, CloseEnds, CallerAt, wsVars, CloseInv
  <2>3. h # "handshake" \/ ~wsUp BY <2>2 DEF StreamInv, PipeInv
  <2> QED BY <1>2, <2>1, <2>2, <2>3 DEF CloseStep
<1>8. CASE SocketNext
  <2>1. CASE ThreadSends BY <2>1, ThreadKeepsStream
  <2>2. CASE WsLost BY <1>2, <2>2 DEF WsLost, localVars
  <2>3. CASE CleanUp
    <3>1. ~wsUp /\ UNCHANGED <<queue, up, sl, wsUp>> BY <1>0, <2>3 DEF CleanUp
    <3>2. Close("cleanup", FALSE) \/ UNCHANGED <<wire, adapterQ, h>> BY <2>3 DEF CleanUp, Close
    <3> QED BY <1>2, <1>4, <3>1, <3>2 DEF Callers
  <2> QED BY <1>8, <2>1, <2>2, <2>3 DEF SocketNext
<1>9. CASE UNCHANGED vars
  <2>1. UNCHANGED <<filters, wire, adapterQ, queue, up, sl, h, wsUp, running, marked, cl, r>>
    BY <1>9 DEF vars, localVars, wsVars, closeVars
  <2>2. WireInv' BY <2>1 DEF StreamInv, WireInv, InStream
  <2>3. PipeInv' BY <2>1 DEF StreamInv, PipeInv, Flows, Passed, InStream
  <2>4. QueueInv' BY <2>1 DEF StreamInv, QueueInv, Flows, Passed, Live
  <2> QED BY <2>2, <2>3, <2>4 DEF StreamInv
<1> QED BY <1>1, <1>3, <1>5, <1>6, <1>7, <1>8, <1>9 DEF Next

-----------------------------------------------------------------------------
\* What the server can know.

SendsMore == wire' = wire \/ \E x \in Messages : wire' = Append(wire, x)
TellsServer ==
  notify' /\ cl' \in PastSend /\ ~filters /\ wsUp => (cl \in PastSend /\ notify) \/ AddsClose
StartsSilently ==
  ~running' /\ ~notify' => (~running /\ ~notify) \/ srvShut' \/ srvReply' = "fail" \/ ~wsUp'

LEMMA CloseSendsMore == ASSUME CloseStep PROVE SendsMore /\ TellsServer
<1>1. CloseMsg \in Messages BY DEF CloseMsg, Msg, Messages
<1> QED BY <1>1 DEF CloseStep, AddsClose, SendsMore, TellsServer

LEMMA ClosesStay ==
  ASSUME wire \in Seq(Messages), SendsMore, NEW i \in 1..Len(wire)
  PROVE  i \in 1..Len(wire') /\ wire'[i] = wire[i]
<1>1. CASE wire' = wire BY <1>1
<1>2. ASSUME NEW x \in Messages, wire' = Append(wire, x)
      PROVE  i \in 1..Len(wire') /\ wire'[i] = wire[i]
  BY <1>2, AppendIs
<1> QED BY <1>1, <1>2 DEF SendsMore

LEMMA KnowKept ==
  ASSUME ControlInv, Onward, KnowInv, SendsMore, TellsServer, StartsSilently,
         event' # "none" => srvReply' = event',
         srvShut => srvShut', srvReply = "fail" => srvReply' = "fail"
  PROVE  KnowInv'
<1>1. ~running' /\ ~notify' => srvShut' \/ srvReply' = "fail" \/ ~wsUp'
  BY DEF KnowInv, StartsSilently, Onward
<1>2. ASSUME notify', cl' \in PastSend, ~filters', wsUp'
      PROVE  \E i \in 1..Len(wire') : wire'[i].type = "close"
  <2>1. wire \in Seq(Messages) BY DEF ControlInv, TypeOK
  <2>2. CASE AddsClose
    <3>1. CloseMsg \in Messages /\ CloseMsg.type = "close" BY DEF CloseMsg, Msg, Messages
    <3>2. Len(wire) + 1 \in 1..Len(wire') /\ wire'[Len(wire) + 1] = CloseMsg
      BY <2>1, <2>2, <3>1, AppendIs DEF AddsClose
    <3> QED BY <3>1, <3>2
  <2>3. CASE cl \in PastSend /\ notify
    <3>1. PICK i \in 1..Len(wire) : wire[i].type = "close" BY <1>2, <2>3 DEF KnowInv, Onward
    <3> QED BY <2>1, <3>1, ClosesStay
  <2> QED BY <1>2, <2>2, <2>3 DEF TellsServer, Onward
<1> QED BY <1>1, <1>2 DEF KnowInv

LEMMA SendsMoreBySend == ASSUME NEW x \in Messages, NEW closed, WsSend(x, closed) PROVE SendsMore
BY DEF WsSend, SendsMore

\* A step of which the server's answers are no part.
LEMMA KnowStill ==
  ASSUME ControlInv, Onward, KnowInv, SendsMore, TellsServer, StartsSilently,
         UNCHANGED <<event, srvReply, srvShut>>
  PROVE  KnowInv'
BY KnowKept DEF KnowInv

\* close() with a CLOSE message, or by a task that knows that none is needed.
LEMMA KnowClose ==
  ASSUME ControlInv, Onward, KnowInv, NEW who, NEW tell \in BOOLEAN, Close(who, tell),
         UNCHANGED <<event, srvReply>>, srvShut => srvShut',
         ~tell => srvShut' \/ srvReply' = "fail" \/ ~wsUp'
  PROVE  KnowInv'
<1>1. /\ CloseStep /\ (running => notify' = tell) /\ (~running => notify' = notify)
  BY CloseAdds DEF ControlInv
<1>2. StartsSilently BY <1>1 DEF StartsSilently
<1> QED BY <1>1, <1>2, CloseSendsMore, KnowKept DEF KnowInv

LEMMA HandlerKeepsKnow ==
  ASSUME ControlInv, Onward, KnowInv, HandlerNext PROVE KnowInv'
<1>1. UNCHANGED <<event, srvReply, srvShut>>
  BY DEF HandlerNext, HandshakeFails, Blocked, SendConnect, ConnectSent, Answered, AnswerTimeout,
         Refused, Replied, LocalData, PutDone, LocalEnd, PutNoneDone, Forget, serverVars
<1>2. CASE Close("handler", TRUE) BY <1>1, <1>2, KnowClose
<1>3. CASE SendsMore /\ UNCHANGED closeVars
  BY <1>1, <1>3, KnowStill DEF TellsServer, StartsSilently, closeVars
<1>4. ASSUME NEW q, Finish(q) PROVE Close("handler", TRUE) \/ (SendsMore /\ UNCHANGED closeVars)
  BY <1>4 DEF Finish, SendsMore
<1>5. CASE HandshakeFails \/ Refused \/ LocalData \/ PutDone \/ LocalEnd \/ PutNoneDone
  BY <1>2, <1>3, <1>4, <1>5
     DEF HandshakeFails, Refused, LocalData, PutDone, LocalEnd, PutNoneDone, SendsMore
<1>6. CASE SendConnect
  <2>1. Msg("connect", 0) \in Messages BY DEF Msg, Messages
  <2>2. CASE WsSend(Msg("connect", 0), marked) /\ UNCHANGED closeVars
    BY <1>3, <2>1, <2>2, SendsMoreBySend
  <2> QED BY <1>2, <1>6, <2>2 DEF SendConnect
<1>7. CASE Blocked \/ ConnectSent \/ Answered \/ AnswerTimeout \/ Replied \/ Forget
  BY <1>3, <1>7 DEF Blocked, ConnectSent, Answered, AnswerTimeout, Replied, Forget, SendsMore, wsVars
<1> QED BY <1>5, <1>6, <1>7 DEF HandlerNext

LEMMA SendKeepsKnow == ASSUME ControlInv, Onward, KnowInv, SendNext PROVE KnowInv'
<1>1. UNCHANGED <<event, srvReply, srvShut, closeVars>>
  BY DEF SendNext, TakeNone, TakeData, Sent, SendRaises, SendCancelled, serverVars
<1>2. SendsMore
  <2>1. CASE TakeData
    <3>1. queue \in Seq(0..MaxUp) /\ queue # <<>> BY <2>1 DEF TakeData, ControlInv, TypeOK
    <3>2. Head(queue) \in 0..MaxUp BY <3>1, TailIs
    <3>3. Msg("data", Head(queue)) \in Messages BY <3>2 DEF Msg, Messages
    <3>4. CASE WsSend(Msg("data", Head(queue)), marked) BY <3>3, <3>4, SendsMoreBySend
    <3>5. CASE WsSendFails BY <3>5 DEF WsSendFails, SendsMore
    <3> QED BY <2>1, <3>4, <3>5 DEF TakeData
  <2>2. CASE TakeNone \/ Sent \/ SendRaises \/ SendCancelled
    BY <2>2 DEF TakeNone, Sent, SendRaises, SendCancelled, SendsMore, wsVars, WsSendFails
  <2> QED BY <2>1, <2>2 DEF SendNext
<1> QED BY <1>1, <1>2, KnowStill DEF TellsServer, StartsSilently, closeVars

LEMMA KnowInvKept == ASSUME ControlInv, Onward, KnowInv, [Next]_vars PROVE KnowInv'
<1>1. CASE HandlerNext BY <1>1, HandlerKeepsKnow
<1>2. CASE SendNext BY <1>2, SendKeepsKnow
<1>3. CASE UNCHANGED <<event, srvReply, srvShut, closeVars>> /\ SendsMore
  BY <1>3, KnowStill DEF TellsServer, StartsSilently, closeVars
<1>4. CASE MonitorNext
  <2>1. UNCHANGED <<event, srvReply, srvShut, wsUp>>
    BY <1>4 DEF MonitorNext, MonitorAnswered, MonitorTimeout, MonitorCancelled, serverVars, wsVars
  <2>2. \/ Close("monitor", TRUE)
        \/ event = "fail" /\ Close("monitor", FALSE)
        \/ UNCHANGED <<wire, closeVars>>
    BY <1>4 DEF MonitorNext, MonitorAnswered, MonitorTimeout, MonitorCancelled, wsVars
  <2>3. CASE Close("monitor", TRUE) BY <2>1, <2>3, KnowClose
  <2>4. CASE event = "fail" /\ Close("monitor", FALSE)
    <3>1. srvReply' = "fail" BY <2>1, <2>4 DEF KnowInv
    <3> QED BY <2>1, <2>4, <3>1, KnowClose
  <2> QED BY <1>3, <2>1, <2>2, <2>3, <2>4 DEF SendsMore
<1>5. CASE RecvAnswer
  <2>1. event' # "none" => srvReply' = event' BY <1>5 DEF RecvAnswer, KnowInv
  <2>2. srvReply # "fail" /\ UNCHANGED <<srvShut, wire, closeVars>> BY <1>5 DEF RecvAnswer, wsVars
  <2> QED BY <2>1, <2>2, KnowKept DEF SendsMore, TellsServer, StartsSilently, closeVars
<1>6. CASE RecvData
  BY <1>3, <1>6, KnowClose DEF RecvData, SendsMore
<1>7. CASE Written BY <1>3, <1>7 DEF Written, SendsMore, wsVars, serverVars
<1>8. CASE WriteRaises BY <1>8, KnowClose DEF WriteRaises, serverVars
<1>9. CASE RecvClose
  <2>1. UNCHANGED <<event, srvReply>> /\ srvShut' = TRUE BY <1>9 DEF RecvClose
  <2>2. CASE Close("receiver", FALSE) BY <2>1, <2>2, KnowClose
  <2>3. CASE UNCHANGED <<wire, closeVars>>
    BY <2>1, <2>3, KnowKept DEF KnowInv, SendsMore, TellsServer, StartsSilently, closeVars
  <2> QED BY <1>9, <2>2, <2>3 DEF RecvClose
<1>10. CASE CloseNext
  <2>1. CloseStep /\ UNCHANGED <<running, notify>> BY <1>10, CloseNextAdds
  <2>2. UNCHANGED <<event, srvReply, srvShut>>
    BY <1>10 DEF CloseNext, MonitorGone, SendGone, CloseSent, CloseEnds, serverVars
  <2> QED BY <2>1, <2>2, CloseSendsMore, KnowStill DEF StartsSilently
<1>11. CASE SocketNext
  <2>1. UNCHANGED <<event, srvReply, srvShut>>
    BY <1>11 DEF SocketNext, WsLost, CleanUp, ThreadSends, serverVars
  <2>2. CASE WsLost BY <1>3, <2>1, <2>2 DEF WsLost, SendsMore
  <2>3. CASE CleanUp
    <3>1. ~wsUp' BY <2>3 DEF CleanUp, ControlInv, StageInv
    <3>2. CASE Close("cleanup", FALSE) BY <2>1, <3>1, <3>2, KnowClose
    <3> QED BY <1>3, <2>1, <2>3, <3>2 DEF CleanUp, Close, SendsMore
  <2>4. CASE ThreadSends
    <3>1. adapterQ \in Seq(Messages) /\ adapterQ # <<>> BY <2>4 DEF ThreadSends, ControlInv, TypeOK
    <3>2. Head(adapterQ) \in Messages BY <3>1, TailIs
    <3>3. SendsMore BY <2>4, <3>2 DEF ThreadSends, SendsMore
    <3> QED BY <1>3, <2>1, <2>4, <3>3 DEF ThreadSends
  <2> QED BY <1>11, <2>2, <2>3, <2>4 DEF SocketNext
<1>12. CASE UNCHANGED vars
  BY <1>3, <1>12 DEF vars, serverVars, wsVars, SendsMore
<1> QED BY <1>1, <1>2, <1>4, <1>5, <1>6, <1>7, <1>8, <1>9, <1>10, <1>11, <1>12 DEF Next, ReceiveNext

-----------------------------------------------------------------------------
\* The download.

Early == {"handshake", "sendConnect", "waiting"}

\* One more reply or chunk.
LEMMA DownGrows ==
  ASSUME DownInv, toClient \in Seq(Writes), down \in Nat, down' \in Nat,
         NEW x \in Writes, toClient' = Append(toClient, x),
         \/ x.type # "data" /\ down' = down /\ h \in Early /\ h' \notin Early
         \/ x.type = "data" /\ x.n = down + 1 /\ down' = down + 1 /\ h' = h
  PROVE  DownInv'
<1>1. /\ Len(toClient) \in Nat /\ Len(toClient') = Len(toClient) + 1
      /\ \A i \in 1..Len(toClient) : toClient'[i] = toClient[i] /\ toClient[i] \in Writes
      /\ toClient'[Len(toClient) + 1] = x
  BY AppendIs
<1>2. h' \in Early => \A i \in 1..Len(toClient') : toClient'[i].type = "data"
  BY <1>1 DEF DownInv, Early
<1>3. ASSUME NEW i \in 1..Len(toClient'), toClient'[i].type = "data" PROVE toClient'[i].n <= down'
  <2>1. CASE i \in 1..Len(toClient)
    <3>1. toClient[i].n <= down /\ toClient[i].n \in Nat BY <1>1, <1>3, <2>1 DEF DownInv, Writes
    <3> QED BY <1>1, <2>1, <3>1
  <2>2. CASE i = Len(toClient) + 1 BY <1>1, <1>3, <2>2
  <2> QED BY <1>1, <2>1, <2>2
<1>4. ASSUME NEW i \in 1..Len(toClient'), NEW j \in 1..Len(toClient'), i < j
      PROVE  /\ toClient'[i].type # "data" => toClient'[j].type = "data"
             /\ toClient'[i].type = "data" /\ toClient'[j].type = "data" => toClient'[i].n < toClient'[j].n
  <2>1. i \in 1..Len(toClient) BY <1>1, <1>4
  <2>2. CASE j \in 1..Len(toClient) BY <1>1, <1>4, <2>1, <2>2 DEF DownInv, DownloadInOrder
  <2>3. CASE j = Len(toClient) + 1
    <3>1. toClient'[i] = toClient[i] /\ toClient'[j] = x BY <1>1, <2>1, <2>3
    <3>2. CASE x.type = "data" /\ x.n = down + 1
      <4>1. toClient[i].type = "data" => toClient[i].n <= down /\ toClient[i].n \in Nat
        BY <1>1, <2>1 DEF DownInv, Writes
      <4> QED BY <3>1, <3>2, <4>1
    <3>3. CASE x.type # "data" /\ h \in Early BY <2>1, <3>1, <3>3 DEF DownInv, Early
    <3> QED BY <3>2, <3>3
  <2> QED BY <1>1, <2>2, <2>3
<1>5. DownloadInOrder'
  <2>1. DOMAIN toClient' = 1..Len(toClient') BY AppendIs
  <2> QED BY <1>4, <2>1 DEF DownloadInOrder
<1> QED BY <1>2, <1>3, <1>5 DEF DownInv, Early

LEMMA DownStill ==
  ASSUME DownInv, toClient \in Seq(Writes), down \in Nat, down' \in Nat, down' >= down,
         UNCHANGED toClient, h' \in Early => h \in Early
  PROVE  DownInv'
<1>1. \A i \in 1..Len(toClient) : toClient[i].type = "data" => toClient[i].n \in Nat /\ toClient[i].n <= down
  <2>1. \A i \in 1..Len(toClient) : toClient[i] \in Writes OBVIOUS
  <2> QED BY <2>1 DEF DownInv, Writes
<1>2. \A i \in 1..Len(toClient') : toClient'[i].type = "data" => toClient'[i].n <= down' BY <1>1
<1>3. DownloadInOrder' BY DEF DownInv, DownloadInOrder
<1> QED BY <1>2, <1>3 DEF DownInv, Early

LEMMA DownKept == ASSUME ControlInv, ControlInv', DownInv, [Next]_vars PROVE DownInv'
<1>0. toClient \in Seq(Writes) /\ down \in Nat /\ down' \in Nat
  BY BoundsAssumption DEF ControlInv, TypeOK
<1>1. ASSUME UNCHANGED <<toClient, down>>, h' \in Early => h \in Early PROVE DownInv'
  BY <1>0, <1>1, DownStill
<1>2. ASSUME NEW q, Finish(q) PROVE h' \notin Early
  BY <1>2 DEF Finish, Close, CloseReturnsAtOnce, CloseBegins, CallerAt, Early
<1>3. ASSUME NEW who, NEW tell, Close(who, tell) PROVE h' \in Early => h' = h
  BY <1>3 DEF Close, CloseReturnsAtOnce, CloseBegins, CallerAt, Early
<1>4. CASE Blocked \/ ConnectSent \/ Answered \/ AnswerTimeout
  <2>1. CASE UNCHANGED toClient
    BY <1>1, <1>4, <2>1 DEF Blocked, ConnectSent, Answered, AnswerTimeout, Early, serverVars
  <2>2. ASSUME NEW type \in {"ok", "fail"}, toClient' = Append(toClient, Msg(type, 0)),
               h \in Early, h' \notin Early, UNCHANGED down
        PROVE  DownInv'
    <3>1. Msg(type, 0) \in Writes /\ Msg(type, 0).type # "data" BY DEF Msg, Writes
    <3> QED BY <1>0, <2>2, <3>1, DownGrows
  <2>3. event \in {"none", "ok", "fail"} BY DEF ControlInv, TypeOK
  <2> QED BY <1>4, <2>1, <2>2, <2>3
          DEF Blocked, ConnectSent, Answered, AnswerTimeout, Write, Early, serverVars
<1>5. CASE RecvData
  <2>1. down' = down + 1 /\ (h' \in Early => h' = h) BY <1>3, <1>5 DEF RecvData
  <2>2. CASE UNCHANGED toClient BY <1>0, <2>1, <2>2, DownStill
  <2>3. CASE toClient' = Append(toClient, Msg("data", down')) /\ h' = h
    <3>1. Msg("data", down') \in Writes /\ Msg("data", down').type = "data"
          /\ Msg("data", down').n = down + 1
      BY <1>0, <2>1 DEF Msg, Writes
    <3> QED BY <1>0, <2>1, <2>3, <3>1, DownGrows
  <2> QED BY <1>5, <2>2, <2>3 DEF RecvData, Write
<1>6. CASE HandlerNext
  <2>1. CASE HandshakeFails \/ SendConnect \/ Refused \/ Replied \/ Forget
    BY <1>1, <1>3, <2>1 DEF HandshakeFails, SendConnect, Refused, Replied, Forget, Early, serverVars,
                            localVars
  <2>2. CASE LocalData \/ PutDone \/ LocalEnd \/ PutNoneDone
    BY <1>1, <1>2, <1>3, <2>2 DEF LocalData, PutDone, LocalEnd, PutNoneDone, Early, serverVars
  <2> QED BY <1>4, <1>6, <2>1, <2>2 DEF HandlerNext
<1>7. CASE SendNext
  BY <1>1, <1>7 DEF SendNext, TakeNone, TakeData, Sent, SendRaises, SendCancelled, localVars, serverVars
<1>8. CASE MonitorNext
  BY <1>1, <1>3, <1>8 DEF MonitorNext, MonitorAnswered, MonitorTimeout, MonitorCancelled, localVars, serverVars
<1>9. CASE RecvAnswer \/ Written \/ WriteRaises \/ RecvClose
  BY <1>1, <1>3, <1>9 DEF RecvAnswer, Written, WriteRaises, RecvClose, localVars, serverVars
<1>10. CASE CloseNext
  <2>1. UNCHANGED <<toClient, down>> /\ (h' = h \/ h' = "sleep")
    BY <1>10 DEF CloseNext, MonitorGone, SendGone, CloseSent, CloseEnds, CallerAt, serverVars
  <2> QED BY <1>1, <2>1 DEF Early
<1>11. CASE SocketNext
  BY <1>1, <1>3, <1>11 DEF SocketNext, WsLost, CleanUp, ThreadSends, Close, localVars, serverVars
<1>12. CASE UNCHANGED vars BY <1>1, <1>12 DEF vars, localVars, serverVars
<1> QED BY <1>5, <1>6, <1>7, <1>8, <1>9, <1>10, <1>11, <1>12 DEF Next, ReceiveNext

-----------------------------------------------------------------------------
LEMMA InitIInv == Init => IInv
<1> SUFFICES ASSUME Init PROVE IInv OBVIOUS
<1>1. ControlInv BY InitControl
<1>2. WireInv BY DEF Init, WireInv
<1>3. PipeInv BY DEF Init, PipeInv, Passed
<1>4. QueueInv BY DEF Init, QueueInv, Live
<1>5. KnowInv BY DEF Init, KnowInv, PastSend
<1>6. DownInv BY DEF Init, DownInv, DownloadInOrder
<1> QED BY <1>1, <1>2, <1>3, <1>4, <1>5, <1>6 DEF IInv

LEMMA IInvKept == IInv /\ [Next]_vars => IInv'
<1> SUFFICES ASSUME IInv, [Next]_vars PROVE IInv' OBVIOUS
<1>1. ControlInv' BY ControlKept DEF IInv
<1>2. Onward BY GoesOnward DEF IInv
<1>3. StreamInv' BY <1>1, <1>2, StreamKept DEF IInv, StreamInv
<1>4. KnowInv' BY <1>2, KnowInvKept DEF IInv
<1>5. DownInv' BY <1>1, DownKept DEF IInv
<1> QED BY <1>1, <1>3, <1>4, <1>5 DEF IInv, StreamInv

LEMMA StreamIsOrdered == ASSUME TypeOK, WireInv PROVE UploadInOrder /\ CloseEndsUpload
<1>1. wire \in Seq(Messages) /\ DOMAIN wire = 1..Len(wire) /\ Len(wire) \in Nat BY DEF TypeOK
<1>2. CloseMsg.type = "close" /\ ConnectMsg.type = "connect" /\ \A n : Msg("data", n).type = "data"
  BY DEF CloseMsg, ConnectMsg, Msg
<1>3. UploadInOrder
  <2> SUFFICES ASSUME NEW i \in 1..Len(wire), wire[i].type = "data"
               PROVE  i > 1 /\ wire[1].type = "connect" /\ wire[i] = Msg("data", i - 1)
    BY <1>1 DEF UploadInOrder
  <2>1. InStream(wire[i], i) BY <1>2 DEF WireInv
  <2>2. i > 1 /\ wire[i] = Msg("data", i - 1) BY <1>2, <2>1 DEF InStream
  <2>3. 1 \in 1..Len(wire) /\ 1 # Len(wire) BY <1>1, <2>2
  <2>4. InStream(wire[1], 1) BY <2>3 DEF WireInv
  <2> QED BY <1>2, <2>2, <2>4 DEF InStream
<1>4. CloseEndsUpload
  <2> SUFFICES ASSUME NEW i \in 1..Len(wire), wire[i].type = "close" PROVE i = Len(wire)
    BY <1>1 DEF CloseEndsUpload
  <2>1. ~InStream(wire[i], i) BY <1>2 DEF InStream
  <2> QED BY <2>1 DEF WireInv
<1> QED BY <1>3, <1>4

LEMMA KnowIsEnough == ASSUME TypeOK, CloseInv, KnowInv PROVE ServerLearnsOfEnd
<1> SUFFICES ASSUME cl = "done", ~filters PROVE ServerKnows BY DEF ServerLearnsOfEnd
<1>1. ~running BY DEF CloseInv
<1>2. wsUp => \/ srvShut \/ srvReply = "fail"
              \/ \E i \in 1..Len(wire) : wire[i].type = "close"
  BY <1>1 DEF KnowInv, PastSend, TypeOK
<1>3. DOMAIN wire = 1..Len(wire) BY DEF TypeOK
<1> QED BY <1>2, <1>3 DEF ServerKnows, TypeOK

\* IInv holds in every state of every run.
THEOREM Invariant == Spec => []IInv
BY InitIInv, IInvKept, PTL DEF Spec

\* Every variable keeps its type, and _send_queue its capacity.
THEOREM TypeCorrect == Spec => []TypeOK
<1>1. IInv => TypeOK BY DEF IInv, ControlInv
<1> QED BY Invariant, <1>1, PTL

\* The server gets CONNECT first and then the chunks of the local client, in order
\* and without a gap, through _send_queue and the queue of the adapter.
THEOREM UploadOrdered == Spec => []UploadInOrder
<1>1. IInv => UploadInOrder BY StreamIsOrdered DEF IInv, ControlInv
<1> QED BY Invariant, <1>1, PTL

\* close() has ended _send_loop before it sends CLOSE, so nothing follows it.
THEOREM NothingAfterClose == Spec => []CloseEndsUpload
<1>1. IInv => CloseEndsUpload BY StreamIsOrdered DEF IInv, ControlInv
<1> QED BY Invariant, <1>1, PTL

\* The local client gets one reply and the data of the server in order.
THEOREM DownloadOrdered == Spec => []DownloadInOrder
<1>1. IInv => DownloadInOrder BY DEF IInv, DownInv
<1> QED BY Invariant, <1>1, PTL

\* After close() the server knows of the end, whichever task called it and with
\* whichever notify_server, if the adapter does not filter.
THEOREM ServerIsTold == Spec => []ServerLearnsOfEnd
<1>1. IInv => ServerLearnsOfEnd BY KnowIsEnough DEF IInv, ControlInv
<1> QED BY Invariant, <1>1, PTL

\* _send_loop does not end before close() unless the WebSocket is lost.
THEOREM UploadAlive == Spec => []SendLoopAlive
<1>1. IInv => SendLoopAlive BY DEF IInv, ControlInv, StageInv
<1> QED BY Invariant, <1>1, PTL

\* No _send_loop is alive once close() sends CLOSE, and none is started afterwards.
THEOREM SendLoopEnded == Spec => []NoSendLoopLeft
<1>1. IInv => NoSendLoopLeft BY DEF IInv, ControlInv, StageInv
<1> QED BY Invariant, <1>1, PTL
===============================================================================
