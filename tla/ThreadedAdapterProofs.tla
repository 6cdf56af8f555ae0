------------------------ MODULE ThreadedAdapterProofs ------------------------
(***************************************************************************)
(* The order of the messages through a threaded adapter, in both           *)
(* directions, for every set of connections and every size of the queues.  *)
(*                                                                         *)
(* A message of a connection is on the WebSocket, in the hands of the send *)
(* thread, in _send_queue, or waits for room in it.  Ordered says that     *)
(* each place holds later messages than the places after it, and that the  *)
(* next one a connection will send is later still; it needs what the       *)
(* threads and coroutines can hold at each of their steps (StepInv).       *)
(* Likewise Handed for what the peer sends: a message of it is with recv() *)
(* or in _recv_queue, was dropped, or is in the hands of the receive       *)
(* thread, whose buffer goes on where the others end (HoldInv).            *)
(***************************************************************************)
EXTENDS ThreadedAdapter, SequenceTheorems, TLAPS

\* A put() waits only for a coroutine that is not ready to send, one for each
\* connection; the IO thread of v1 meets no sentinel.
StepInv ==
  /\ \A m \in waiting : m[2] <= number[m[1]] /\ sender[m[1]] # "ready"
  /\ \A m, n \in waiting : m[1] = n[1] => m = n
  /\ sendThread = "write" => inHand # Sentinel
  /\ kind = "v1" => /\ sendThread \in {"none", "done"}
                    /\ \A k \in 1..Len(sendQueue) : sendQueue[k] # Sentinel
  /\ dial = "dialling" => recvThread = "none"

\* Of two messages of one connection, m is the earlier one.
Precedes(m, n) == m # Sentinel /\ m[1] = n[1] => m[2] < n[2]

AfterWire(w, n)  == \A i \in 1..Len(w[n[1]]) : w[n[1]][i] < n[2]
AfterQueue(q, n) == \A k \in 1..Len(q) : Precedes(q[k], n)
AfterAll(n) == AfterWire(wire, n) /\ Precedes(inHand, n) /\ AfterQueue(sendQueue, n)

Ordered ==
  /\ SentInOrder
  /\ inHand # Sentinel => AfterWire(wire, inHand)
  /\ \A k \in 1..Len(sendQueue) : sendQueue[k] # Sentinel =>
       /\ AfterWire(wire, sendQueue[k]) /\ Precedes(inHand, sendQueue[k])
       /\ \A l \in 1..Len(sendQueue) : l < k => Precedes(sendQueue[l], sendQueue[k])
  /\ \A m \in waiting : AfterAll(m)
  /\ \A c \in Conns : AfterAll(NextMessage(c))

\* What the receive thread holds at each of its places.
HoldInv ==
  /\ recvThread \in {"none", "top", "write"} => recvBuffer = <<>>
  /\ recvThread = "put" => recvBuffer # <<>>
  /\ recvThread = "check" => kind = "v2"
  /\ kind # "v1" /\ recvThread = "receive" => recvBuffer = <<>>
  /\ kind # "v1" /\ recvThread \in {"check", "put"} => Len(recvBuffer) = 1
  /\ LeftInHand

\* The end is put at last.
EndInv ==
  \A k \in 1..Len(recvQueue) :
    recvQueue[k] = End => k = Len(recvQueue) /\ recvThread \in {"cleanup", "done"}

\* What was received so far is handed to recv(), is in _recv_queue, was dropped, or
\* is in the buffer of the thread.
Handed ==
  /\ \A i, j \in 1..Len(got) : i < j => got[i] < got[j]
  /\ \A i \in 1..Len(got), k \in 1..Len(recvQueue) : recvQueue[k] # End => got[i] < recvQueue[k]
  /\ \A k, l \in 1..Len(recvQueue) :
       k < l /\ recvQueue[k] # End /\ recvQueue[l] # End => recvQueue[k] < recvQueue[l]

Settled == received - Len(recvBuffer)
Held == Settled \in Nat /\ \A k \in 1..Len(recvBuffer) : recvBuffer[k] = Settled + k
Counted ==
  /\ \A i \in 1..Len(got) : got[i] <= Settled /\ got[i] \notin dropped
  /\ \A k \in 1..Len(recvQueue) : recvQueue[k] <= Settled /\ recvQueue[k] \notin dropped
  /\ \A d \in dropped : d <= Settled
  /\ \A n \in 1..Settled :
       \/ n \in dropped
       \/ \E i \in 1..Len(got) : got[i] = n
       \/ \E k \in 1..Len(recvQueue) : recvQueue[k] = n

IInv == TypeOK /\ StepInv /\ HoldInv /\ EndInv /\ Ordered /\ Handed /\ Held /\ Counted

-----------------------------------------------------------------------------
\* Sequences and messages.

LEMMA AppendIs ==
  ASSUME NEW S, NEW q \in Seq(S), NEW e \in S
  PROVE  /\ Append(q, e) \in Seq(S) /\ Len(q) \in Nat /\ Len(Append(q, e)) = Len(q) + 1
         /\ \A i \in 1..Len(q) : Append(q, e)[i] = q[i]
         /\ Append(q, e)[Len(q) + 1] = e
OBVIOUS

LEMMA TailIs ==
  ASSUME NEW S, NEW q \in Seq(S), q # <<>>
  PROVE  /\ Tail(q) \in Seq(S) /\ Len(q) \in Nat \ {0} /\ Len(Tail(q)) = Len(q) - 1
         /\ \A i \in 1..Len(q) - 1 : Tail(q)[i] = q[i + 1]
         /\ Head(q) = q[1] /\ Head(q) \in S
OBVIOUS

LEMMA TailIsEmpty ==
  ASSUME NEW S, NEW q \in Seq(S), q # <<>> PROVE Tail(q) = <<>> <=> Len(q) = 1
<1>1. Tail(q) \in Seq(S) /\ Len(Tail(q)) = Len(q) - 1 /\ Len(q) \in Nat BY TailIs
<1>2. Tail(q) = <<>> <=> Len(Tail(q)) = 0 BY <1>1, EmptySeq
<1>3. Len(Tail(q)) = 0 <=> Len(q) = 1 BY <1>1
<1> QED BY <1>2, <1>3

LEMMA ElementIs == ASSUME NEW S, NEW q \in Seq(S), NEW i \in 1..Len(q) PROVE q[i] \in S
OBVIOUS

\* _send_queue holds messages and the sentinel, which is none.
Items == Messages \cup {Sentinel}

LEMMA MessageIs ==
  ASSUME NEW m \in Messages PROVE m # Sentinel /\ m[1] \in Conns /\ m[2] \in 1..MaxMessages
BY DEF Messages, Sentinel

LEMMA NextMessageIs ==
  ASSUME TypeOK, NEW c \in Conns
  PROVE  /\ NextMessage(c) \in Conns \X Nat /\ NextMessage(c)[1] = c
         /\ NextMessage(c)[2] = number[c] + 1 /\ number[c] \in Nat
         /\ number[c] < MaxMessages => NextMessage(c) \in Messages
<1>1. number[c] \in 0..MaxMessages BY DEF TypeOK
<1>2. MaxMessages \in Nat BY AdapterAssumption
<1> QED BY <1>1, <1>2 DEF NextMessage, Messages

\* What the thread writes goes to the end of its connection.
LEMMA SentIs ==
  ASSUME TypeOK, NEW m \in Messages
  PROVE  /\ Sent(m) \in [Conns -> Seq(1..MaxMessages)]
         /\ \A c \in Conns : c # m[1] => Sent(m)[c] = wire[c]
         /\ Sent(m)[m[1]] = Append(wire[m[1]], m[2])
<1>1. m[1] \in Conns /\ m[2] \in 1..MaxMessages BY MessageIs
<1>2. wire \in [Conns -> Seq(1..MaxMessages)] BY DEF TypeOK
<1>3. Append(wire[m[1]], m[2]) \in Seq(1..MaxMessages) BY <1>1, <1>2, AppendIs
<1> QED BY <1>1, <1>2, <1>3 DEF Sent

-----------------------------------------------------------------------------
\* Types.

ControlTypes ==
  /\ kind \in Kinds /\ running \in BOOLEAN
  /\ connecting \in {"waiting", "returned", "raised"} /\ dial \in {"dialling", "up", "failed"}
  /\ ws \in {"none", "open", "closed"} /\ link \in {"up", "stuck", "silent", "broken"}
  /\ sendThread \in {"none", "top", "get", "write", "done"}
  /\ recvThread \in {"none", "top", "receive", "check", "put", "write", "finally", "mark", "cleanup", "done"}
  /\ receiver \in {"ready", "get", "ended"} /\ closing \in {"no", "join", "done"}
SendTypes ==
  /\ sendQueue \in Seq(Items) /\ Len(sendQueue) <= SendCapacity
  /\ waiting \subseteq Messages /\ closedIds \subseteq Conns
  /\ sender \in [Conns -> {"ready", "blocked", "raised", "closed"}]
  /\ number \in [Conns -> 0..MaxMessages]
  /\ inHand \in Items /\ wire \in [Conns -> Seq(1..MaxMessages)]
RecvTypes ==
  /\ recvQueue \in Seq(0..MaxInbound) /\ Len(recvQueue) <= RecvCapacity
  /\ received \in 0..MaxInbound /\ recvBuffer \in Seq(1..MaxInbound) /\ dropped \subseteq 1..MaxInbound
  /\ got \in Seq(1..MaxInbound)

LEMMA TypeParts == TypeOK <=> ControlTypes /\ SendTypes /\ RecvTypes
BY DEF TypeOK, ControlTypes, SendTypes, RecvTypes, Items

LEMMA TypePartsPrimed == TypeOK' <=> ControlTypes' /\ SendTypes' /\ RecvTypes'
BY DEF TypeOK, ControlTypes, SendTypes, RecvTypes, Items

LEMMA ControlTypesKept == ASSUME TypeOK, [Next]_vars PROVE ControlTypes'
<1>1. ControlTypes BY TypeParts
<1>2. CASE DialOk \/ DialFails \/ ConnectReturns \/ ConnectTimesOut
  BY <1>1, <1>2 DEF DialOk, DialFails, ConnectReturns, ConnectTimesOut, ControlTypes, connectVars, readVars
<1>3. ASSUME NEW c \in Conns, Send(c) \/ MarkConnectionClosed(c) PROVE ControlTypes'
  BY <1>1, <1>3 DEF Send, MarkConnectionClosed, ControlTypes, connectVars, readVars
<1>4. ASSUME NEW m \in Messages, PutGoesThrough(m) PROVE ControlTypes'
  BY <1>1, <1>4 DEF PutGoesThrough, ControlTypes, connectVars, readVars
<1>5. CASE Recv \/ CloseStarts \/ CloseEnds
  BY <1>1, <1>5 DEF Recv, RecvStarts, RecvGets, RecvGivesUp, CloseStarts, CloseEnds, ControlTypes,
                    connectVars, readVars
<1>6. CASE SendThread
  BY <1>1, <1>6 DEF SendThread, SendThreadTop, NothingToSend, TakeMessage, WriteMessage, SendThreadEnds,
                    ControlTypes, connectVars, readVars
<1>7. CASE RecvThread
  <2>1. CASE RecvThreadTop \/ Receive \/ CheckRunning \/ ReceiveFails \/ PutMessage \/ DropMessage
    BY <1>1, <2>1 DEF RecvThreadTop, Receive, CheckRunning, ReceiveFails, PutMessage, DropMessage, AfterPut,
                      RecvThreadGoes, ControlTypes, connectVars, readVars
  <2>2. CASE ResetRunning \/ MarkEnd \/ CleanUp
    BY <1>1, <2>2 DEF ResetRunning, MarkEnd, CleanUp, RecvThreadGoes, ControlTypes, connectVars, readVars
  <2>3. CASE Select \/ IoReads \/ IoHasRead \/ IoFails
    BY <1>1, <2>3 DEF Select, IoReads, IoHasRead, IoFails, RecvThreadGoes, ControlTypes, connectVars, readVars
  <2>4. CASE IoTakes \/ IoWrites \/ IoWaits \/ IoWriteFails
    BY <1>1, <2>4 DEF IoTakes, IoWrites, IoWaits, IoWriteFails, RecvThreadGoes, ControlTypes, connectVars, readVars
  <2> QED BY <1>7, <2>1, <2>2, <2>3, <2>4 DEF RecvThread
<1>8. CASE LinkFails BY <1>1, <1>8 DEF LinkFails, Carries, ControlTypes, connectVars, readVars
<1>9. CASE UNCHANGED vars BY <1>1, <1>9 DEF vars, ControlTypes, connectVars, readVars
<1> QED BY <1>2, <1>3, <1>4, <1>5, <1>6, <1>7, <1>8, <1>9 DEF Next, Connect

\* The steps that touch what is being sent.
LEMMA SendStill ==
  ASSUME TypeOK, [Next]_vars
  PROVE  \/ UNCHANGED <<sendVars, inHand, wire, kind>> /\ (sendThread' \in {sendThread, "none", "top", "get", "done"})
         \/ \E c \in Conns : Send(c) \/ MarkConnectionClosed(c)
         \/ \E m \in Messages : PutGoesThrough(m)
         \/ CloseStarts \/ TakeMessage \/ WriteMessage \/ IoTakes \/ IoWrites
<1>1. CASE DialOk \/ DialFails \/ ConnectReturns \/ ConnectTimesOut
  BY <1>1 DEF DialOk, DialFails, ConnectReturns, ConnectTimesOut, connectVars
<1>2. CASE Recv \/ CloseEnds \/ SendThreadTop \/ NothingToSend \/ LinkFails
  BY <1>2 DEF Recv, RecvStarts, RecvGets, RecvGivesUp, CloseEnds, connectVars, SendThreadTop, NothingToSend,
              SendThreadEnds, sendVars, LinkFails
<1>3. CASE RecvThread /\ ~IoTakes /\ ~IoWrites
  BY <1>3 DEF RecvThread, RecvThreadTop, Receive, CheckRunning, ReceiveFails, PutMessage, DropMessage,
              ResetRunning, MarkEnd, CleanUp, Select, IoReads, IoHasRead, IoFails, IoWaits, IoWriteFails,
              RecvThreadGoes, connectVars
<1>4. CASE UNCHANGED vars BY <1>4 DEF vars, connectVars
<1> QED BY <1>1, <1>2, <1>3, <1>4 DEF Next, Connect, SendThread, RecvThread

LEMMA SendTypesKept == ASSUME TypeOK, StepInv, [Next]_vars PROVE SendTypes'
<1>0. SendTypes /\ SendCapacity \in Nat \ {0} BY TypeParts, AdapterAssumption
<1>1. CASE UNCHANGED <<sendVars, inHand, wire>> BY <1>0, <1>1 DEF SendTypes, sendVars
<1>2. ASSUME NEW x \in Items, SendRoom
      PROVE  Append(sendQueue, x) \in Seq(Items) /\ Len(Append(sendQueue, x)) <= SendCapacity
  <2>1. sendQueue \in Seq(Items) BY <1>0 DEF SendTypes
  <2> QED BY <1>0, <1>2, <2>1, AppendIs DEF SendRoom
<1>3. sendQueue # <<>> => /\ Tail(sendQueue) \in Seq(Items) /\ Len(Tail(sendQueue)) <= SendCapacity
                          /\ Head(sendQueue) \in Items
  <2>1. sendQueue \in Seq(Items) /\ Len(sendQueue) <= SendCapacity BY <1>0 DEF SendTypes
  <2> QED BY <1>0, <2>1, TailIs
<1>4. ASSUME NEW c \in Conns, Send(c) PROVE SendTypes'
  <2>1. CASE ~running BY <1>0, <1>4, <2>1 DEF Send, SendTypes
  <2>2. CASE running
    <3>1. NextMessage(c) \in Messages /\ number[c] \in Nat
      BY <1>4, NextMessageIs DEF Send
    <3>2. number' \in [Conns -> 0..MaxMessages]
      BY <1>0, <1>4, <2>2, <3>1, AdapterAssumption DEF Send, SendTypes
    <3>3. CASE SendRoom
      BY <1>0, <1>2, <1>4, <2>2, <3>1, <3>2, <3>3 DEF Send, SendTypes, Items
    <3>4. CASE ~SendRoom
      BY <1>0, <1>4, <2>2, <3>1, <3>2, <3>4 DEF Send, SendTypes
    <3> QED BY <3>3, <3>4
  <2> QED BY <1>0, <2>1, <2>2
<1>5. ASSUME NEW c \in Conns, MarkConnectionClosed(c) PROVE SendTypes'
  BY <1>0, <1>5 DEF MarkConnectionClosed, SendTypes
<1>6. ASSUME NEW m \in Messages, PutGoesThrough(m) PROVE SendTypes'
  <2>1. m[1] \in Conns BY MessageIs
  <2>2. sender' \in [Conns -> {"ready", "blocked", "raised", "closed"}]
    BY <1>0, <1>6, <2>1 DEF PutGoesThrough, SendTypes
  <2> QED BY <1>0, <1>2, <1>6, <2>2 DEF PutGoesThrough, SendTypes, Items
<1>7. CASE CloseStarts BY <1>0, <1>2, <1>7 DEF CloseStarts, SendTypes, Items
<1>8. CASE TakeMessage
  <2>1. /\ sendQueue # <<>> /\ sendQueue' = Tail(sendQueue) /\ inHand' \in {inHand, Head(sendQueue)}
        /\ UNCHANGED <<waiting, sender, number, closedIds, wire>>
    BY <1>8 DEF TakeMessage
  <2> QED BY <1>0, <1>3, <2>1 DEF SendTypes
<1>9. CASE WriteMessage
  <2>1. inHand \in Messages BY <1>0, <1>9 DEF WriteMessage, StepInv, SendTypes, Items
  <2>2. Sent(inHand) \in [Conns -> Seq(1..MaxMessages)] BY <2>1, SentIs
  <2> QED BY <1>0, <1>9, <2>2 DEF WriteMessage, SendThreadEnds, SendTypes, Items
<1>10. CASE IoTakes
  <2>1. /\ sendQueue # <<>> /\ sendQueue' = Tail(sendQueue) /\ inHand' \in {inHand, Head(sendQueue)}
        /\ UNCHANGED <<waiting, sender, number, closedIds, wire>>
    BY <1>10 DEF IoTakes
  <2> QED BY <1>0, <1>3, <2>1 DEF SendTypes
<1>11. CASE IoWrites
  <2>1. inHand \in Messages BY <1>0, <1>11 DEF IoWrites, SendTypes, Items
  <2>2. Sent(inHand) \in [Conns -> Seq(1..MaxMessages)] BY <2>1, SentIs
  <2> QED BY <1>0, <1>11, <2>2 DEF IoWrites, sendVars, SendTypes, Items
<1> QED BY <1>1, <1>4, <1>5, <1>6, <1>7, <1>8, <1>9, <1>10, <1>11, SendStill

\* The steps of others than the receive thread.
LEMMA RecvThreadStill ==
  ASSUME TypeOK, [Next]_vars
  PROVE  /\ kind' = kind /\ (running' => running) /\ (link = "broken" => link' = "broken")
         /\ UNCHANGED <<recvThread, recvBuffer>> \/ DialOk \/ RecvThread
<1> DEFINE Same == /\ kind' = kind /\ (running' => running) /\ (link = "broken" => link' = "broken")
                   /\ UNCHANGED <<recvThread, recvBuffer>> \/ DialOk \/ RecvThread
<1>1. CASE DialOk \/ DialFails \/ ConnectReturns \/ ConnectTimesOut
  BY <1>1 DEF DialOk, DialFails, ConnectReturns, ConnectTimesOut, connectVars, recvVars
<1>2. ASSUME NEW c \in Conns, Send(c) \/ MarkConnectionClosed(c) PROVE Same
  BY <1>2 DEF Send, MarkConnectionClosed, connectVars, recvVars
<1>3. ASSUME NEW m \in Messages, PutGoesThrough(m) PROVE Same
  BY <1>3 DEF PutGoesThrough, connectVars, recvVars
<1>4. CASE Recv \/ CloseStarts \/ CloseEnds
  BY <1>4 DEF Recv, RecvStarts, RecvGets, RecvGivesUp, CloseStarts, CloseEnds, connectVars, recvVars
<1>5. CASE SendThread
  BY <1>5 DEF SendThread, SendThreadTop, NothingToSend, TakeMessage, WriteMessage, SendThreadEnds,
              connectVars, recvVars
<1>6. CASE RecvThread
  BY <1>6 DEF RecvThread, RecvThreadTop, Receive, CheckRunning, ReceiveFails, PutMessage, DropMessage,
              ResetRunning, MarkEnd, CleanUp, Select, IoReads, IoHasRead, IoFails, IoTakes, IoWrites,
              IoWaits, IoWriteFails, RecvThreadGoes, connectVars
<1>7. CASE LinkFails BY <1>7 DEF LinkFails, Carries, connectVars, recvVars
<1>8. CASE UNCHANGED vars BY <1>8 DEF vars, connectVars, recvVars
<1> QED BY <1>1, <1>2, <1>3, <1>4, <1>5, <1>6, <1>7, <1>8 DEF Next, Connect

\* The steps that touch what is being received.
LEMMA RecvStill ==
  ASSUME TypeOK, StepInv, [Next]_vars
  PROVE  \/ /\ UNCHANGED <<recvQueue, recvVars, got>>
            /\ recvThread \in {"cleanup", "done"} => recvThread' \in {"cleanup", "done"}
         \/ RecvGets \/ Receive \/ IoReads \/ PutMessage \/ DropMessage \/ MarkEnd
<1> DEFINE Still == /\ UNCHANGED <<recvQueue, recvVars, got>>
                    /\ recvThread \in {"cleanup", "done"} => recvThread' \in {"cleanup", "done"}
<1>1. DialOk \/ DialFails \/ ConnectReturns \/ ConnectTimesOut => Still
  BY DEF DialOk, DialFails, ConnectReturns, ConnectTimesOut, readVars, StepInv
<1>2. \A c \in Conns : Send(c) \/ MarkConnectionClosed(c) => Still
  BY DEF Send, MarkConnectionClosed, readVars
<1>3. \A m \in Messages : PutGoesThrough(m) => Still BY DEF PutGoesThrough, readVars
<1>4. RecvStarts \/ RecvGivesUp \/ CloseStarts \/ CloseEnds \/ LinkFails => Still
  BY DEF RecvStarts, RecvGivesUp, CloseStarts, CloseEnds, LinkFails, readVars
<1>5. SendThread => Still
  BY DEF SendThread, SendThreadTop, NothingToSend, TakeMessage, WriteMessage, readVars
<1>6. RecvThreadTop \/ CheckRunning \/ ReceiveFails \/ ResetRunning \/ CleanUp => Still
  BY DEF RecvThreadTop, CheckRunning, ReceiveFails, ResetRunning, CleanUp, RecvThreadGoes, readVars
<1>7. Select \/ IoHasRead \/ IoFails \/ IoTakes \/ IoWrites \/ IoWaits \/ IoWriteFails => Still
  BY DEF Select, IoHasRead, IoFails, IoTakes, IoWrites, IoWaits, IoWriteFails, RecvThreadGoes, readVars
<1>8. UNCHANGED vars => Still BY DEF vars, readVars
<1> HIDE DEF Still
<1>9. Still \/ RecvGets \/ Receive \/ IoReads \/ PutMessage \/ DropMessage \/ MarkEnd
  BY <1>1, <1>2, <1>3, <1>4, <1>5, <1>6, <1>7, <1>8 DEF Next, Connect, Recv, RecvThread
<1> QED BY <1>9 DEF Still

LEMMA RecvTypesKept == ASSUME TypeOK, StepInv, HoldInv, [Next]_vars PROVE RecvTypes'
<1>0. /\ RecvTypes /\ RecvCapacity \in Nat \ {0} /\ MaxInbound \in Nat
      /\ recvQueue \in Seq(0..MaxInbound) /\ got \in Seq(1..MaxInbound) /\ received \in 0..MaxInbound
      /\ recvBuffer \in Seq(1..MaxInbound)
  BY TypeParts, AdapterAssumption DEF RecvTypes
<1>1. CASE UNCHANGED <<recvQueue, recvVars, got>> BY <1>0, <1>1 DEF RecvTypes, recvVars
<1>2. ASSUME NEW x \in 0..MaxInbound, RecvRoom
      PROVE  /\ Append(recvQueue, x) \in Seq(0..MaxInbound)
             /\ Len(Append(recvQueue, x)) <= RecvCapacity
  BY <1>0, <1>2, AppendIs DEF RecvRoom
<1>3. CASE RecvGets
  <2>1. /\ Tail(recvQueue) \in Seq(0..MaxInbound) /\ Len(Tail(recvQueue)) <= RecvCapacity
        /\ Head(recvQueue) \in 0..MaxInbound
    <3>1. /\ Tail(recvQueue) \in Seq(0..MaxInbound) /\ Len(Tail(recvQueue)) = Len(recvQueue) - 1
          /\ Head(recvQueue) \in 0..MaxInbound /\ Len(recvQueue) \in Nat
      BY <1>0, <1>3, TailIs DEF RecvGets
    <3> QED BY <1>0, <3>1 DEF RecvTypes
  <2>2. got' \in Seq(1..MaxInbound)
    <3>1. CASE Head(recvQueue) = End BY <1>0, <1>3, <3>1 DEF RecvGets
    <3>2. CASE Head(recvQueue) # End
      <4>1. Head(recvQueue) \in 1..MaxInbound BY <1>0, <2>1, <3>2 DEF End
      <4>2. got' = Append(got, Head(recvQueue)) BY <1>3, <3>2 DEF RecvGets
      <4> QED BY <1>0, <4>1, <4>2
    <3> QED BY <3>1, <3>2
  <2> QED BY <1>0, <1>3, <2>1, <2>2 DEF RecvGets, RecvTypes, recvVars
<1>4. CASE Receive \/ IoReads
  <2>1. received + 1 \in 1..MaxInbound BY <1>0, <1>4 DEF Receive, IoReads
  <2>2. <<received + 1>> \in Seq(1..MaxInbound) /\ Append(recvBuffer, received + 1) \in Seq(1..MaxInbound)
    BY <1>0, <2>1, AppendIs
  <2>3. /\ UNCHANGED <<recvQueue, dropped, got>> /\ received' = received + 1
        /\ recvBuffer' = <<received + 1>> \/ recvBuffer' = Append(recvBuffer, received + 1)
    BY <1>4 DEF Receive, IoReads, RecvThreadGoes, readVars
  <2>4. recvBuffer' \in Seq(1..MaxInbound) BY <2>2, <2>3
  <2>5. received' \in 0..MaxInbound BY <1>0, <2>1, <2>3
  <2>6. Len(recvQueue') <= RecvCapacity BY <1>0, <2>3 DEF RecvTypes
  <2> QED BY <1>0, <2>3, <2>4, <2>5, <2>6 DEF RecvTypes
<1>5. recvThread = "put" =>
        /\ Tail(recvBuffer) \in Seq(1..MaxInbound)
        /\ Head(recvBuffer) \in 1..MaxInbound /\ Head(recvBuffer) \in 0..MaxInbound
  BY <1>0, TailIs DEF HoldInv
<1>6. CASE PutMessage \/ DropMessage
  <2>1. CASE PutMessage
    BY <1>0, <1>2, <1>5, <2>1 DEF PutMessage, RecvThreadGoes, readVars, RecvTypes
  <2>2. CASE DropMessage
    BY <1>0, <1>5, <2>2 DEF DropMessage, RecvThreadGoes, readVars, RecvTypes
  <2> QED BY <1>6, <2>1, <2>2
<1>7. CASE MarkEnd
  <2>1. End \in 0..MaxInbound BY <1>0 DEF End
  <2> QED BY <1>0, <1>2, <1>7, <2>1 DEF MarkEnd, RecvThreadGoes, readVars, recvVars, RecvTypes
<1> QED BY <1>1, <1>3, <1>4, <1>6, <1>7, RecvStill

LEMMA TypeKept == ASSUME TypeOK, StepInv, HoldInv, [Next]_vars PROVE TypeOK'
BY ControlTypesKept, SendTypesKept, RecvTypesKept, TypePartsPrimed

-----------------------------------------------------------------------------
\* StepInv.

WaitInv ==
  /\ \A m \in waiting : m[2] <= number[m[1]] /\ sender[m[1]] # "ready"
  /\ \A m, n \in waiting : m[1] = n[1] => m = n
HandInv ==
  /\ sendThread = "write" => inHand # Sentinel
  /\ kind = "v1" => /\ sendThread \in {"none", "done"}
                    /\ \A k \in 1..Len(sendQueue) : sendQueue[k] # Sentinel

LEMMA WaitKept == ASSUME TypeOK, StepInv, [Next]_vars PROVE WaitInv'
<1>0. WaitInv /\ SendTypes BY TypeParts DEF StepInv, WaitInv
<1>1. CASE UNCHANGED <<waiting, sender, number>> BY <1>0, <1>1 DEF WaitInv
<1>2. ASSUME NEW c \in Conns, Send(c) PROVE WaitInv'
  <2>1. /\ sender[c] = "ready" /\ number[c] < MaxMessages /\ number[c] \in Nat
        /\ NextMessage(c) \in Messages /\ NextMessage(c)[1] = c /\ NextMessage(c)[2] = number[c] + 1
    BY <1>2, NextMessageIs DEF Send
  <2>2. \A m \in waiting : m \in Messages /\ m[1] \in Conns /\ m[1] # c
    BY <1>0, <2>1, MessageIs DEF WaitInv, SendTypes
  <2>3. CASE ~running BY <1>0, <1>2, <2>2, <2>3 DEF Send, WaitInv, SendTypes
  <2>4. CASE running
    <3>1. \A d \in Conns : d # c => number'[d] = number[d] /\ sender'[d] = sender[d]
      BY <1>0, <1>2, <2>4 DEF Send, SendTypes
    <3>2. number'[c] = number[c] + 1 BY <1>0, <1>2, <2>4 DEF Send, SendTypes
    <3>3. CASE waiting' = waiting BY <1>0, <2>2, <3>1, <3>3 DEF WaitInv
    <3>4. CASE waiting' = waiting \cup {NextMessage(c)} /\ sender'[c] = "blocked"
      BY <1>0, <2>1, <2>2, <3>1, <3>2, <3>4 DEF WaitInv
    <3> QED BY <1>0, <1>2, <2>4, <3>3, <3>4 DEF Send, SendTypes
  <2> QED BY <1>0, <2>3, <2>4
<1>3. ASSUME NEW c \in Conns, MarkConnectionClosed(c) PROVE WaitInv'
  <2>1. \A d \in Conns : sender'[d] = "ready" => sender[d] = "ready"
    BY <1>0, <1>3 DEF MarkConnectionClosed, SendTypes
  <2>2. \A m \in waiting : m[1] \in Conns BY <1>0, MessageIs DEF SendTypes
  <2> QED BY <1>0, <1>3, <2>1, <2>2 DEF MarkConnectionClosed, WaitInv
<1>4. ASSUME NEW m \in Messages, PutGoesThrough(m) PROVE WaitInv'
  <2>1. m[1] \in Conns BY MessageIs
  <2>2. \A n \in waiting : n[1] \in Conns BY <1>0, MessageIs DEF SendTypes
  <2>3. \A d \in Conns : d # m[1] => sender'[d] = sender[d]
    BY <1>0, <1>4, <2>1 DEF PutGoesThrough, SendTypes
  <2>4. \A n \in waiting' : n \in waiting /\ n[1] # m[1] BY <1>0, <1>4 DEF PutGoesThrough, WaitInv
  <2> QED BY <1>0, <1>4, <2>2, <2>3, <2>4 DEF PutGoesThrough, WaitInv
<1>5. CASE CloseStarts \/ TakeMessage \/ WriteMessage \/ IoTakes \/ IoWrites
  BY <1>1, <1>5 DEF CloseStarts, TakeMessage, WriteMessage, IoTakes, IoWrites, sendVars
<1> QED BY <1>1, <1>2, <1>3, <1>4, <1>5, SendStill DEF sendVars

LEMMA HandKept == ASSUME TypeOK, StepInv, [Next]_vars PROVE HandInv'
<1>0. HandInv /\ sendQueue \in Seq(Items) BY TypeParts DEF StepInv, HandInv, SendTypes
<1>1. CASE UNCHANGED <<sendQueue, inHand, kind, sendThread>> BY <1>0, <1>1 DEF HandInv
<1>2. ASSUME NEW m \in Messages, sendQueue' = Append(sendQueue, m), UNCHANGED <<inHand, kind, sendThread>>
      PROVE  HandInv'
  <2>1. m # Sentinel /\ m \in Items BY MessageIs DEF Items
  <2>2. /\ Len(sendQueue) \in Nat /\ Len(sendQueue') = Len(sendQueue) + 1
        /\ \A k \in 1..Len(sendQueue) : sendQueue'[k] = sendQueue[k]
        /\ sendQueue'[Len(sendQueue) + 1] = m
    BY <1>0, <1>2, <2>1, AppendIs
  <2>3. (\A k \in 1..Len(sendQueue) : sendQueue[k] # Sentinel)
          => \A k \in 1..Len(sendQueue') : sendQueue'[k] # Sentinel
    <3> SUFFICES ASSUME \A k \in 1..Len(sendQueue) : sendQueue[k] # Sentinel,
                        NEW k \in 1..Len(sendQueue')
                 PROVE  sendQueue'[k] # Sentinel
      OBVIOUS
    <3>1. CASE k \in 1..Len(sendQueue) BY <2>2, <3>1
    <3>2. CASE k = Len(sendQueue) + 1 BY <2>1, <2>2, <3>2
    <3> QED BY <2>2, <3>1, <3>2
  <2> QED BY <1>0, <1>2, <2>3 DEF HandInv
<1>3. ASSUME NEW c \in Conns, Send(c) PROVE HandInv'
  <2>1. NextMessage(c) \in Messages BY <1>3, NextMessageIs DEF Send
  <2> QED BY <1>1, <1>2, <1>3, <2>1 DEF Send, connectVars
<1>4. ASSUME NEW c \in Conns, MarkConnectionClosed(c) PROVE HandInv'
  BY <1>1, <1>4 DEF MarkConnectionClosed, connectVars
<1>5. ASSUME NEW m \in Messages, PutGoesThrough(m) PROVE HandInv'
  BY <1>2, <1>5 DEF PutGoesThrough, connectVars
<1>6. CASE CloseStarts
  <2>1. kind = "v1" => sendQueue' = sendQueue BY <1>6 DEF CloseStarts
  <2> QED BY <1>0, <1>6, <2>1 DEF CloseStarts, HandInv, connectVars
<1>7. CASE TakeMessage
  <2>1. sendThread = "get" /\ UNCHANGED kind BY <1>7 DEF TakeMessage, connectVars
  <2>2. kind # "v1" BY <1>0, <2>1 DEF HandInv
  <2>3. sendThread' = "write" => inHand' # Sentinel BY <1>7 DEF TakeMessage
  <2> QED BY <2>1, <2>2, <2>3 DEF HandInv
<1>8. CASE WriteMessage
  <2>1. sendThread = "write" /\ sendThread' \in {"top", "done"} /\ UNCHANGED kind
    BY <1>8 DEF WriteMessage, SendThreadEnds, connectVars
  <2> QED BY <1>0, <2>1 DEF HandInv
<1>9. CASE IoTakes \/ IoWrites
  <2>1. kind = "v1" /\ UNCHANGED <<kind, sendThread>>
        /\ (sendQueue' = sendQueue \/ (sendQueue # <<>> /\ sendQueue' = Tail(sendQueue)))
    BY <1>9 DEF IoTakes, IoWrites, connectVars, sendVars
  <2>2. CASE sendQueue' = sendQueue BY <1>0, <2>1, <2>2 DEF HandInv
  <2>3. CASE sendQueue # <<>> /\ sendQueue' = Tail(sendQueue)
    <3>1. /\ Len(sendQueue) \in Nat /\ Len(sendQueue') = Len(sendQueue) - 1
          /\ \A k \in 1..Len(sendQueue) - 1 : sendQueue'[k] = sendQueue[k + 1]
      BY <1>0, <2>3, TailIs
    <3>2. \A k \in 1..Len(sendQueue') : k \in 1..Len(sendQueue) - 1 /\ k + 1 \in 1..Len(sendQueue) BY <3>1
    <3> QED BY <1>0, <2>1, <3>1, <3>2 DEF HandInv
  <2> QED BY <2>1, <2>2, <2>3
<1>10. CASE UNCHANGED <<sendVars, inHand, wire, kind>> /\ sendThread' # sendThread
  <2>1. sendThread' # "write" /\ (kind = "v1" => sendThread' \in {"none", "done"})
    <3>1. CASE DialOk BY <1>0, <3>1 DEF DialOk
    <3>2. CASE SendThread BY <1>0, <1>10, <3>2 DEF SendThread, SendThreadTop, NothingToSend, TakeMessage,
                                WriteMessage, SendThreadEnds, HandInv, sendVars
    <3>3. sendThread' # sendThread => DialOk \/ SendThread
      <4>1. CASE DialFails \/ Connect \/ Recv \/ CloseStarts \/ CloseEnds \/ LinkFails
        BY <4>1 DEF DialFails, Connect, ConnectReturns, ConnectTimesOut, Recv, RecvStarts, RecvGets,
                    RecvGivesUp, CloseStarts, CloseEnds, LinkFails
      <4>2. ASSUME NEW c \in Conns, Send(c) \/ MarkConnectionClosed(c) PROVE sendThread' = sendThread
        BY <4>2 DEF Send, MarkConnectionClosed
      <4>3. ASSUME NEW m \in Messages, PutGoesThrough(m) PROVE sendThread' = sendThread
        BY <4>3 DEF PutGoesThrough
      <4>4. CASE RecvThread
        BY <4>4 DEF RecvThread, RecvThreadTop, Receive, CheckRunning, ReceiveFails, PutMessage, DropMessage,
                    ResetRunning, MarkEnd, CleanUp, Select, IoReads, IoHasRead, IoFails, IoTakes, IoWrites,
                    IoWaits, IoWriteFails, RecvThreadGoes
      <4>5. CASE UNCHANGED vars BY <4>5 DEF vars
      <4> QED BY <4>1, <4>2, <4>3, <4>4, <4>5 DEF Next
    <3> QED BY <1>10, <3>1, <3>2, <3>3
  <2> QED BY <1>0, <1>10, <2>1 DEF HandInv, sendVars
<1> QED BY <1>1, <1>3, <1>4, <1>5, <1>6, <1>7, <1>8, <1>9, <1>10, SendStill DEF sendVars

LEMMA StepKept == ASSUME TypeOK, StepInv, [Next]_vars PROVE StepInv'
<1>1. dial' = "dialling" => recvThread' = "none"
  <2>1. CASE DialOk \/ DialFails \/ Connect \/ Recv \/ CloseStarts \/ CloseEnds \/ LinkFails \/ SendThread
    BY <2>1 DEF StepInv, DialOk, DialFails, Connect, ConnectReturns, ConnectTimesOut, Recv, RecvStarts,
                RecvGets, RecvGivesUp, CloseStarts, CloseEnds, LinkFails, SendThread, SendThreadTop,
                NothingToSend, TakeMessage, WriteMessage, connectVars
  <2>2. ASSUME NEW c \in Conns, Send(c) \/ MarkConnectionClosed(c) PROVE UNCHANGED <<dial, recvThread>>
    BY <2>2 DEF Send, MarkConnectionClosed, connectVars
  <2>3. ASSUME NEW m \in Messages, PutGoesThrough(m) PROVE UNCHANGED <<dial, recvThread>>
    BY <2>3 DEF PutGoesThrough, connectVars
  <2>4. CASE RecvThread
    BY <2>4 DEF StepInv, RecvThread, RecvThreadTop, Receive, CheckRunning, ReceiveFails, PutMessage, DropMessage,
                ResetRunning, MarkEnd, CleanUp, Select, IoReads, IoHasRead, IoFails, IoTakes, IoWrites,
                IoWaits, IoWriteFails, RecvThreadGoes, connectVars
  <2>5. CASE UNCHANGED vars BY <2>5 DEF StepInv, vars, connectVars
  <2> QED BY <2>1, <2>2, <2>3, <2>4, <2>5 DEF StepInv, Next
<1> QED BY <1>1, WaitKept, HandKept DEF StepInv, WaitInv, HandInv

-----------------------------------------------------------------------------
\* HoldInv and EndInv.

LEMMA HoldKept == ASSUME TypeOK, StepInv, HoldInv, [Next]_vars PROVE HoldInv'
<1>0. /\ recvBuffer \in Seq(1..MaxInbound) /\ running \in BOOLEAN
      /\ kind' = kind /\ (running' => running) /\ (link = "broken" => link' = "broken")
  BY RecvThreadStill DEF TypeOK
<1>1. CASE UNCHANGED <<recvThread, recvBuffer>> BY <1>0, <1>1 DEF HoldInv, LeftInHand
<1>2. CASE DialOk
  <2>1. recvThread = "none" /\ recvThread' = "top" /\ recvBuffer' = recvBuffer
    BY <1>2 DEF DialOk, StepInv, recvVars
  <2> QED BY <2>1 DEF HoldInv, LeftInHand
<1>3. CASE RecvThreadTop \/ ReceiveFails \/ Select
  <2>1. CASE RecvThreadTop \/ Select
    BY <1>0, <2>1 DEF RecvThreadTop, Select, RecvThreadGoes, recvVars, HoldInv, LeftInHand
  <2>2. CASE ReceiveFails
    BY <1>0, <2>2 DEF ReceiveFails, RecvThreadGoes, recvVars, HoldInv, LeftInHand
  <2> QED BY <1>3, <2>1, <2>2
<1>4. CASE Receive
  <2>1. Len(<<received + 1>>) = 1 /\ <<received + 1>> # <<>> OBVIOUS
  <2> QED BY <1>0, <1>4, <2>1 DEF Receive, RecvThreadGoes, HoldInv, LeftInHand
<1>5. CASE CheckRunning
  <2>1. kind = "v2" /\ Len(recvBuffer) = 1 /\ recvBuffer # <<>>
    BY <1>5 DEF CheckRunning, RecvThreadGoes, HoldInv
  <2> QED BY <1>0, <1>5, <2>1 DEF CheckRunning, RecvThreadGoes, recvVars, HoldInv, LeftInHand
<1>6. CASE PutMessage \/ DropMessage
  <2>1. /\ recvThread = "put" /\ recvThread' = AfterPut /\ recvBuffer' = Tail(recvBuffer) /\ recvBuffer # <<>>
    BY <1>6 DEF PutMessage, DropMessage, RecvThreadGoes, HoldInv
  <2>2. Tail(recvBuffer) \in Seq(1..MaxInbound) /\ Len(Tail(recvBuffer)) = Len(recvBuffer) - 1
        /\ Len(recvBuffer) \in Nat \ {0}
    BY <1>0, <2>1, TailIs
  <2>3. CASE Len(recvBuffer) > 1
    <3>1. Tail(recvBuffer) # <<>> BY <1>0, <2>1, <2>3, TailIsEmpty
    <3>2. kind = "v1" BY <2>1, <2>3 DEF HoldInv
    <3> QED BY <1>0, <2>1, <2>3, <3>1, <3>2 DEF AfterPut, HoldInv, LeftInHand
  <2>4. CASE Len(recvBuffer) = 1
    <3>1. Tail(recvBuffer) = <<>> BY <1>0, <2>1, <2>4, TailIsEmpty
    <3> QED BY <1>0, <2>1, <2>4, <3>1 DEF AfterPut, HoldInv, LeftInHand
  <2> QED BY <2>2, <2>3, <2>4
<1>7. CASE ResetRunning \/ MarkEnd \/ CleanUp
  <2>1. /\ recvThread \in {"finally", "mark", "cleanup"} /\ recvThread' \in {"mark", "cleanup", "done"}
        /\ recvBuffer' = recvBuffer
    BY <1>7 DEF ResetRunning, MarkEnd, CleanUp, RecvThreadGoes, recvVars
  <2> QED BY <1>0, <2>1 DEF HoldInv, LeftInHand
<1>8. CASE IoReads
  <2>1. kind = "v1" /\ recvThread = "receive" /\ recvThread' = "receive" BY <1>8 DEF IoReads, RecvThreadGoes
  <2> QED BY <1>0, <2>1 DEF HoldInv, LeftInHand
<1>9. CASE IoHasRead BY <1>0, <1>9 DEF IoHasRead, RecvThreadGoes, recvVars, HoldInv, LeftInHand
<1>10. CASE IoFails
  <2>1. kind = "v1" /\ link = "broken" /\ recvThread' = "finally" BY <1>10 DEF IoFails, RecvThreadGoes
  <2> QED BY <1>0, <2>1 DEF HoldInv, LeftInHand
<1>11. CASE IoTakes \/ IoWrites \/ IoWaits \/ IoWriteFails
  <2>1. /\ kind = "v1" /\ recvThread = "write" /\ recvThread' \in {"top", "write", "finally"}
        /\ recvBuffer' = recvBuffer
    BY <1>11 DEF IoTakes, IoWrites, IoWaits, IoWriteFails, RecvThreadGoes, recvVars
  <2> QED BY <1>0, <2>1 DEF HoldInv, LeftInHand
<1>12. CASE RecvThread
  BY <1>3, <1>4, <1>5, <1>6, <1>7, <1>8, <1>9, <1>10, <1>11, <1>12 DEF RecvThread
<1> QED BY <1>1, <1>2, <1>12, RecvThreadStill

LEMMA EndKept == ASSUME TypeOK, StepInv, HoldInv, EndInv, [Next]_vars PROVE EndInv'
<1>0. recvQueue \in Seq(0..MaxInbound) /\ Len(recvQueue) \in Nat /\ MaxInbound \in Nat
      /\ recvBuffer \in Seq(1..MaxInbound)
  BY AdapterAssumption DEF TypeOK
<1>1. CASE /\ UNCHANGED <<recvQueue, recvVars, got>>
           /\ recvThread \in {"cleanup", "done"} => recvThread' \in {"cleanup", "done"}
  BY <1>1 DEF EndInv
<1>2. CASE RecvGets
  <2>1. recvQueue # <<>> /\ recvQueue' = Tail(recvQueue) /\ recvThread' = recvThread BY <1>2 DEF RecvGets
  <2>2. /\ Len(recvQueue') = Len(recvQueue) - 1
        /\ \A k \in 1..Len(recvQueue) - 1 : recvQueue'[k] = recvQueue[k + 1]
    BY <1>0, <2>1, TailIs
  <2> SUFFICES ASSUME NEW k \in 1..Len(recvQueue'), recvQueue'[k] = End
               PROVE  k = Len(recvQueue') /\ recvThread' \in {"cleanup", "done"}
    BY DEF EndInv
  <2>3. k + 1 \in 1..Len(recvQueue) /\ recvQueue[k + 1] = End BY <1>0, <2>2
  <2>4. k + 1 = Len(recvQueue) /\ recvThread \in {"cleanup", "done"} BY <2>3 DEF EndInv
  <2>5. k = Len(recvQueue) - 1 BY <2>4
  <2> QED BY <2>1, <2>2, <2>4, <2>5
<1>3. ASSUME recvThread \notin {"cleanup", "done"} PROVE \A k \in 1..Len(recvQueue) : recvQueue[k] # End
  BY <1>3 DEF EndInv
<1>4. CASE Receive \/ IoReads \/ DropMessage
  <2>1. recvQueue' = recvQueue /\ recvThread \in {"receive", "put"}
    BY <1>4 DEF Receive, IoReads, DropMessage, RecvThreadGoes
  <2> QED BY <1>3, <2>1 DEF EndInv
<1>5. CASE PutMessage
  <2>1. recvThread = "put" /\ recvQueue' = Append(recvQueue, Head(recvBuffer)) /\ recvBuffer # <<>>
    BY <1>5 DEF PutMessage, RecvThreadGoes, HoldInv
  <2>2. Head(recvBuffer) \in 0..MaxInbound /\ Head(recvBuffer) # End BY <1>0, <2>1, TailIs DEF End
  <2>3. /\ Len(recvQueue') = Len(recvQueue) + 1 /\ recvQueue'[Len(recvQueue) + 1] = Head(recvBuffer)
        /\ \A k \in 1..Len(recvQueue) : recvQueue'[k] = recvQueue[k]
    BY <1>0, <2>1, <2>2, AppendIs
  <2>4. \A k \in 1..Len(recvQueue') : k \in 1..Len(recvQueue) \/ k = Len(recvQueue) + 1 BY <1>0, <2>3
  <2>5. \A k \in 1..Len(recvQueue') : recvQueue'[k] # End BY <1>3, <2>1, <2>2, <2>3, <2>4
  <2> QED BY <2>5 DEF EndInv
<1>6. CASE MarkEnd
  <2>1. recvThread = "mark" /\ recvThread' = "cleanup" BY <1>6 DEF MarkEnd, RecvThreadGoes
  <2>2. CASE recvQueue' = recvQueue BY <1>3, <2>1, <2>2 DEF EndInv
  <2>3. CASE recvQueue' = Append(recvQueue, End)
    <3>1. End \in 0..MaxInbound BY <1>0 DEF End
    <3>2. /\ Len(recvQueue') = Len(recvQueue) + 1
          /\ \A k \in 1..Len(recvQueue) : recvQueue'[k] = recvQueue[k]
      BY <1>0, <2>3, <3>1, AppendIs
    <3>3. \A k \in 1..Len(recvQueue') : k \in 1..Len(recvQueue) \/ k = Len(recvQueue') BY <1>0, <3>2
    <3> QED BY <1>3, <2>1, <3>2, <3>3 DEF EndInv
  <2> QED BY <1>6, <2>2, <2>3 DEF MarkEnd
<1> QED BY <1>1, <1>2, <1>4, <1>5, <1>6, RecvStill

-----------------------------------------------------------------------------
\* Ordered: a message that enters the queue, leaves it, and is written.

\* A message at the end of the queue is after all that the new entry is after, and
\* before all the others.
LEMMA QueueGrows ==
  ASSUME TypeOK, Ordered, NEW x \in Items, sendQueue' = Append(sendQueue, x), UNCHANGED <<wire, inHand>>,
         x # Sentinel => AfterAll(x),
         \A m \in waiting' : AfterAll(m) /\ Precedes(x, m),
         \A c \in Conns : AfterWire(wire, NextMessage(c)') /\ Precedes(inHand, NextMessage(c)')
                         /\ AfterQueue(sendQueue, NextMessage(c)') /\ Precedes(x, NextMessage(c)')
  PROVE  Ordered'
<1>1. /\ Len(sendQueue) \in Nat /\ Len(sendQueue') = Len(sendQueue) + 1
      /\ \A k \in 1..Len(sendQueue) : sendQueue'[k] = sendQueue[k]
      /\ sendQueue'[Len(sendQueue) + 1] = x
  BY TypeParts, AppendIs DEF SendTypes
<1>2. ASSUME NEW n, AfterQueue(sendQueue, n), Precedes(x, n) PROVE AfterQueue(sendQueue', n)
  <2> SUFFICES ASSUME NEW k \in 1..Len(sendQueue') PROVE Precedes(sendQueue'[k], n) BY DEF AfterQueue
  <2>1. CASE k \in 1..Len(sendQueue) BY <1>1, <1>2, <2>1 DEF AfterQueue
  <2>2. CASE k = Len(sendQueue) + 1 BY <1>1, <1>2, <2>2
  <2> QED BY <1>1, <2>1, <2>2
<1>3. ASSUME NEW k \in 1..Len(sendQueue'), sendQueue'[k] # Sentinel
      PROVE  /\ AfterWire(wire', sendQueue'[k]) /\ Precedes(inHand', sendQueue'[k])
             /\ \A l \in 1..Len(sendQueue') : l < k => Precedes(sendQueue'[l], sendQueue'[k])
  <2>1. CASE k \in 1..Len(sendQueue)
    <3>1. \A l \in 1..Len(sendQueue') : l < k => l \in 1..Len(sendQueue) BY <1>1, <2>1
    <3> QED BY <1>1, <1>3, <2>1, <3>1 DEF Ordered
  <2>2. CASE k = Len(sendQueue) + 1
    <3>1. sendQueue'[k] = x /\ AfterAll(x) BY <1>1, <1>3, <2>2
    <3>2. \A l \in 1..Len(sendQueue') : l < k => l \in 1..Len(sendQueue) BY <1>1, <2>2
    <3> QED BY <1>1, <3>1, <3>2 DEF AfterAll, AfterQueue
  <2> QED BY <1>1, <2>1, <2>2
<1>4. \A m \in waiting' : AfterWire(wire', m) /\ Precedes(inHand', m) /\ AfterQueue(sendQueue', m)
  BY <1>2 DEF AfterAll
<1>5. \A c \in Conns : /\ AfterWire(wire', NextMessage(c)') /\ Precedes(inHand', NextMessage(c)')
                      /\ AfterQueue(sendQueue', NextMessage(c)')
  BY <1>2
<1>6. SentInOrder' /\ (inHand' # Sentinel => AfterWire(wire', inHand')) BY DEF Ordered, SentInOrder, AfterWire
<1> QED BY <1>3, <1>4, <1>5, <1>6 DEF Ordered, AfterAll, AfterWire, AfterQueue, Precedes

\* The order of the rest when the queue has lost its first element.
LEMMA QueueShrinks ==
  ASSUME TypeOK, Ordered, sendQueue # <<>>, sendQueue' = Tail(sendQueue)
  PROVE  /\ \A k \in 1..Len(sendQueue') : sendQueue'[k] # Sentinel =>
              /\ AfterWire(wire, sendQueue'[k]) /\ Precedes(inHand, sendQueue'[k])
              /\ Precedes(Head(sendQueue), sendQueue'[k])
              /\ \A l \in 1..Len(sendQueue') : l < k => Precedes(sendQueue'[l], sendQueue'[k])
         /\ \A n : AfterQueue(sendQueue, n) => AfterQueue(sendQueue', n) /\ Precedes(Head(sendQueue), n)
         /\ Head(sendQueue) # Sentinel => AfterWire(wire, Head(sendQueue))
<1>1. /\ Len(sendQueue) \in Nat \ {0} /\ Len(sendQueue') = Len(sendQueue) - 1
      /\ \A k \in 1..Len(sendQueue) - 1 : sendQueue'[k] = sendQueue[k + 1]
      /\ Head(sendQueue) = sendQueue[1]
  BY TypeParts, TailIs DEF SendTypes
<1>2. 1 \in 1..Len(sendQueue) BY <1>1
<1>3. ASSUME NEW k \in 1..Len(sendQueue'), sendQueue'[k] # Sentinel
      PROVE  /\ AfterWire(wire, sendQueue'[k]) /\ Precedes(inHand, sendQueue'[k])
             /\ Precedes(Head(sendQueue), sendQueue'[k])
             /\ \A l \in 1..Len(sendQueue') : l < k => Precedes(sendQueue'[l], sendQueue'[k])
  <2>1. k + 1 \in 1..Len(sendQueue) /\ sendQueue'[k] = sendQueue[k + 1] /\ 1 < k + 1 BY <1>1
  <2>2. /\ AfterWire(wire, sendQueue[k + 1]) /\ Precedes(inHand, sendQueue[k + 1])
        /\ \A l \in 1..Len(sendQueue) : l < k + 1 => Precedes(sendQueue[l], sendQueue[k + 1])
    BY <1>3, <2>1 DEF Ordered
  <2>3. ASSUME NEW l \in 1..Len(sendQueue'), l < k PROVE Precedes(sendQueue'[l], sendQueue'[k])
    <3>1. l + 1 \in 1..Len(sendQueue) /\ sendQueue'[l] = sendQueue[l + 1] /\ l + 1 < k + 1 BY <1>1, <2>3
    <3> QED BY <2>1, <2>2, <3>1
  <2> QED BY <1>1, <1>2, <2>1, <2>2, <2>3
<1>4. ASSUME NEW n, AfterQueue(sendQueue, n) PROVE AfterQueue(sendQueue', n) /\ Precedes(Head(sendQueue), n)
  <2>1. ASSUME NEW k \in 1..Len(sendQueue') PROVE Precedes(sendQueue'[k], n)
    <3>1. k + 1 \in 1..Len(sendQueue) /\ sendQueue'[k] = sendQueue[k + 1] BY <1>1
    <3> QED BY <1>4, <3>1 DEF AfterQueue
  <2> QED BY <1>1, <1>2, <1>4, <2>1 DEF AfterQueue
<1>5. Head(sendQueue) # Sentinel => AfterWire(wire, Head(sendQueue)) BY <1>1, <1>2 DEF Ordered
<1> QED BY <1>3, <1>4, <1>5

\* Writing m leaves behind it what comes after it.
LEMMA WriteAfter ==
  ASSUME TypeOK, NEW m \in Messages, NEW n, AfterWire(wire, n), Precedes(m, n), n[1] \in Conns
  PROVE  AfterWire(Sent(m), n)
<1>1. m # Sentinel /\ m[1] \in Conns /\ m[2] \in 1..MaxMessages BY MessageIs
<1>2. wire[m[1]] \in Seq(1..MaxMessages) BY <1>1, TypeParts DEF SendTypes
<1>3. CASE n[1] = m[1]
  <2>1. Sent(m)[n[1]] = Append(wire[n[1]], m[2]) BY <1>3, SentIs
  <2> SUFFICES ASSUME NEW i \in 1..Len(Sent(m)[n[1]]) PROVE Sent(m)[n[1]][i] < n[2] BY DEF AfterWire
  <2>2. /\ Len(wire[n[1]]) \in Nat /\ Len(Sent(m)[n[1]]) = Len(wire[n[1]]) + 1
        /\ \A j \in 1..Len(wire[n[1]]) : Sent(m)[n[1]][j] = wire[n[1]][j]
        /\ Sent(m)[n[1]][Len(wire[n[1]]) + 1] = m[2]
    BY <1>1, <1>2, <1>3, <2>1, AppendIs
  <2>3. CASE i \in 1..Len(wire[n[1]]) BY <2>2, <2>3 DEF AfterWire
  <2>4. CASE i = Len(wire[n[1]]) + 1 BY <1>1, <1>3, <2>2, <2>4 DEF Precedes
  <2> QED BY <2>2, <2>3, <2>4
<1>4. CASE n[1] # m[1]
  <2>1. Sent(m)[n[1]] = wire[n[1]] BY <1>4, SentIs
  <2> QED BY <2>1 DEF AfterWire
<1> QED BY <1>3, <1>4

LEMMA WriteInOrder ==
  ASSUME TypeOK, Ordered, NEW m \in Messages, AfterWire(wire, m), wire' = Sent(m)
  PROVE  SentInOrder'
<1>1. m # Sentinel /\ m[1] \in Conns /\ m[2] \in 1..MaxMessages BY MessageIs
<1>2. \A c \in Conns : wire[c] \in Seq(1..MaxMessages) BY TypeParts DEF SendTypes
<1> SUFFICES ASSUME NEW c \in Conns, NEW i \in 1..Len(wire'[c]), NEW j \in 1..Len(wire'[c]), i < j
             PROVE  wire'[c][i] < wire'[c][j]
  BY DEF SentInOrder
<1>3. CASE c # m[1]
  <2>1. wire'[c] = wire[c] BY <1>3, SentIs
  <2> QED BY <2>1 DEF Ordered, SentInOrder
<1>4. CASE c = m[1]
  <2>1. wire'[c] = Append(wire[c], m[2]) BY <1>4, SentIs
  <2>2. /\ Len(wire[c]) \in Nat /\ Len(wire'[c]) = Len(wire[c]) + 1
        /\ \A k \in 1..Len(wire[c]) : wire'[c][k] = wire[c][k]
        /\ wire'[c][Len(wire[c]) + 1] = m[2]
    BY <1>1, <1>2, <2>1, AppendIs
  <2>3. i \in 1..Len(wire[c]) BY <2>2
  <2>4. CASE j \in 1..Len(wire[c]) BY <2>2, <2>3, <2>4 DEF Ordered, SentInOrder
  <2>5. CASE j = Len(wire[c]) + 1 BY <1>4, <2>2, <2>3, <2>5 DEF AfterWire
  <2> QED BY <2>2, <2>4, <2>5
<1> QED BY <1>3, <1>4

\* A later number of the same connection comes after the same messages.
LEMMA LaterToo ==
  ASSUME TypeOK, NEW c \in Conns, NEW n \in Nat, AfterAll(<<c, n>>)
  PROVE  AfterAll(<<c, n + 1>>)
<1>1. wire[c] \in Seq(1..MaxMessages) /\ sendQueue \in Seq(Items) /\ inHand \in Items
  BY TypeParts DEF SendTypes
<1>2. AfterWire(wire, <<c, n + 1>>)
  <2>1. \A i \in 1..Len(wire[c]) : wire[c][i] \in 1..MaxMessages BY <1>1, ElementIs
  <2> QED BY <2>1 DEF AfterAll, AfterWire
<1>3. ASSUME NEW x \in Items, Precedes(x, <<c, n>>) PROVE Precedes(x, <<c, n + 1>>)
  BY <1>3, MessageIs DEF Precedes, Items
<1>4. AfterQueue(sendQueue, <<c, n + 1>>)
  <2>1. \A k \in 1..Len(sendQueue) : sendQueue[k] \in Items BY <1>1
  <2> QED BY <1>3, <2>1 DEF AfterAll, AfterQueue
<1> QED BY <1>1, <1>2, <1>3, <1>4 DEF AfterAll

LEMMA SendKeepsOrder ==
  ASSUME TypeOK, StepInv, Ordered, NEW c \in Conns, Send(c) PROVE Ordered'
<1>1. /\ sender[c] = "ready" /\ number[c] < MaxMessages /\ number[c] \in Nat
      /\ NextMessage(c) \in Messages /\ NextMessage(c) = <<c, number[c] + 1>>
      /\ UNCHANGED <<wire, inHand>>
  BY NextMessageIs DEF Send, NextMessage
<1>2. CASE UNCHANGED <<sendQueue, waiting, number>>
  BY <1>1, <1>2 DEF Ordered, SentInOrder, AfterAll, AfterWire, AfterQueue, Precedes, NextMessage
<1>3. CASE running
  <2>1. number' = [number EXCEPT ![c] = @ + 1] /\ number \in [Conns -> 0..MaxMessages]
    BY <1>3, TypeParts DEF Send, SendTypes
  <2>2. AfterAll(<<c, number[c] + 1>>) /\ number[c] + 1 \in Nat BY <1>1 DEF Ordered
  <2>3. AfterAll(<<c, number[c] + 1 + 1>>) BY <2>2, LaterToo
  <2>4. ASSUME NEW d \in Conns
        PROVE  /\ AfterWire(wire, NextMessage(d)') /\ Precedes(inHand, NextMessage(d)')
               /\ AfterQueue(sendQueue, NextMessage(d)') /\ Precedes(NextMessage(c), NextMessage(d)')
    <3>1. CASE d = c
      <4>1. NextMessage(d)' = <<c, number[c] + 1 + 1>> BY <2>1, <3>1 DEF NextMessage
      <4> QED BY <1>1, <2>3, <4>1 DEF AfterAll, Precedes
    <3>2. CASE d # c
      <4>1. NextMessage(d)' = NextMessage(d) /\ NextMessage(d)[1] = d BY <2>1, <3>2 DEF NextMessage
      <4> QED BY <1>1, <3>2, <4>1 DEF Ordered, AfterAll, Precedes
    <3> QED BY <3>1, <3>2
  <2>5. \A m \in waiting : AfterAll(m) /\ m[1] # c BY <1>1 DEF Ordered, StepInv
  <2>6. CASE sendQueue' = Append(sendQueue, NextMessage(c)) /\ waiting' = waiting
    <3>1. \A m \in waiting : Precedes(NextMessage(c), m) BY <1>1, <2>5 DEF Precedes
    <3>2. NextMessage(c) \in Items /\ AfterAll(NextMessage(c)) BY <1>1, <2>2 DEF Items
    <3> QED BY <1>1, <2>4, <2>5, <2>6, <3>1, <3>2, QueueGrows
  <2>7. CASE sendQueue' = sendQueue /\ waiting' = waiting \cup {NextMessage(c)}
    <3>1. \A m \in waiting' : AfterWire(wire, m) /\ Precedes(inHand, m) /\ AfterQueue(sendQueue, m)
      BY <1>1, <2>2, <2>5, <2>7 DEF AfterAll
    <3>2. \A d \in Conns : AfterWire(wire, NextMessage(d)') /\ Precedes(inHand, NextMessage(d)')
                          /\ AfterQueue(sendQueue, NextMessage(d)')
      BY <2>4
    <3> QED BY <1>1, <2>7, <3>1, <3>2 DEF Ordered, SentInOrder, AfterAll, AfterWire, AfterQueue, Precedes
  <2> QED BY <1>3, <2>6, <2>7 DEF Send
<1> QED BY <1>2, <1>3 DEF Send

LEMMA PutKeepsOrder ==
  ASSUME TypeOK, StepInv, Ordered, NEW m \in Messages, PutGoesThrough(m) PROVE Ordered'
<1>1. /\ m \in waiting /\ waiting' = waiting \ {m} /\ sendQueue' = Append(sendQueue, m)
      /\ UNCHANGED <<wire, inHand, number>>
  BY DEF PutGoesThrough
<1>2. m \in Items /\ AfterAll(m) /\ m[2] <= number[m[1]] /\ m[2] \in Nat
  BY <1>1, MessageIs DEF Items, Ordered, StepInv
<1>3. \A n \in waiting' : AfterAll(n) /\ Precedes(m, n) BY <1>1 DEF Ordered, StepInv, Precedes
<1>4. ASSUME NEW c \in Conns
      PROVE  /\ AfterWire(wire, NextMessage(c)') /\ Precedes(inHand, NextMessage(c)')
             /\ AfterQueue(sendQueue, NextMessage(c)') /\ Precedes(m, NextMessage(c)')
  <2>1. NextMessage(c)' = NextMessage(c) BY <1>1 DEF NextMessage
  <2>2. Precedes(m, NextMessage(c)) BY <1>2, NextMessageIs DEF Precedes
  <2> QED BY <2>1, <2>2 DEF Ordered, AfterAll
<1> QED BY <1>1, <1>2, <1>3, <1>4, QueueGrows

LEMMA CloseKeepsOrder == ASSUME TypeOK, Ordered, CloseStarts PROVE Ordered'
<1>1. UNCHANGED <<wire, inHand, number, waiting>> BY DEF CloseStarts
<1>2. CASE sendQueue' = sendQueue
  BY <1>1, <1>2 DEF Ordered, SentInOrder, AfterAll, AfterWire, AfterQueue, Precedes, NextMessage
<1>3. CASE sendQueue' = Append(sendQueue, Sentinel)
  <2>1. \A c \in Conns : NextMessage(c)' = NextMessage(c) BY <1>1 DEF NextMessage
  <2>2. Sentinel \in Items /\ \A n : Precedes(Sentinel, n) BY DEF Items, Precedes
  <2>3. \A m \in waiting' : AfterAll(m) BY <1>1 DEF Ordered
  <2>4. \A c \in Conns : AfterWire(wire, NextMessage(c)') /\ Precedes(inHand, NextMessage(c)')
                          /\ AfterQueue(sendQueue, NextMessage(c)')
    BY <2>1 DEF Ordered, AfterAll
  <2> QED BY <1>1, <1>3, <2>2, <2>3, <2>4, QueueGrows
<1> QED BY <1>2, <1>3 DEF CloseStarts

\* The thread that writes takes a message, or drops one.
LEMMA TakeKeepsOrder ==
  ASSUME TypeOK, Ordered, sendQueue # <<>>, sendQueue' = Tail(sendQueue), UNCHANGED <<wire, number, waiting>>,
         inHand' = inHand \/ (Head(sendQueue) # Sentinel /\ inHand' = Head(sendQueue))
  PROVE  Ordered'
<1>1. /\ sendQueue # <<>> /\ sendQueue' = Tail(sendQueue) /\ UNCHANGED <<wire, number, waiting>>
      /\ inHand' = inHand \/ (Head(sendQueue) # Sentinel /\ inHand' = Head(sendQueue))
  OBVIOUS
<1>2. \A n : Precedes(inHand, n) /\ AfterQueue(sendQueue, n) => Precedes(inHand', n) /\ AfterQueue(sendQueue', n)
  BY <1>1, QueueShrinks
<1>3. \A k \in 1..Len(sendQueue') : sendQueue'[k] # Sentinel =>
        /\ AfterWire(wire, sendQueue'[k]) /\ Precedes(inHand', sendQueue'[k])
        /\ \A l \in 1..Len(sendQueue') : l < k => Precedes(sendQueue'[l], sendQueue'[k])
  BY <1>1, QueueShrinks
<1>4. inHand' # Sentinel => AfterWire(wire, inHand') BY <1>1, QueueShrinks DEF Ordered
<1>5. \A m \in waiting : AfterWire(wire, m) /\ Precedes(inHand', m) /\ AfterQueue(sendQueue', m)
  BY <1>2 DEF Ordered, AfterAll
<1>6. \A c \in Conns : AfterWire(wire, NextMessage(c)) /\ Precedes(inHand', NextMessage(c))
                      /\ AfterQueue(sendQueue', NextMessage(c))
  BY <1>2 DEF Ordered, AfterAll
<1> QED BY <1>1, <1>3, <1>4, <1>5, <1>6
        DEF Ordered, SentInOrder, AfterAll, AfterWire, AfterQueue, Precedes, NextMessage

\* The message in hand is written and everything else comes after it.
LEMMA WriteKeepsOrder ==
  ASSUME TypeOK, Ordered, inHand # Sentinel, wire' = Sent(inHand), inHand' = Sentinel,
         UNCHANGED <<sendQueue, waiting, number>>
  PROVE  Ordered'
<1>0. inHand \in Messages /\ sendQueue \in Seq(Items) BY TypeParts DEF SendTypes, Items
<1>1. SentInOrder' BY <1>0, WriteInOrder DEF Ordered
<1>2. \A n : Precedes(Sentinel, n) BY DEF Precedes
<1>3. ASSUME NEW k \in 1..Len(sendQueue), sendQueue[k] # Sentinel
      PROVE  AfterWire(wire', sendQueue[k])
  <2>1. sendQueue[k] \in Messages BY <1>0, <1>3, ElementIs DEF Items
  <2>2. sendQueue[k][1] \in Conns BY <2>1, MessageIs
  <2> QED BY <1>0, <1>3, <2>2, WriteAfter DEF Ordered
<1>4. \A n \in waiting : AfterWire(wire', n) /\ AfterQueue(sendQueue, n)
  <2>1. \A n \in waiting : AfterAll(n) /\ n[1] \in Conns
    BY TypeParts, MessageIs DEF Ordered, SendTypes
  <2> QED BY <1>0, <2>1, WriteAfter DEF AfterAll
<1>5. \A c \in Conns : AfterWire(wire', NextMessage(c)) /\ AfterQueue(sendQueue, NextMessage(c))
  <2>1. \A c \in Conns : AfterAll(NextMessage(c)) /\ NextMessage(c)[1] = c BY NextMessageIs DEF Ordered
  <2> QED BY <1>0, <2>1, WriteAfter DEF AfterAll
<1> QED BY <1>1, <1>2, <1>3, <1>4, <1>5 DEF Ordered, AfterAll, AfterWire, AfterQueue, Precedes, NextMessage

LEMMA OrderKept == ASSUME TypeOK, StepInv, Ordered, [Next]_vars PROVE Ordered'
<1>1. CASE UNCHANGED <<sendQueue, waiting, number, inHand, wire>>
  BY <1>1 DEF Ordered, SentInOrder, AfterAll, AfterWire, AfterQueue, Precedes, NextMessage
<1>2. ASSUME NEW c \in Conns, Send(c) \/ MarkConnectionClosed(c) PROVE Ordered'
  BY <1>1, <1>2, SendKeepsOrder DEF MarkConnectionClosed
<1>3. CASE WriteMessage
  <2>1. CASE wire' = Sent(inHand) /\ inHand' = Sentinel /\ UNCHANGED sendQueue
    BY <1>3, <2>1, WriteKeepsOrder DEF WriteMessage, StepInv
  <2>2. CASE UNCHANGED <<sendQueue, inHand, wire>> BY <1>1, <1>3, <2>2 DEF WriteMessage
  <2> QED BY <1>3, <2>1, <2>2 DEF WriteMessage, SendThreadEnds
<1>4. CASE IoWrites BY <1>4, WriteKeepsOrder DEF IoWrites, sendVars
<1>5. CASE TakeMessage BY <1>5, TakeKeepsOrder DEF TakeMessage
<1>6. CASE IoTakes
  <2>1. sendQueue \in Seq(Items) /\ sendQueue # <<>> BY <1>6, TypeParts DEF IoTakes, SendTypes
  <2>2. Head(sendQueue) = sendQueue[1] /\ 1 \in 1..Len(sendQueue) BY <2>1, TailIs
  <2>3. Head(sendQueue) # Sentinel BY <1>6, <2>2 DEF IoTakes, StepInv
  <2> QED BY <1>6, <2>3, TakeKeepsOrder DEF IoTakes
<1> QED BY <1>1, <1>2, <1>3, <1>4, <1>5, <1>6, SendStill, PutKeepsOrder, CloseKeepsOrder DEF sendVars

-----------------------------------------------------------------------------
\* What the peer sends.

LEMMA RecvFacts ==
  ASSUME TypeOK
  PROVE  /\ recvQueue \in Seq(0..MaxInbound) /\ got \in Seq(1..MaxInbound)
         /\ Len(recvQueue) \in Nat /\ Len(got) \in Nat
         /\ \A i \in 1..Len(got) : got[i] \in 1..MaxInbound
         /\ \A k \in 1..Len(recvQueue) : recvQueue[k] \in 0..MaxInbound
         /\ recvBuffer \in Seq(1..MaxInbound) /\ Len(recvBuffer) \in Nat
         /\ received \in 0..MaxInbound /\ dropped \subseteq 1..MaxInbound /\ MaxInbound \in Nat
<1>1. RecvTypes /\ MaxInbound \in Nat BY TypeParts, AdapterAssumption
<1>2. \A i \in 1..Len(got) : got[i] \in 1..MaxInbound BY <1>1, ElementIs DEF RecvTypes
<1>3. \A k \in 1..Len(recvQueue) : recvQueue[k] \in 0..MaxInbound BY <1>1, ElementIs DEF RecvTypes
<1> QED BY <1>1, <1>2, <1>3 DEF RecvTypes

\* The next message of the peer, or the end, is put.
LEMMA RecvPuts ==
  ASSUME TypeOK, Handed, Held, Counted, NEW x \in 0..MaxInbound, recvQueue' = Append(recvQueue, x),
         UNCHANGED <<got, dropped>>,
         \/ x = End /\ Settled' = Settled
         \/ x = Settled + 1 /\ Settled' = Settled + 1
  PROVE  Handed' /\ Counted'
<1>1. /\ Len(recvQueue) \in Nat /\ Len(recvQueue') = Len(recvQueue) + 1
      /\ \A k \in 1..Len(recvQueue) : recvQueue'[k] = recvQueue[k]
      /\ recvQueue'[Len(recvQueue) + 1] = x
  BY RecvFacts, AppendIs
<1>2. Settled \in Nat /\ Settled' \in Nat /\ Settled <= Settled' /\ (x # End => \A n \in Nat : n <= Settled => n < x)
  <2>1. Settled \in Nat BY DEF Held
  <2> QED BY <2>1
<1>3. Handed'
  <2>1. \A i \in 1..Len(got'), k \in 1..Len(recvQueue') : recvQueue'[k] # End => got'[i] < recvQueue'[k]
    <3> SUFFICES ASSUME NEW i \in 1..Len(got), NEW k \in 1..Len(recvQueue'), recvQueue'[k] # End
                 PROVE  got[i] < recvQueue'[k]
      OBVIOUS
    <3>1. CASE k \in 1..Len(recvQueue) BY <1>1, <3>1 DEF Handed
    <3>2. CASE k = Len(recvQueue) + 1 BY <1>1, <1>2, <3>2, RecvFacts DEF Counted
    <3> QED BY <1>1, <3>1, <3>2
  <2>2. \A k, l \in 1..Len(recvQueue') :
          k < l /\ recvQueue'[k] # End /\ recvQueue'[l] # End => recvQueue'[k] < recvQueue'[l]
    <3> SUFFICES ASSUME NEW k \in 1..Len(recvQueue'), NEW l \in 1..Len(recvQueue'), k < l,
                        recvQueue'[k] # End, recvQueue'[l] # End
                 PROVE  recvQueue'[k] < recvQueue'[l]
      OBVIOUS
    <3>1. k \in 1..Len(recvQueue) BY <1>1
    <3>2. CASE l \in 1..Len(recvQueue) BY <1>1, <3>1, <3>2 DEF Handed
    <3>3. CASE l = Len(recvQueue) + 1
      <4>1. recvQueue[k] <= Settled /\ recvQueue[k] \in Nat BY <3>1, RecvFacts DEF Counted
      <4> QED BY <1>1, <1>2, <3>1, <3>3, <4>1
    <3> QED BY <1>1, <3>2, <3>3
  <2> QED BY <2>1, <2>2 DEF Handed
<1>4. Counted'
  <2>1. \A i \in 1..Len(got') : got'[i] <= Settled' /\ got'[i] \notin dropped'
    BY <1>2, RecvFacts DEF Counted
  <2>2. x <= Settled' /\ x \notin dropped BY <1>2, RecvFacts DEF End, Counted
  <2>3. \A k \in 1..Len(recvQueue') : recvQueue'[k] <= Settled' /\ recvQueue'[k] \notin dropped'
    <3> SUFFICES ASSUME NEW k \in 1..Len(recvQueue')
                 PROVE  recvQueue'[k] <= Settled' /\ recvQueue'[k] \notin dropped'
      OBVIOUS
    <3>1. CASE k \in 1..Len(recvQueue) BY <1>1, <1>2, <3>1, RecvFacts DEF Counted
    <3>2. CASE k = Len(recvQueue) + 1 BY <1>1, <2>2, <3>2
    <3> QED BY <1>1, <3>1, <3>2
  <2>4. \A d \in dropped' : d <= Settled' BY <1>2, RecvFacts DEF Counted
  <2>5. ASSUME NEW n \in 1..Settled', n \notin dropped
        PROVE  \/ \E i \in 1..Len(got') : got'[i] = n
               \/ \E k \in 1..Len(recvQueue') : recvQueue'[k] = n
    <3>1. CASE n \in 1..Settled
      <4>1. CASE \E i \in 1..Len(got) : got[i] = n BY <4>1
      <4>2. CASE \E k \in 1..Len(recvQueue) : recvQueue[k] = n
        <5>1. PICK k \in 1..Len(recvQueue) : recvQueue[k] = n BY <4>2
        <5>2. k \in 1..Len(recvQueue') /\ recvQueue'[k] = n BY <1>1, <5>1
        <5> QED BY <5>2
      <4> QED BY <2>5, <3>1, <4>1, <4>2 DEF Counted
    <3>2. CASE n = Settled + 1
      <4>1. x = n BY <1>2, <3>2
      <4>2. Len(recvQueue) + 1 \in 1..Len(recvQueue') BY <1>1
      <4> QED BY <1>1, <4>1, <4>2
    <3> QED BY <1>2, <3>1, <3>2
  <2> QED BY <2>1, <2>3, <2>4, <2>5 DEF Counted
<1> QED BY <1>3, <1>4

\* The next message of the peer finds the queue full.
LEMMA RecvDrops ==
  ASSUME TypeOK, Handed, Held, Counted, UNCHANGED <<got, recvQueue>>, Settled' = Settled + 1,
         dropped' = dropped \cup {Settled'}
  PROVE  Handed' /\ Counted'
<1>1. Handed' BY DEF Handed
<1>2. Settled \in Nat /\ Settled' \in Nat /\ \A n \in Nat : n <= Settled => n <= Settled' /\ n # Settled'
  <2>1. Settled \in Nat BY DEF Held
  <2> QED BY <2>1
<1>3. \A i \in 1..Len(got') : got'[i] <= Settled' /\ got'[i] \notin dropped'
  BY <1>2, RecvFacts DEF Counted
<1>4. \A k \in 1..Len(recvQueue') : recvQueue'[k] <= Settled' /\ recvQueue'[k] \notin dropped'
  BY <1>2, RecvFacts DEF Counted
<1>5. \A d \in dropped' : d <= Settled' BY <1>2, RecvFacts DEF Counted
<1>6. \A n \in 1..Settled' : n \in 1..Settled \/ n \in dropped' BY <1>2
<1>7. Counted' BY <1>3, <1>4, <1>5, <1>6 DEF Counted
<1> QED BY <1>1, <1>7

\* recv() takes the head of the queue.
LEMMA RecvTakes == ASSUME TypeOK, Handed, Held, Counted, RecvGets PROVE Handed' /\ Counted'
<1>1. /\ recvQueue # <<>> /\ recvQueue' = Tail(recvQueue) /\ UNCHANGED <<received, recvBuffer, dropped>>
      /\ got' = IF Head(recvQueue) = End THEN got ELSE Append(got, Head(recvQueue))
  BY DEF RecvGets, recvVars
<1>2. /\ Len(recvQueue) \in Nat \ {0} /\ Len(recvQueue') = Len(recvQueue) - 1
      /\ \A k \in 1..Len(recvQueue) - 1 : recvQueue'[k] = recvQueue[k + 1]
      /\ Head(recvQueue) = recvQueue[1] /\ Head(recvQueue) \in 0..MaxInbound
  BY <1>1, RecvFacts, TailIs
<1>3. /\ 1 \in 1..Len(recvQueue)
      /\ \A k \in 1..Len(recvQueue') : k + 1 \in 1..Len(recvQueue) /\ recvQueue'[k] = recvQueue[k + 1]
  BY <1>2
<1>4. Settled' = Settled BY <1>1 DEF Settled
<1>5. /\ \A k, l \in 1..Len(recvQueue') :
            k < l /\ recvQueue'[k] # End /\ recvQueue'[l] # End => recvQueue'[k] < recvQueue'[l]
      /\ \A k \in 1..Len(recvQueue') : recvQueue'[k] <= Settled' /\ recvQueue'[k] \notin dropped'
      /\ \A d \in dropped' : d <= Settled'
  <2>1. ASSUME NEW k \in 1..Len(recvQueue'), NEW l \in 1..Len(recvQueue'), k < l,
               recvQueue'[k] # End, recvQueue'[l] # End
        PROVE  recvQueue'[k] < recvQueue'[l]
    <3>1. k + 1 < l + 1 BY <2>1, <1>2
    <3> QED BY <1>3, <2>1, <3>1 DEF Handed
  <2>2. \A k \in 1..Len(recvQueue') : recvQueue'[k] <= Settled' /\ recvQueue'[k] \notin dropped'
    BY <1>1, <1>3, <1>4 DEF Counted
  <2> QED BY <1>1, <1>4, <2>1, <2>2 DEF Counted
<1>6. CASE Head(recvQueue) = End
  <2>1. got' = got BY <1>1, <1>6
  <2>2. \A i \in 1..Len(got), k \in 1..Len(recvQueue') : recvQueue'[k] # End => got[i] < recvQueue'[k]
    BY <1>3 DEF Handed
  <2>3. ASSUME NEW n \in 1..Settled', n \notin dropped'
        PROVE  \/ \E i \in 1..Len(got) : got[i] = n
               \/ \E k \in 1..Len(recvQueue') : recvQueue'[k] = n
    <3>1. \/ \E i \in 1..Len(got) : got[i] = n
          \/ \E k \in 1..Len(recvQueue) : recvQueue[k] = n
      BY <1>1, <1>4, <2>3 DEF Counted
    <3>2. ASSUME NEW k \in 1..Len(recvQueue), recvQueue[k] = n PROVE \E j \in 1..Len(recvQueue') : recvQueue'[j] = n
      <4>1. k # 1 BY <1>2, <1>6, <3>2 DEF End
      <4>2. k - 1 \in 1..Len(recvQueue') /\ recvQueue'[k - 1] = recvQueue[k] BY <1>2, <4>1
      <4> QED BY <3>2, <4>2
    <3> QED BY <3>1, <3>2
  <2> QED BY <1>1, <1>4, <1>5, <2>1, <2>2, <2>3 DEF Handed, Counted
<1>7. CASE Head(recvQueue) # End
  <2> DEFINE x == Head(recvQueue)
  <2>1. x \in 1..MaxInbound BY <1>2, <1>7 DEF End
  <2>2. /\ Len(got) \in Nat /\ Len(got') = Len(got) + 1
        /\ \A i \in 1..Len(got) : got'[i] = got[i]
        /\ got'[Len(got) + 1] = x
    BY <1>1, <1>7, <2>1, RecvFacts, AppendIs
  <2>3. \A i, j \in 1..Len(got') : i < j => got'[i] < got'[j]
    <3> SUFFICES ASSUME NEW i \in 1..Len(got'), NEW j \in 1..Len(got'), i < j PROVE got'[i] < got'[j]
      OBVIOUS
    <3>1. i \in 1..Len(got) BY <2>2
    <3>2. CASE j \in 1..Len(got) BY <2>2, <3>1, <3>2 DEF Handed
    <3>3. CASE j = Len(got) + 1
      <4>1. got[i] < recvQueue[1] BY <1>2, <1>3, <1>7, <3>1 DEF Handed
      <4> QED BY <1>2, <2>2, <3>1, <3>3, <4>1
    <3> QED BY <2>2, <3>2, <3>3
  <2>4. \A i \in 1..Len(got'), k \in 1..Len(recvQueue') : recvQueue'[k] # End => got'[i] < recvQueue'[k]
    <3> SUFFICES ASSUME NEW i \in 1..Len(got'), NEW k \in 1..Len(recvQueue'), recvQueue'[k] # End
                 PROVE  got'[i] < recvQueue'[k]
      OBVIOUS
    <3>1. k + 1 \in 1..Len(recvQueue) /\ recvQueue'[k] = recvQueue[k + 1] /\ 1 < k + 1 BY <1>2, <1>3
    <3>2. CASE i \in 1..Len(got) BY <2>2, <3>1, <3>2 DEF Handed
    <3>3. CASE i = Len(got) + 1
      <4>1. recvQueue[1] < recvQueue[k + 1] BY <1>2, <1>3, <1>7, <3>1 DEF Handed
      <4> QED BY <1>2, <2>2, <3>1, <3>3, <4>1
    <3> QED BY <2>2, <3>2, <3>3
  <2>5. \A i \in 1..Len(got') : got'[i] <= Settled' /\ got'[i] \notin dropped'
    <3> SUFFICES ASSUME NEW i \in 1..Len(got') PROVE got'[i] <= Settled' /\ got'[i] \notin dropped' OBVIOUS
    <3>1. CASE i \in 1..Len(got) BY <1>1, <1>4, <2>2, <3>1 DEF Counted
    <3>2. CASE i = Len(got) + 1
      <4>1. recvQueue[1] <= Settled /\ recvQueue[1] \notin dropped BY <1>3 DEF Counted
      <4> QED BY <1>1, <1>2, <1>4, <2>2, <3>2, <4>1
    <3> QED BY <2>2, <3>1, <3>2
  <2>6. ASSUME NEW n \in 1..Settled', n \notin dropped'
        PROVE  \/ \E i \in 1..Len(got') : got'[i] = n
               \/ \E k \in 1..Len(recvQueue') : recvQueue'[k] = n
    <3>1. \/ \E i \in 1..Len(got) : got[i] = n
          \/ \E k \in 1..Len(recvQueue) : recvQueue[k] = n
      BY <1>1, <1>4, <2>6 DEF Counted
    <3>2. ASSUME NEW i \in 1..Len(got), got[i] = n PROVE \E j \in 1..Len(got') : got'[j] = n
      <4>1. i \in 1..Len(got') /\ got'[i] = n BY <2>2, <3>2
      <4> QED BY <4>1
    <3>3. ASSUME NEW k \in 1..Len(recvQueue), recvQueue[k] = n
          PROVE  \/ \E i \in 1..Len(got') : got'[i] = n
                 \/ \E j \in 1..Len(recvQueue') : recvQueue'[j] = n
      <4>1. CASE k = 1
        <5>1. Len(got) + 1 \in 1..Len(got') /\ got'[Len(got) + 1] = n BY <1>2, <2>2, <3>3, <4>1
        <5> QED BY <5>1
      <4>2. CASE k # 1
        <5>1. k - 1 \in 1..Len(recvQueue') /\ recvQueue'[k - 1] = recvQueue[k] BY <1>2, <4>2
        <5> QED BY <3>3, <5>1
      <4> QED BY <4>1, <4>2
    <3> QED BY <3>1, <3>2, <3>3
  <2> QED BY <1>5, <2>3, <2>4, <2>5, <2>6 DEF Handed, Counted
<1> QED BY <1>6, <1>7

\* The receive thread takes a message of the peer, or lets one out of its hands.
LEMMA HeldKept == ASSUME TypeOK, StepInv, HoldInv, Held, [Next]_vars PROVE Held'
<1>0. /\ received \in Nat /\ recvBuffer \in Seq(1..MaxInbound) /\ Len(recvBuffer) \in Nat
      /\ MaxInbound \in Nat
  BY RecvFacts
<1>1. CASE UNCHANGED <<received, recvBuffer>> BY <1>1 DEF Held, Settled
<1>2. CASE Receive
  <2>1. recvBuffer = <<>> /\ recvBuffer' = <<received + 1>> /\ received' = received + 1
    BY <1>2 DEF Receive, RecvThreadGoes, HoldInv
  <2>2. Len(<<received + 1>>) = 1 /\ <<received + 1>>[1] = received + 1 OBVIOUS
  <2>3. Settled' = received BY <1>0, <2>1, <2>2 DEF Settled
  <2> QED BY <1>0, <2>1, <2>2, <2>3 DEF Held
<1>3. CASE IoReads
  <2>1. /\ recvBuffer' = Append(recvBuffer, received + 1) /\ received' = received + 1
        /\ received + 1 \in 1..MaxInbound
    BY <1>0, <1>3 DEF IoReads
  <2>2. /\ Len(recvBuffer') = Len(recvBuffer) + 1 /\ recvBuffer'[Len(recvBuffer) + 1] = received + 1
        /\ \A k \in 1..Len(recvBuffer) : recvBuffer'[k] = recvBuffer[k]
    BY <1>0, <2>1, AppendIs
  <2>3. Settled' = Settled /\ received + 1 = Settled + (Len(recvBuffer) + 1) BY <1>0, <2>1, <2>2 DEF Settled
  <2> SUFFICES ASSUME NEW k \in 1..Len(recvBuffer') PROVE recvBuffer'[k] = Settled' + k
    BY <2>3 DEF Held
  <2>4. CASE k \in 1..Len(recvBuffer) BY <2>2, <2>3, <2>4 DEF Held
  <2>5. CASE k = Len(recvBuffer) + 1 BY <2>2, <2>3, <2>5
  <2> QED BY <1>0, <2>2, <2>4, <2>5
<1>4. CASE PutMessage \/ DropMessage
  <2>1. recvBuffer' = Tail(recvBuffer) /\ received' = received /\ recvBuffer # <<>>
    BY <1>4 DEF PutMessage, DropMessage, RecvThreadGoes, HoldInv
  <2>2. /\ Len(recvBuffer') = Len(recvBuffer) - 1 /\ Len(recvBuffer) \in Nat \ {0}
        /\ \A k \in 1..Len(recvBuffer) - 1 : recvBuffer'[k] = recvBuffer[k + 1]
    BY <1>0, <2>1, TailIs
  <2>3. Settled' = Settled + 1 /\ Settled \in Nat BY <1>0, <2>1, <2>2 DEF Settled, Held
  <2>4. ASSUME NEW k \in 1..Len(recvBuffer') PROVE recvBuffer'[k] = Settled' + k
    <3>1. k + 1 \in 1..Len(recvBuffer) /\ recvBuffer'[k] = recvBuffer[k + 1] BY <2>2
    <3>2. recvBuffer[k + 1] = Settled + (k + 1) BY <3>1 DEF Held
    <3> QED BY <2>3, <3>1, <3>2
  <2> QED BY <2>3, <2>4 DEF Held
<1>5. RecvGets \/ MarkEnd => UNCHANGED <<received, recvBuffer>>
  BY DEF RecvGets, MarkEnd, RecvThreadGoes, recvVars
<1> QED BY <1>1, <1>2, <1>3, <1>4, <1>5, RecvStill DEF recvVars

\* What the thread puts next.
LEMMA HeadIs ==
  ASSUME TypeOK, Held, recvBuffer # <<>>
  PROVE  Head(recvBuffer) = Settled + 1 /\ Head(recvBuffer) \in 1..MaxInbound
<1>1. /\ Len(recvBuffer) \in Nat \ {0} /\ Head(recvBuffer) = recvBuffer[1]
      /\ Head(recvBuffer) \in 1..MaxInbound
  BY RecvFacts, TailIs
<1>2. 1 \in 1..Len(recvBuffer) BY <1>1
<1> QED BY <1>1, <1>2 DEF Held

LEMMA HandedKept ==
  ASSUME TypeOK, StepInv, HoldInv, Handed, Held, Counted, [Next]_vars PROVE Handed' /\ Counted'
<1>0. /\ received \in Nat /\ MaxInbound \in Nat /\ recvBuffer \in Seq(1..MaxInbound)
      /\ Len(recvBuffer) \in Nat
  BY RecvFacts
<1>1. CASE UNCHANGED <<got, recvQueue, dropped>> /\ Settled' = Settled
  BY <1>1 DEF Handed, Counted
<1>2. CASE Receive
  <2>1. recvBuffer = <<>> /\ recvBuffer' = <<received + 1>> /\ received' = received + 1
    BY <1>2 DEF Receive, RecvThreadGoes, HoldInv
  <2>2. Len(<<received + 1>>) = 1 /\ Len(<<>>) = 0 OBVIOUS
  <2>3. Settled' = Settled BY <1>0, <2>1, <2>2 DEF Settled
  <2> QED BY <1>1, <1>2, <2>3 DEF Receive, RecvThreadGoes, readVars
<1>3. CASE IoReads
  <2>1. /\ recvBuffer' = Append(recvBuffer, received + 1) /\ received' = received + 1
        /\ received + 1 \in 1..MaxInbound
    BY <1>0, <1>3 DEF IoReads
  <2>2. Len(recvBuffer') = Len(recvBuffer) + 1 BY <1>0, <2>1, AppendIs
  <2>3. Settled' = Settled BY <1>0, <2>1, <2>2 DEF Settled
  <2> QED BY <1>1, <1>3, <2>3 DEF IoReads, RecvThreadGoes, readVars
<1>4. CASE PutMessage \/ DropMessage
  <2>1. recvBuffer' = Tail(recvBuffer) /\ received' = received /\ recvBuffer # <<>> /\ UNCHANGED got
    BY <1>4 DEF PutMessage, DropMessage, RecvThreadGoes, HoldInv, readVars
  <2>2. Len(recvBuffer') = Len(recvBuffer) - 1 BY <1>0, <2>1, TailIs
  <2>3. Settled' = Settled + 1 BY <1>0, <2>1, <2>2 DEF Settled
  <2>4. Head(recvBuffer) = Settled + 1 /\ Head(recvBuffer) \in 0..MaxInbound BY <1>0, <2>1, HeadIs
  <2>5. CASE PutMessage BY <2>1, <2>3, <2>4, <2>5, RecvPuts DEF PutMessage
  <2>6. CASE DropMessage BY <2>1, <2>3, <2>4, <2>6, RecvDrops DEF DropMessage
  <2> QED BY <1>4, <2>5, <2>6
<1>5. CASE MarkEnd
  <2>1. Settled' = Settled /\ UNCHANGED <<got, dropped>>
    BY <1>5 DEF MarkEnd, RecvThreadGoes, Settled, readVars, recvVars
  <2>2. CASE recvQueue' = recvQueue BY <1>1, <2>1, <2>2
  <2>3. CASE recvQueue' = Append(recvQueue, End)
    <3>1. End \in 0..MaxInbound BY <1>0 DEF End
    <3> QED BY <2>1, <2>3, <3>1, RecvPuts
  <2> QED BY <1>5, <2>2, <2>3 DEF MarkEnd
<1>6. CASE UNCHANGED <<recvQueue, recvVars, got>>
  <2>1. Settled' = Settled BY <1>6 DEF Settled, recvVars
  <2> QED BY <1>1, <1>6, <2>1 DEF recvVars
<1> QED BY <1>2, <1>3, <1>4, <1>5, <1>6, RecvStill, RecvTakes

-----------------------------------------------------------------------------
LEMMA InitHolds == ASSUME Init PROVE IInv
<1>0. AdapterAssumption /\ MaxInbound \in Nat /\ MaxMessages \in Nat BY AdapterAssumption
<1>1. <<>> \in Seq(Items) /\ <<>> \in Seq(0..MaxInbound) /\ <<>> \in Seq(1..MaxInbound)
      /\ <<>> \in Seq(1..MaxMessages) /\ Len(<<>>) = 0
  OBVIOUS
<1>2. ControlTypes BY DEF Init, ControlTypes
<1>3. SendTypes BY <1>0, <1>1, AdapterAssumption DEF Init, SendTypes, Items
<1>4. RecvTypes BY <1>0, <1>1, AdapterAssumption DEF Init, RecvTypes
<1>5. StepInv BY <1>1 DEF Init, StepInv
<1>6. \A n : n[1] \in Conns => AfterAll(n)
  BY <1>1 DEF Init, AfterAll, AfterWire, AfterQueue, Precedes
<1>7. \A c \in Conns : NextMessage(c)[1] = c BY DEF NextMessage
<1>8. Ordered BY <1>1, <1>6, <1>7 DEF Init, Ordered, SentInOrder
<1>9. HoldInv BY DEF Init, HoldInv, LeftInHand
<1>10. EndInv /\ Handed BY <1>1 DEF Init, EndInv, Handed
<1>11. Held /\ Counted BY <1>1 DEF Init, Held, Counted, Settled
<1>12. TypeOK BY <1>2, <1>3, <1>4, TypeParts
<1> QED BY <1>5, <1>8, <1>9, <1>10, <1>11, <1>12 DEF IInv

LEMMA IInvKept == ASSUME IInv, [Next]_vars PROVE IInv'
<1>1. TypeOK /\ StepInv /\ HoldInv /\ EndInv /\ Ordered /\ Handed /\ Held /\ Counted BY DEF IInv
<1>2. TypeOK' BY <1>1, TypeKept
<1>3. StepInv' BY <1>1, StepKept
<1>4. HoldInv' BY <1>1, HoldKept
<1>5. EndInv' BY <1>1, EndKept
<1>6. Ordered' BY <1>1, OrderKept
<1>7. Handed' /\ Counted' BY <1>1, HandedKept
<1>8. Held' BY <1>1, HeldKept
<1> QED BY <1>2, <1>3, <1>4, <1>5, <1>6, <1>7, <1>8 DEF IInv

-----------------------------------------------------------------------------
\* What arrived, at each of its places.

LEMMA ConcatIs ==
  ASSUME NEW S, NEW q \in Seq(S), NEW r \in Seq(S)
  PROVE  /\ q \o r \in Seq(S) /\ Len(q) \in Nat /\ Len(r) \in Nat /\ Len(q \o r) = Len(q) + Len(r)
         /\ \A i \in 1..Len(q) : (q \o r)[i] = q[i]
         /\ \A i \in 1..Len(r) : (q \o r)[Len(q) + i] = r[i]
         /\ DOMAIN (q \o r) = 1..Len(q \o r)
OBVIOUS

LEMMA ArrivedIs ==
  ASSUME TypeOK
  PROVE  /\ DOMAIN Arrived = 1..Len(got) + Len(recvQueue) + Len(recvBuffer)
         /\ \A i \in 1..Len(got) : Arrived[i] = got[i]
         /\ \A k \in 1..Len(recvQueue) : Arrived[Len(got) + k] = recvQueue[k]
         /\ \A k \in 1..Len(recvBuffer) : Arrived[Len(got) + Len(recvQueue) + k] = recvBuffer[k]
<1>1. /\ got \in Seq(0..MaxInbound) /\ recvQueue \in Seq(0..MaxInbound) /\ recvBuffer \in Seq(0..MaxInbound)
      /\ Len(got) \in Nat /\ Len(recvQueue) \in Nat /\ Len(recvBuffer) \in Nat
  <2>1. got \in Seq(0..MaxInbound) /\ recvBuffer \in Seq(0..MaxInbound) BY RecvFacts
  <2> QED BY <2>1, RecvFacts
<1> DEFINE q == got \o recvQueue
<1>3. /\ q \in Seq(0..MaxInbound) /\ Len(q) = Len(got) + Len(recvQueue)
      /\ \A i \in 1..Len(got) : q[i] = got[i]
      /\ \A i \in 1..Len(recvQueue) : q[Len(got) + i] = recvQueue[i]
  BY <1>1, ConcatIs
<1> HIDE DEF q
<1>4. /\ Len(q) \in Nat /\ Len(q \o recvBuffer) = Len(q) + Len(recvBuffer)
      /\ \A i \in 1..Len(q) : (q \o recvBuffer)[i] = q[i]
      /\ \A i \in 1..Len(recvBuffer) : (q \o recvBuffer)[Len(q) + i] = recvBuffer[i]
      /\ DOMAIN (q \o recvBuffer) = 1..Len(q \o recvBuffer)
  <2>1. q \in Seq(0..MaxInbound) /\ recvBuffer \in Seq(0..MaxInbound) BY <1>1, <1>3
  <2> QED BY ONLY <2>1, ConcatIs
<1>5. Arrived = q \o recvBuffer BY DEF Arrived, q
<1>6. DOMAIN Arrived = 1..Len(got) + Len(recvQueue) + Len(recvBuffer) BY <1>3, <1>4, <1>5
<1>7. \A i \in 1..Len(got) : Arrived[i] = got[i] BY <1>1, <1>3, <1>4, <1>5
<1>8. \A k \in 1..Len(recvQueue) : Arrived[Len(got) + k] = recvQueue[k]
  <2> TAKE k \in 1..Len(recvQueue)
  <2>1. Len(got) + k \in 1..Len(q) BY <1>1, <1>3
  <2> QED BY <1>3, <1>4, <1>5, <2>1
<1>9. \A k \in 1..Len(recvBuffer) : Arrived[Len(got) + Len(recvQueue) + k] = recvBuffer[k]
  BY <1>3, <1>4, <1>5
<1> QED BY <1>6, <1>7, <1>8, <1>9

LEMMA PlacesOfArrived ==
  ASSUME TypeOK, Held, NEW i \in DOMAIN Arrived
  PROVE  \/ i \in 1..Len(got) /\ Arrived[i] = got[i]
         \/ \E k \in 1..Len(recvQueue) : i = Len(got) + k /\ Arrived[i] = recvQueue[k]
         \/ \E k \in 1..Len(recvBuffer) : i = Len(got) + Len(recvQueue) + k /\ Arrived[i] = Settled + k
<1>1. i \in 1..Len(got) + Len(recvQueue) + Len(recvBuffer) BY ArrivedIs
<1>2. Len(got) \in Nat /\ Len(recvQueue) \in Nat /\ Len(recvBuffer) \in Nat BY RecvFacts
<1>3. CASE i <= Len(got) BY <1>1, <1>2, <1>3, ArrivedIs
<1>4. CASE Len(got) < i /\ i <= Len(got) + Len(recvQueue)
  <2>1. i - Len(got) \in 1..Len(recvQueue) /\ i = Len(got) + (i - Len(got)) BY <1>1, <1>2, <1>4
  <2> QED BY <2>1, ArrivedIs
<1>5. CASE i > Len(got) + Len(recvQueue)
  <2> DEFINE k == i - (Len(got) + Len(recvQueue))
  <2>1. k \in 1..Len(recvBuffer) /\ i = Len(got) + Len(recvQueue) + k BY <1>1, <1>2, <1>5
  <2> HIDE DEF k
  <2>2. Arrived[i] = recvBuffer[k] BY <2>1, ArrivedIs
  <2>3. recvBuffer[k] = Settled + k BY <2>1 DEF Held
  <2> QED BY <2>1, <2>2, <2>3
<1> QED BY <1>1, <1>2, <1>3, <1>4, <1>5

LEMMA ArrivedInOrder == ASSUME TypeOK, Handed, Held, Counted PROVE InOrder
<1> SUFFICES ASSUME NEW i \in DOMAIN Arrived, NEW j \in DOMAIN Arrived, i < j,
                    Arrived[i] # End, Arrived[j] # End
             PROVE  Arrived[i] < Arrived[j]
  BY DEF InOrder
<1>0. Len(got) \in Nat /\ Len(recvQueue) \in Nat /\ Len(recvBuffer) \in Nat /\ Settled \in Nat
  BY RecvFacts DEF Held
<1>1. CASE j \in 1..Len(got) /\ Arrived[j] = got[j]
  <2>1. i \in 1..Len(got) /\ Arrived[i] = got[i] BY <1>0, <1>1, PlacesOfArrived
  <2> QED BY <1>1, <2>1 DEF Handed
<1>2. ASSUME NEW l \in 1..Len(recvQueue), j = Len(got) + l, Arrived[j] = recvQueue[l]
      PROVE  Arrived[i] < Arrived[j]
  <2>1. CASE i \in 1..Len(got) /\ Arrived[i] = got[i] BY <1>2, <2>1 DEF Handed
  <2>2. ASSUME NEW k \in 1..Len(recvQueue), i = Len(got) + k, Arrived[i] = recvQueue[k]
        PROVE  Arrived[i] < Arrived[j]
    <3>1. k < l BY <1>0, <1>2, <2>2
    <3> QED BY <1>2, <2>2, <3>1 DEF Handed
  <2>3. ~ \E k \in 1..Len(recvBuffer) : i = Len(got) + Len(recvQueue) + k BY <1>0, <1>2
  <2> QED BY <2>1, <2>2, <2>3, PlacesOfArrived
<1>3. ASSUME NEW l \in 1..Len(recvBuffer), j = Len(got) + Len(recvQueue) + l, Arrived[j] = Settled + l
      PROVE  Arrived[i] < Arrived[j]
  <2>1. CASE i \in 1..Len(got) /\ Arrived[i] = got[i]
    <3>1. got[i] <= Settled /\ got[i] \in Nat BY <2>1, RecvFacts DEF Counted
    <3> QED BY <1>0, <1>3, <2>1, <3>1
  <2>2. ASSUME NEW k \in 1..Len(recvQueue), Arrived[i] = recvQueue[k] PROVE Arrived[i] < Arrived[j]
    <3>1. recvQueue[k] <= Settled /\ recvQueue[k] \in Nat BY RecvFacts DEF Counted
    <3> QED BY <1>0, <1>3, <2>2, <3>1
  <2>3. ASSUME NEW k \in 1..Len(recvBuffer), i = Len(got) + Len(recvQueue) + k, Arrived[i] = Settled + k
        PROVE  Arrived[i] < Arrived[j]
    BY <1>0, <1>3, <2>3
  <2> QED BY <2>1, <2>2, <2>3, PlacesOfArrived
<1> QED BY <1>1, <1>2, <1>3, PlacesOfArrived

LEMMA ArrivedIsComplete == ASSUME TypeOK, Handed, Held, Counted PROVE NoneMissing
<1>0. /\ Len(got) \in Nat /\ Len(recvQueue) \in Nat /\ Len(recvBuffer) \in Nat /\ received \in Nat
      /\ Settled \in Nat /\ received = Settled + Len(recvBuffer) /\ End = 0
  <2>1. Settled \in Nat BY DEF Held
  <2> QED BY <2>1, RecvFacts DEF Settled, End
<1>1. ASSUME NEW i \in DOMAIN Arrived, Arrived[i] # End PROVE Arrived[i] \in 1..received \ dropped
  <2>1. CASE i \in 1..Len(got) /\ Arrived[i] = got[i]
    <3>1. got[i] <= Settled /\ got[i] \notin dropped /\ got[i] \in Nat \ {0} BY <2>1, RecvFacts DEF Counted
    <3> QED BY <1>0, <2>1, <3>1
  <2>2. ASSUME NEW k \in 1..Len(recvQueue), Arrived[i] = recvQueue[k]
        PROVE  Arrived[i] \in 1..received \ dropped
    <3>1. recvQueue[k] <= Settled /\ recvQueue[k] \notin dropped /\ recvQueue[k] \in Nat
      BY RecvFacts DEF Counted
    <3> QED BY <1>0, <1>1, <2>2, <3>1
  <2>3. ASSUME NEW k \in 1..Len(recvBuffer), Arrived[i] = Settled + k
        PROVE  Arrived[i] \in 1..received \ dropped
    <3>1. \A d \in dropped : d \in Nat /\ d <= Settled BY RecvFacts DEF Counted
    <3>2. Settled + k \in 1..received BY <1>0
    <3>3. Settled + k \notin dropped BY <1>0, <3>1
    <3> QED BY <2>3, <3>2, <3>3
  <2> QED BY <2>1, <2>2, <2>3, PlacesOfArrived
<1>2. ASSUME NEW n \in 1..received, n \notin dropped
      PROVE  \E i \in DOMAIN Arrived : Arrived[i] = n
  <2>1. CASE n \in 1..Settled
    <3>1. ASSUME NEW i \in 1..Len(got), got[i] = n PROVE \E j \in DOMAIN Arrived : Arrived[j] = n
      <4>1. i \in DOMAIN Arrived BY <1>0, ArrivedIs
      <4> QED BY <3>1, <4>1, ArrivedIs
    <3>2. ASSUME NEW k \in 1..Len(recvQueue), recvQueue[k] = n PROVE \E j \in DOMAIN Arrived : Arrived[j] = n
      <4>1. Len(got) + k \in DOMAIN Arrived BY <1>0, ArrivedIs
      <4> QED BY <3>2, <4>1, ArrivedIs
    <3> QED BY <1>2, <2>1, <3>1, <3>2 DEF Counted
  <2>2. CASE n \notin 1..Settled
    <3> DEFINE k == n - Settled
    <3>1. k \in 1..Len(recvBuffer) /\ n = Settled + k BY <1>0, <2>2
    <3> HIDE DEF k
    <3>2. recvBuffer[k] = n BY <3>1 DEF Held
    <3>3. Len(got) + Len(recvQueue) + k \in DOMAIN Arrived BY <1>0, <3>1, ArrivedIs
    <3>4. Arrived[Len(got) + Len(recvQueue) + k] = n BY <3>1, <3>2, ArrivedIs
    <3> QED BY <3>3, <3>4
  <2> QED BY <2>1, <2>2
<1>3. \A n \in 1..received : n # End BY <1>0
<1> QED BY <1>1, <1>2, <1>3 DEF NoneMissing

-----------------------------------------------------------------------------
\* No step adds to what a closed connection has on the WebSocket and in hand.
LEMMA StaleStep ==
  ASSUME TypeOK, StepInv, [Next]_vars, NEW c \in closedIds
  PROVE  (Len(wire[c]) + InHandOf(c))' <= Len(wire[c]) + InHandOf(c)
<1>0. /\ c \in Conns /\ sendQueue \in Seq(Items) /\ inHand \in Items
      /\ wire[c] \in Seq(1..MaxMessages) /\ Len(wire[c]) \in Nat
  <2>1. c \in Conns /\ wire[c] \in Seq(1..MaxMessages) BY TypeParts DEF SendTypes
  <2> QED BY <2>1, TypeParts DEF SendTypes
<1>1. InHandOf(c) \in {0, 1} BY DEF InHandOf
<1>2. CASE UNCHANGED <<inHand, wire>> BY <1>0, <1>1, <1>2 DEF InHandOf
<1>3. ASSUME NEW d \in Conns, Send(d) \/ MarkConnectionClosed(d) PROVE UNCHANGED <<inHand, wire>>
  BY <1>3 DEF Send, MarkConnectionClosed
<1>4. ASSUME NEW m \in Messages, PutGoesThrough(m) PROVE UNCHANGED <<inHand, wire>>
  BY <1>4 DEF PutGoesThrough
<1>5. CloseStarts => UNCHANGED <<inHand, wire>> BY DEF CloseStarts
<1>6. CASE TakeMessage \/ IoTakes
  <2>1. /\ UNCHANGED wire
        /\ inHand' = inHand \/ (inHand' = Head(sendQueue) /\ ~IsStale(Head(sendQueue)))
    BY <1>6 DEF TakeMessage, IoTakes
  <2>2. InHandOf(c)' = InHandOf(c) \/ InHandOf(c)' = 0 BY <2>1 DEF InHandOf, IsStale
  <2> QED BY <1>0, <1>1, <2>1, <2>2
<1>7. CASE WriteMessage \/ IoWrites
  <2>1. UNCHANGED <<inHand, wire>> \/ (wire' = Sent(inHand) /\ inHand # Sentinel /\ inHand' = Sentinel)
    BY <1>7 DEF WriteMessage, SendThreadEnds, IoWrites, StepInv
  <2>2. CASE wire' = Sent(inHand) /\ inHand # Sentinel /\ inHand' = Sentinel
    <3>1. inHand \in Messages /\ inHand[1] \in Conns /\ inHand[2] \in 1..MaxMessages
      BY <1>0, <2>2, MessageIs DEF Items
    <3>2. InHandOf(c)' = 0 BY <2>2 DEF InHandOf
    <3>3. CASE inHand[1] = c
      <4>1. wire'[c] = Append(wire[c], inHand[2]) BY <2>2, <3>1, <3>3, SentIs
      <4>2. Len(wire'[c]) = Len(wire[c]) + 1 BY <1>0, <3>1, <4>1, AppendIs
      <4>3. InHandOf(c) = 1 BY <2>2, <3>3 DEF InHandOf
      <4> QED BY <1>0, <3>2, <4>2, <4>3
    <3>4. CASE inHand[1] # c
      <4>1. wire'[c] = wire[c] BY <1>0, <2>2, <3>1, <3>4, SentIs
      <4> QED BY <1>0, <1>1, <3>2, <4>1
    <3> QED BY <3>3, <3>4
  <2> QED BY <1>2, <2>1, <2>2
<1> QED BY <1>2, <1>3, <1>4, <1>5, <1>6, <1>7, SendStill

-----------------------------------------------------------------------------
\* The inductive invariant holds, for every adapter, number of connections and size
\* of the two queues of client/ws_adapter_threaded.py and its successors.
THEOREM Invariant == Spec => []IInv
<1>1. Init => IInv BY InitHolds
<1>2. IInv /\ [Next]_vars => IInv' BY IInvKept
<1> QED BY <1>1, <1>2, PTL DEF Spec

\* The queues keep to their sizes, and what is in them is what send() and the peer
\* put there.
THEOREM TypeCorrect == Spec => []TypeOK
<1>1. IInv => TypeOK BY DEF IInv
<1> QED BY <1>1, Invariant, PTL

\* The messages of a connection leave in the order of its send() calls and once
\* each, whichever of them had to wait for room in _send_queue.
THEOREM SendsInOrder == Spec => []SentInOrder
<1>1. IInv => SentInOrder BY DEF IInv, Ordered
<1> QED BY <1>1, Invariant, PTL

\* What was received from the peer is with recv(), in _recv_queue or in the hands of
\* the receive thread, in order and the end after it, but for what found the queue
\* full.  What stays in the hands of a thread that has ended is lost: a last round of
\* v1 that ran into the broken connection, a message of v2 that came in while the
\* flag was reset.
THEOREM ReceivesAll == Spec => []ReceivedIsComplete
<1>1. IInv => ReceivedIsComplete
  <2>1. EndInv => EndIsLast BY DEF EndInv, EndIsLast
  <2>2. HoldInv => LeftInHand BY DEF HoldInv
  <2> QED BY <2>1, <2>2, ArrivedInOrder, ArrivedIsComplete DEF IInv, ReceivedIsComplete
<1> QED BY <1>1, Invariant, PTL

\* mark_connection_closed stops the messages that wait: but for the one a thread has
\* in its hands, none of a closed connection goes to the WebSocket any more.
THEOREM ClosedIsNotSent == Spec => StaleIsNotSent
<1>1. IInv /\ [Next]_vars =>
        [\A c \in closedIds : (Len(wire[c]) + InHandOf(c))' <= Len(wire[c]) + InHandOf(c)]_vars
  BY StaleStep DEF IInv
<1> QED BY <1>1, Invariant, PTL DEF Spec, StaleIsNotSent
==============================================================================
