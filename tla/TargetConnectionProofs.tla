------------------------ MODULE TargetConnectionProofs ------------------------
(***************************************************************************)
(* Proofs about TargetConnection for every queue size and every bound on   *)
(* the traffic.  Each part of the inductive invariant has a lemma that a   *)
(* step preserves it, split by the groups of actions of Next and, where an *)
(* action disturbs the part, by action.                                    *)
(***************************************************************************)
EXTENDS TargetConnectionInv, TLAPS

-----------------------------------------------------------------------------
\* Types.

LEMMA FrameType ==
  ASSUME NEW type \in {"ok", "fail", "data", "close"}, NEW n \in Nat
  PROVE  Frame(type, n) \in FrameSet
  BY DEF Frame, FrameSet

LEMMA EmitType ==
  ASSUME frames \in Seq(FrameSet), NEW f \in FrameSet, Emit(f)
  PROVE  frames' \in Seq(FrameSet)
  BY DEF Emit

LEMMA PutType ==
  ASSUME NEW q \in Seq(Nat), HasRoom(q), NEW x \in Nat
  PROVE  Append(q, x) \in Seq(Nat) /\ Len(Append(q, x)) <= QueueSize
  BY QueueSizeAssumption DEF HasRoom

LEMMA HeadTailType ==
  ASSUME NEW q \in Seq(Nat), q # <<>>
  PROVE  Head(q) \in Nat /\ Tail(q) \in Seq(Nat) /\ Len(Tail(q)) = Len(q) - 1
  OBVIOUS

LEMMA AppendType ==
  ASSUME NEW q \in Seq(Nat), NEW x \in Nat
  PROVE  Append(q, x) \in Seq(Nat) /\ Len(Append(q, x)) = Len(q) + 1
  OBVIOUS

LEMMA TakeType ==
  ASSUME NEW q \in Seq(Nat), Len(q) <= QueueSize, q # <<>>
  PROVE  Head(q) \in Nat /\ Tail(q) \in Seq(Nat) /\ Len(Tail(q)) <= QueueSize
  BY QueueSizeAssumption

\* close() leaves the queue as it finds it, except for the extra sentinel.
LEMMA CloseQueue ==
  ASSUME NEW who, NEW q, Close(who, q)
  PROVE  \/ queue' = q
         \/ who = "read" /\ HasRoom(q) /\ queue' = Append(q, None)
  BY DEF Close, CloseReturnsAtOnce, CloseBegins, CloseFromSend

LEMMA CloseQueueType ==
  ASSUME NEW who, NEW q \in Seq(Nat), Len(q) <= QueueSize, Close(who, q)
  PROVE  QueueOK'
  BY CloseQueue, PutType DEF QueueOK, None

LEMMA FlagsStep ==
  ASSUME FlagsOK, [Next]_vars
  PROVE  FlagsOK'
<1>1. CASE ConnectNext
  BY <1>1, ZenonT(60) DEF FlagsOK, ConnectNext, RecvConnectRefused, RecvConnect, ConnectRaises, DialFail,
     ConnectReturns, DialOk, FlushNext, FlushFail, wsVars, upVars, downVars, taskVars, endVars
<1>2. ASSUME NEW who, NEW q, Close(who, q)
      PROVE  /\ running' = running \/ running' = FALSE
             /\ readCancel' = readCancel \/ readCancel' = TRUE
             /\ closing' = TRUE
  BY <1>2, ZenonT(60) DEF Close, CloseReturnsAtOnce, CloseBegins
<1>3. CASE ClientNext
  BY <1>2, <1>3, ZenonT(60) DEF FlagsOK, ClientNext, RecvData, DrainOk, DrainFail, RecvClose, WsLost,
     OnClose, SweepClose, wsVars, upVars, downVars, taskVars, endVars
<1>4. CASE ReadNext
  BY <1>2, <1>4, ZenonT(60) DEF FlagsOK, ReadNext, ReadStart, ReadFinally, ReadData, PutDone, ReadEnd,
     PutNoneDone, ReadCancelled, wsVars, upVars, downVars, taskVars, endVars
<1>5. CASE SendNext
  BY <1>2, <1>5, ZenonT(60) DEF FlagsOK, SendNext, TakeNone, TakeData, SendDone, SendFail, SendCancelled,
     wsVars, upVars, downVars, taskVars, endVars
<1>6. CASE CloseNext
  BY <1>6, ZenonT(60) DEF FlagsOK, CloseNext, CloseReadDone, CloseDrainTimeout, CloseSendDone, CloseNotify,
     CloseNotified, CloseEnds, wsVars, upVars, downVars, taskVars, endVars
<1>7. CASE TargetNext
  BY <1>7, ZenonT(60) DEF FlagsOK, TargetNext, TargetStalls, TargetResumes,
     wsVars, upVars, downVars, taskVars, endVars
<1>8. CASE UNCHANGED vars
  BY <1>8, ZenonT(60) DEF FlagsOK, vars, wsVars, upVars, downVars, taskVars, endVars
<1> QED
  BY <1>1, <1>3, <1>4, <1>5, <1>6, <1>7, <1>8 DEF Next

LEMMA TasksStep ==
  ASSUME TasksOK, [Next]_vars
  PROVE  TasksOK'
<1> USE DEF TasksOK, ReadStates, SendStates, CloseStates, wsVars, upVars, downVars, taskVars, endVars
<1>1. CASE ConnectNext
  BY <1>1 DEF ConnectNext, RecvConnectRefused, RecvConnect, ConnectRaises, DialFail,
     ConnectReturns, DialOk, FlushNext, FlushFail
<1>2. CASE ClientNext
  BY <1>2 DEF ClientNext, RecvData, DrainOk, DrainFail, RecvClose, WsLost, OnClose, SweepClose,
     Close, CloseReturnsAtOnce, CloseBegins, CloseFromSend
<1>3. CASE ReadNext
  BY <1>3 DEF ReadNext, ReadStart, ReadFinally, ReadData, PutDone, ReadEnd, PutNoneDone,
     ReadCancelled, Close, CloseReturnsAtOnce, CloseBegins, CloseFromSend
<1>4. CASE SendNext
  BY <1>4 DEF SendNext, TakeNone, TakeData, SendDone, SendFail, SendCancelled,
     Close, CloseReturnsAtOnce, CloseBegins, CloseFromSend
<1>5. CASE CloseNext
  BY <1>5 DEF CloseNext, CloseReadDone, CloseDrainTimeout, CloseSendDone, CloseNotify,
     CloseNotified, CloseEnds, CloseFromSend
<1>6. CASE TargetNext
  BY <1>6 DEF TargetNext, TargetStalls, TargetResumes
<1>7. CASE UNCHANGED vars
  BY <1>7 DEF vars
<1> QED
  BY <1>1, <1>2, <1>3, <1>4, <1>5, <1>6, <1>7 DEF Next

LEMMA QueueTypeStep ==
  ASSUME QueueOK, got \in Nat, [Next]_vars
  PROVE  QueueOK'
<1> USE DEF QueueOK, wsVars, upVars, downVars, taskVars, endVars
<1>1. CASE ConnectNext
  BY <1>1 DEF ConnectNext, RecvConnectRefused, RecvConnect, ConnectRaises, DialFail,
     DialOk, FlushNext, FlushFail
<1>2. CASE ClientNext
  BY <1>2, CloseQueueType DEF ClientNext, RecvData, DrainOk, DrainFail, RecvClose, WsLost, OnClose, SweepClose
<1>3. ASSUME ReadFinally PROVE QueueOK'
  BY <1>3, CloseQueueType, PutType DEF ReadFinally, None
<1>4. CASE ReadData
  <2>1. got' \in Nat
    BY <1>4 DEF ReadData
  <2> QED
    BY <1>4, <2>1, PutType DEF ReadData
<1>5. CASE PutDone
  BY <1>5, PutType DEF PutDone
<1>6. CASE PutNoneDone
  BY <1>6, CloseQueueType, PutType DEF PutNoneDone, None
<1>7. CASE ReadCancelled
  BY <1>7, PutType DEF ReadCancelled, None
<1>8. CASE ReadNext
  BY <1>8, <1>3, <1>4, <1>5, <1>6, <1>7 DEF ReadNext, ReadStart, ReadEnd
<1>9. CASE SendNext
  BY <1>9, CloseQueueType, TakeType DEF SendNext, TakeNone, TakeData, SendDone, SendFail, SendCancelled
<1>10. CASE CloseReadDone
  BY <1>10, PutType DEF CloseReadDone, CloseFromSend, None
<1>11. CASE CloseNext
  BY <1>10, <1>11 DEF CloseNext, CloseDrainTimeout, CloseSendDone, CloseNotify, CloseNotified
<1>12. CASE TargetNext
  BY <1>12 DEF TargetNext, TargetStalls, TargetResumes
<1>13. CASE UNCHANGED vars
  BY <1>13 DEF vars
<1> QED
  BY <1>1, <1>2, <1>8, <1>9, <1>11, <1>12, <1>13 DEF Next

LEMMA DataStep ==
  ASSUME DataOK, QueueOK, [Next]_vars
  PROVE  DataOK'
<1> USE DEF DataOK, wsVars, upVars, downVars, taskVars, endVars
<1>1. ASSUME NEW type \in {"ok", "fail", "data", "close"}, NEW n \in Nat, Emit(Frame(type, n))
      PROVE  frames' \in Seq(FrameSet)
  BY <1>1, FrameType, EmitType
<1>2. CASE RecvConnectRefused
  BY <1>2, <1>1 DEF RecvConnectRefused
<1>3. CASE DialFail \/ FlushFail
  BY <1>3, <1>1 DEF DialFail, FlushFail, ConnectRaises
<1>4. CASE DialOk
  <2>1. early' \in Seq(Nat) /\ written' \in Seq(Nat)
    <3>1. CASE early = <<>>
      BY <1>4, <3>1 DEF DialOk
    <3>2. CASE early # <<>>
      <4>1. Head(early) \in Nat /\ Tail(early) \in Seq(Nat)
        BY <3>2, HeadTailType
      <4> QED
        BY <1>4, <3>2, <4>1, AppendType DEF DialOk
    <3> QED
      BY <3>1, <3>2
  <2>2. frames' \in Seq(FrameSet)
    BY <1>4, <1>1 DEF DialOk, ConnectReturns
  <2> QED
    BY <1>4, <2>1, <2>2 DEF DialOk
<1>5. CASE FlushNext
  <2>1. early' \in Seq(Nat) /\ written' \in Seq(Nat)
    <3>1. CASE early = <<>>
      BY <1>5, <3>1 DEF FlushNext
    <3>2. CASE early # <<>>
      <4>1. Head(early) \in Nat /\ Tail(early) \in Seq(Nat)
        BY <3>2, HeadTailType
      <4> QED
        BY <1>5, <3>2, <4>1, AppendType DEF FlushNext
    <3> QED
      BY <3>1, <3>2
  <2>2. frames' \in Seq(FrameSet)
    BY <1>5, <1>1 DEF FlushNext, ConnectReturns
  <2> QED
    BY <1>5, <2>1, <2>2 DEF FlushNext
<1>6. CASE RecvData
  <2>1. upSent' \in 0..MaxUp /\ upSent' \in Nat
    BY <1>6, BoundsAssumption DEF RecvData
  <2>2. early' \in Seq(Nat)
    BY <1>6, <2>1, AppendType DEF RecvData
  <2>3. written' \in Seq(Nat)
    BY <1>6, <2>1, AppendType DEF RecvData
  <2>4. draining' \in Nat
    BY <1>6 DEF RecvData
  <2> QED
    BY <1>6, <2>1, <2>2, <2>3, <2>4 DEF RecvData
<1>7. CASE ClientNext
  BY <1>6, <1>7 DEF ClientNext, DrainOk, DrainFail, RecvClose, WsLost, OnClose, SweepClose
<1>8. CASE ReadNext
  BY <1>8, BoundsAssumption DEF ReadNext, ReadStart, ReadData, PutDone, ReadEnd, PutNoneDone, ReadCancelled
<1>9. CASE TakeData
  <2>1. Head(queue) \in Nat
    BY <1>9 DEF TakeData, QueueOK
  <2>2. frames' \in Seq(FrameSet)
    BY <1>9, <1>1, <2>1 DEF TakeData
  <2> QED
    BY <1>9, <2>2 DEF TakeData
<1>10. CASE SendNext
  BY <1>9, <1>10 DEF SendNext, TakeNone, SendDone, SendFail, SendCancelled
<1>11. CASE CloseNotify
  <2>1. frames' \in Seq(FrameSet)
    BY <1>11, <1>1 DEF CloseNotify
  <2> QED
    BY <1>11, <2>1 DEF CloseNotify
<1>12. CASE CloseNext
  BY <1>11, <1>12 DEF CloseNext, CloseReadDone, CloseDrainTimeout, CloseSendDone, CloseNotified
<1>13. CASE TargetNext
  BY <1>13 DEF TargetNext, TargetStalls, TargetResumes
<1>14. CASE UNCHANGED vars
  BY <1>14 DEF vars
<1>15. CASE RecvConnect
  BY <1>15 DEF RecvConnect
<1> QED
  BY <1>2, <1>3, <1>4, <1>5, <1>7, <1>8, <1>10, <1>12, <1>13, <1>14, <1>15 DEF Next, ConnectNext

LEMMA TypeStep ==
  ASSUME TypeOK, [Next]_vars
  PROVE  TypeOK'
<1>1. got \in Nat
  BY BoundsAssumption DEF TypeOK, DataOK
<1> QED
  BY <1>1, FlagsStep, TasksStep, QueueTypeStep, DataStep DEF TypeOK

LEMMA TypeInit == Init => TypeOK
<1> SUFFICES ASSUME Init PROVE TypeOK
  OBVIOUS
<1>1. FlagsOK /\ TasksOK
  BY DEF Init, FlagsOK, TasksOK, ReadStates, SendStates, CloseStates
<1>2. DataOK /\ QueueOK
  BY BoundsAssumption, QueueSizeAssumption DEF Init, DataOK, QueueOK
<1> QED
  BY <1>1, <1>2 DEF TypeOK

\* Every variable keeps its type: in particular the queue never exceeds its
\* capacity, although close() also puts a sentinel.
THEOREM TypeCorrect == Spec => []TypeOK
<1>1. TypeOK /\ [Next]_vars => TypeOK'
  BY TypeStep
<1> QED
  BY TypeInit, <1>1, PTL DEF Spec

-----------------------------------------------------------------------------
\* Control locations and flags.

LEMMA PhaseStep ==
  ASSUME TasksOK, ControlInv, [Next]_vars
  PROVE  PhaseInv'
<1> USE DEF TasksOK, ReadStates, SendStates, CloseStates, ControlInv, PhaseInv, FlagsInv,
        ReaderInv, SenderInv, wsVars, upVars, downVars, taskVars, endVars
<1>1. CASE ConnectNext
  BY <1>1 DEF ConnectNext, RecvConnectRefused, RecvConnect, ConnectRaises, DialFail,
     ConnectReturns, DialOk, FlushNext, FlushFail
<1>3. CASE ClientNext
  BY <1>3 DEF ClientNext, RecvData, DrainOk, DrainFail, RecvClose, WsLost, OnClose,
     SweepClose, Close, CloseReturnsAtOnce, CloseBegins, CloseFromSend
<1>4. CASE ReadNext
  BY <1>4 DEF ReadNext, ReadStart, ReadFinally, ReadData, PutDone, ReadEnd, PutNoneDone,
     ReadCancelled, Close, CloseReturnsAtOnce, CloseBegins, CloseFromSend
<1>5. CASE SendNext
  BY <1>5 DEF SendNext, TakeNone, TakeData, SendDone, SendFail, SendCancelled, SendReady,
     SendCancelPending, Close, CloseReturnsAtOnce, CloseBegins, CloseFromSend, Live
<1>6. CASE CloseNext
  BY <1>6 DEF CloseNext, CloseReadDone, CloseDrainTimeout, CloseSendDone, CloseNotify,
     CloseNotified, CloseEnds, CloseFromSend
<1>7. CASE TargetNext
  BY <1>7 DEF TargetNext, TargetStalls, TargetResumes
<1>8. CASE UNCHANGED vars
  BY <1>8 DEF vars
<1> QED
  BY <1>1, <1>3, <1>4, <1>5, <1>6, <1>7, <1>8 DEF Next

LEMMA FlagsInvStep ==
  ASSUME TasksOK, ControlInv, [Next]_vars
  PROVE  FlagsInv'
<1> USE DEF TasksOK, ReadStates, SendStates, CloseStates, ControlInv, PhaseInv, FlagsInv,
        ReaderInv, SenderInv, wsVars, upVars, downVars, taskVars, endVars
<1>1. CASE ConnectNext
  BY <1>1 DEF ConnectNext, RecvConnectRefused, RecvConnect, ConnectRaises, DialFail,
     ConnectReturns, DialOk, FlushNext, FlushFail
<1>2. CASE ClientNext
  BY <1>2 DEF ClientNext, RecvData, DrainOk, DrainFail, RecvClose, WsLost, OnClose, SweepClose,
     Close, CloseReturnsAtOnce, CloseBegins, CloseFromSend, Live
<1>3. CASE ReadNext
  BY <1>3 DEF ReadNext, ReadStart, ReadFinally, ReadData, PutDone, ReadEnd, PutNoneDone,
     ReadCancelled, Close, CloseReturnsAtOnce, CloseBegins, CloseFromSend, Live
<1>4. CASE SendNext
  BY <1>4 DEF SendNext, TakeNone, TakeData, SendDone, SendFail, SendCancelled, SendReady,
     SendCancelPending, Close, CloseReturnsAtOnce, CloseBegins, CloseFromSend, Live
<1>5. CASE CloseNext
  BY <1>5 DEF CloseNext, CloseReadDone, CloseDrainTimeout, CloseSendDone, CloseNotify,
     CloseNotified, CloseEnds, CloseFromSend, Live
<1>6. CASE TargetNext
  BY <1>6 DEF TargetNext, TargetStalls, TargetResumes
<1>7. CASE UNCHANGED vars
  BY <1>7 DEF vars
<1> QED
  BY <1>1, <1>2, <1>3, <1>4, <1>5, <1>6, <1>7 DEF Next

\* A task starts on the empty queue, so its first sentinel finds room.
LEMMA ReaderStep ==
  ASSUME TasksOK, ControlInv, QuietInv, [Next]_vars
  PROVE  ReaderInv'
<1> USE DEF TasksOK, ReadStates, SendStates, CloseStates, ControlInv, PhaseInv, FlagsInv,
        ReaderInv, SenderInv, wsVars, upVars, downVars, taskVars, endVars
<1>1. CASE ConnectNext
  BY <1>1 DEF ConnectNext, RecvConnectRefused, RecvConnect, ConnectRaises, DialFail,
     ConnectReturns, DialOk, FlushNext, FlushFail
<1>2. CASE ClientNext
  BY <1>2 DEF ClientNext, RecvData, DrainOk, DrainFail, RecvClose, WsLost, OnClose, SweepClose,
     Close, CloseReturnsAtOnce, CloseBegins, CloseFromSend, Live
<1>3. CASE ReadStart
  <2>1. HasRoom(queue)
    BY <1>3, QueueSizeAssumption DEF ReadStart, HasRoom, QuietInv
  <2> QED
    BY <1>3, <2>1 DEF ReadStart, ReadFinally, Close, CloseReturnsAtOnce, CloseBegins, CloseFromSend
<1>4. CASE ReadNext
  BY <1>3, <1>4 DEF ReadNext, ReadFinally, ReadData, PutDone, ReadEnd, PutNoneDone,
     ReadCancelled, Close, CloseReturnsAtOnce, CloseBegins, CloseFromSend, Live
<1>5. CASE SendNext
  BY <1>5 DEF SendNext, TakeNone, TakeData, SendDone, SendFail, SendCancelled, SendReady,
     SendCancelPending, Close, CloseReturnsAtOnce, CloseBegins, CloseFromSend, Live
<1>6. CASE CloseNext
  BY <1>6 DEF CloseNext, CloseReadDone, CloseDrainTimeout, CloseSendDone, CloseNotify,
     CloseNotified, CloseEnds, CloseFromSend, Live
<1>7. CASE TargetNext
  BY <1>7 DEF TargetNext, TargetStalls, TargetResumes
<1>8. CASE UNCHANGED vars
  BY <1>8 DEF vars
<1> QED
  BY <1>1, <1>2, <1>4, <1>5, <1>6, <1>7, <1>8 DEF Next

\* The send loop meets a sentinel only after the read loop called close(), so
\* its own close() returns at once.
LEMMA SenderStep ==
  ASSUME TasksOK, QueueOK, ControlInv, SentinelInv, [Next]_vars
  PROVE  SenderInv'
<1> USE DEF TasksOK, ReadStates, SendStates, CloseStates, ControlInv, PhaseInv, FlagsInv,
        ReaderInv, SenderInv, wsVars, upVars, downVars, taskVars, endVars
<1>1. CASE ConnectNext
  BY <1>1 DEF ConnectNext, RecvConnectRefused, RecvConnect, ConnectRaises, DialFail,
     ConnectReturns, DialOk, FlushNext, FlushFail
<1>2. CASE ClientNext
  BY <1>2 DEF ClientNext, RecvData, DrainOk, DrainFail, RecvClose, WsLost, OnClose, SweepClose,
     Close, CloseReturnsAtOnce, CloseBegins, CloseFromSend, Live
<1>3. CASE ReadNext
  BY <1>3 DEF ReadNext, ReadStart, ReadFinally, ReadData, PutDone, ReadEnd, PutNoneDone,
     ReadCancelled, Close, CloseReturnsAtOnce, CloseBegins, CloseFromSend, Live
<1>4. CASE TakeNone
  <2>1. 1 \in DOMAIN queue /\ queue[1] = None
    BY <1>4 DEF TakeNone, QueueOK
  <2>2. rl \in {"closing", "done"}
    BY <2>1 DEF SentinelInv
  <2>3. closing
    BY <2>2
  <2> QED
    BY <1>4, <2>2, <2>3 DEF TakeNone, SendReady, SendCancelPending, Close, CloseReturnsAtOnce, CloseBegins
<1>5. CASE SendNext
  BY <1>4, <1>5 DEF SendNext, TakeData, SendDone, SendFail, SendCancelled, SendReady,
     SendCancelPending, Close, CloseReturnsAtOnce, CloseBegins, CloseFromSend, Live
<1>6. CASE CloseNext
  BY <1>6 DEF CloseNext, CloseReadDone, CloseDrainTimeout, CloseSendDone, CloseNotify,
     CloseNotified, CloseEnds, CloseFromSend, Live
<1>7. CASE TargetNext
  BY <1>7 DEF TargetNext, TargetStalls, TargetResumes
<1>8. CASE UNCHANGED vars
  BY <1>8 DEF vars
<1> QED
  BY <1>1, <1>2, <1>3, <1>5, <1>6, <1>7, <1>8 DEF Next

-----------------------------------------------------------------------------
\* The queue.

LEMMA AppendElements ==
  ASSUME NEW S, NEW q \in Seq(S), NEW x \in S
  PROVE  /\ Append(q, x) \in Seq(S) /\ Len(Append(q, x)) = Len(q) + 1
         /\ DOMAIN Append(q, x) = 1..(Len(q) + 1) /\ DOMAIN q = 1..Len(q)
         /\ \A i \in DOMAIN q : Append(q, x)[i] = q[i]
         /\ Append(q, x)[Len(q) + 1] = x
  OBVIOUS

LEMMA TailElements ==
  ASSUME NEW S, NEW q \in Seq(S), q # <<>>
  PROVE  /\ Tail(q) \in Seq(S) /\ Len(Tail(q)) = Len(q) - 1
         /\ DOMAIN Tail(q) = 1..(Len(q) - 1) /\ DOMAIN q = 1..Len(q)
         /\ \A i \in DOMAIN Tail(q) : i + 1 \in DOMAIN q /\ Tail(q)[i] = q[i + 1]
         /\ 1 \in DOMAIN q /\ Head(q) = q[1]
  OBVIOUS

\* Only the read loop, when it closes, adds a sentinel through close().
LEMMA CloseKeepsQueue ==
  ASSUME NEW who, who # "read", NEW q, Close(who, q)
  PROVE  queue' = q /\ (rl \in {"closing", "done"} => rl' = rl)
  BY CloseQueue DEF Close, CloseReturnsAtOnce, CloseBegins

LEMMA ReadClose ==
  ASSUME NEW q \in Seq(Nat), Close("read", q)
  PROVE  /\ rl' \in {"closing", "done"}
         /\ queue' \in Seq(Nat)
         /\ \/ queue' = q
            \/ HasRoom(q) /\ queue' = Append(q, None)
<1>1. rl' \in {"closing", "done"}
  BY DEF Close, CloseReturnsAtOnce, CloseBegins
<1> QED
  BY <1>1, CloseQueue, AppendType DEF None

LEMMA SentinelStep ==
  ASSUME TypeOK, ControlInv, SentinelInv, QuietInv, [Next]_vars
  PROVE  SentinelInv'
<1> USE DEF wsVars, upVars, downVars, taskVars, endVars
<1>0. queue \in Seq(Nat) /\ got \in Nat /\ None \in Nat
  BY BoundsAssumption DEF TypeOK, DataOK, QueueOK, None
<1>1. ASSUME UNCHANGED <<queue, got>>, rl' # "putting" \/ rl = "putting",
             rl \in {"closing", "done"} => rl' \in {"closing", "done"}
      PROVE  SentinelInv'
  BY <1>1 DEF SentinelInv
<1>2. ASSUME rl' \in {"closing", "done"}
      PROVE  SentinelInv'
  BY <1>2 DEF SentinelInv
<1>3. CASE ConnectNext
  BY <1>1, <1>3 DEF ConnectNext, RecvConnectRefused, RecvConnect, ConnectRaises, DialFail,
     ConnectReturns, DialOk, FlushNext, FlushFail, ControlInv, PhaseInv
<1>4. CASE ClientNext
  <2>1. ASSUME Close("other", queue), UNCHANGED got PROVE SentinelInv'
    <3>1. rl' = rl /\ queue' = queue
      BY <2>1, CloseKeepsQueue DEF Close, CloseReturnsAtOnce, CloseBegins
    <3> QED
      BY <3>1, <2>1, <1>1
  <2> QED
    BY <1>1, <2>1, <1>4 DEF ClientNext, RecvData, DrainOk, DrainFail, RecvClose, WsLost, OnClose, SweepClose
<1>5. CASE ReadNext
  <2>1. ASSUME NEW q \in Seq(Nat), Close("read", q) PROVE SentinelInv'
    BY <2>1, ReadClose, <1>2
  <2>2. ASSUME ReadFinally, UNCHANGED got, rl \notin {"closing", "done"} PROVE SentinelInv'
    BY <2>1, <2>2, <1>0, <1>1, AppendType DEF ReadFinally
  <2>3. CASE ReadStart
    BY <2>2, <2>3, <1>1 DEF ReadStart
  <2>4. CASE ReadData
    <3>1. got' \in Nat /\ got' > 0 /\ rl = "reading" /\ rl' \notin {"closing", "done"}
      BY <2>4, <1>0 DEF ReadData
    <3>2. CASE queue' = queue
      BY <3>1, <3>2, <1>0 DEF SentinelInv
    <3>3. CASE queue' = Append(queue, got')
      BY <3>1, <3>3, <1>0, AppendElements DEF SentinelInv, None
    <3> QED
      BY <2>4, <3>2, <3>3 DEF ReadData
  <2>5. CASE PutDone
    <3>1. got > 0 /\ got' = got /\ queue' = Append(queue, got) /\ rl' = "reading" /\ rl = "putting"
      BY <2>5 DEF PutDone, SentinelInv
    <3> QED
      BY <3>1, <1>0, AppendElements DEF SentinelInv, None
  <2>6. CASE ReadEnd
    BY <2>2, <2>6 DEF ReadEnd
  <2>7. CASE PutNoneDone
    BY <2>1, <2>7, <1>0, AppendType DEF PutNoneDone
  <2>8. CASE ReadCancelled
    BY <1>1, <1>2, <2>8 DEF ReadCancelled, ControlInv, ReaderInv
  <2> QED
    BY <1>5, <2>3, <2>4, <2>5, <2>6, <2>7, <2>8 DEF ReadNext
<1>6. CASE SendNext
  <2>1. ASSUME queue # <<>>, queue' = Tail(queue), UNCHANGED got, rl' # "putting" \/ rl = "putting",
               rl \in {"closing", "done"} => rl' \in {"closing", "done"}
        PROVE  SentinelInv'
    BY <2>1, <1>0, TailElements DEF SentinelInv
  <2>2. ASSUME NEW q, Close("send", q)
        PROVE  queue' = q /\ rl' = rl
    BY <2>2, CloseKeepsQueue DEF Close, CloseReturnsAtOnce, CloseBegins
  <2> QED
    BY <1>1, <1>6, <2>1, <2>2 DEF SendNext, TakeNone, TakeData, SendDone, SendFail, SendCancelled
<1>7. CASE CloseNext
  <2>1. CASE CloseReadDone
    BY <2>1, <1>1 DEF CloseReadDone, CloseFromSend, ControlInv, ReaderInv
  <2> QED
    BY <1>1, <1>7, <2>1 DEF CloseNext, CloseDrainTimeout, CloseSendDone, CloseNotify, CloseNotified, CloseEnds
<1>8. CASE TargetNext
  BY <1>1, <1>8 DEF TargetNext, TargetStalls, TargetResumes
<1>9. CASE UNCHANGED vars
  BY <1>1, <1>9 DEF vars
<1> QED
  BY <1>3, <1>4, <1>5, <1>6, <1>7, <1>8, <1>9 DEF Next

LEMMA QuietStep ==
  ASSUME TypeOK, ControlInv, SentinelInv, QuietInv, [Next]_vars
  PROVE  QuietInv'
<1> USE DEF wsVars, upVars, downVars, taskVars, endVars
<1>0. queue \in Seq(Nat) /\ None \in Nat
  BY DEF TypeOK, QueueOK, None
<1>1. CASE ConnectNext
  <2>1. UNCHANGED <<queue, cl>> /\ (UNCHANGED <<rl, sl>> \/ (rl' = "spawned" /\ sl' = "getting" /\ rl = "none"))
    BY <1>1 DEF ConnectNext, RecvConnectRefused, RecvConnect, ConnectRaises, DialFail,
       ConnectReturns, DialOk, FlushNext, FlushFail, ControlInv, PhaseInv
  <2> QED
    BY <2>1 DEF QuietInv
<1>2. CASE ClientNext
  <2>1. ASSUME Close("other", queue) PROVE QuietInv'
    <3>1. UNCHANGED <<queue, rl, sl>>
      BY <2>1, CloseKeepsQueue DEF Close, CloseReturnsAtOnce, CloseBegins
    <3>2. cl' = cl \/ cl' \in {"awaitRead", "awaitSend"} \/ sl \in {"none", "done"}
      BY <2>1 DEF Close, CloseReturnsAtOnce, CloseBegins, CloseFromSend, Live
    <3> QED
      BY <3>1, <3>2 DEF QuietInv
  <2> QED
    BY <1>2, <2>1 DEF ClientNext, RecvData, DrainOk, DrainFail, RecvClose, WsLost, OnClose, SweepClose, QuietInv
<1>3. CASE ReadStart
  <2>1. rl = "spawned" /\ queue = <<>> /\ HasRoom(queue)
    BY <1>3, QueueSizeAssumption DEF ReadStart, QuietInv, HasRoom
  <2>2. CASE running
    BY <1>3, <2>1, <2>2 DEF ReadStart, QuietInv, ControlInv, FlagsInv, ReadFinally, Close,
       CloseReturnsAtOnce, CloseBegins
  <2>3. CASE ~running
    <3>1. CloseReturnsAtOnce("read", Append(queue, None))
      BY <1>3, <2>1, <2>3 DEF ReadStart, ReadFinally, Close, CloseBegins
    <3>2. rl' = "done" /\ queue' = Append(queue, None) /\ UNCHANGED <<cl, sl>>
      BY <1>3, <3>1 DEF CloseReturnsAtOnce
    <3>3. \A i \in DOMAIN queue' : queue'[i] = None
      BY <1>0, <2>1, <3>2, AppendElements
    <3> QED
      BY <3>2, <3>3, <2>1 DEF QuietInv, ControlInv, PhaseInv
  <2> QED
    BY <2>2, <2>3
<1>4. CASE ReadNext /\ ~ReadStart
  <2>1. rl \in {"reading", "putting", "putNone", "spawned"} /\ cl \in {"none", "awaitRead"}
        /\ (rl = "spawned" => readCancel)
    BY <1>4 DEF ReadNext, ReadData, PutDone, ReadEnd, PutNoneDone, ReadCancelled, ControlInv, ReaderInv
  <2>2. ASSUME NEW q, Close("read", q) PROVE QuietInv'
    BY <2>1, <2>2 DEF Close, CloseReturnsAtOnce, CloseBegins, CloseFromSend, Live, QuietInv
  <2>3. CASE ReadData \/ PutDone \/ ReadCancelled
    BY <2>1, <2>3 DEF ReadData, PutDone, ReadCancelled, QuietInv
  <2>4. CASE ReadEnd \/ PutNoneDone
    BY <2>1, <2>2, <2>4 DEF ReadEnd, ReadFinally, PutNoneDone, QuietInv
  <2> QED
    BY <1>4, <2>3, <2>4 DEF ReadNext
<1>5. CASE SendNext
  <2>1. rl' = rl /\ (rl \in {"none", "spawned"} => queue' = queue)
    BY <1>5, CloseKeepsQueue DEF SendNext, TakeNone, TakeData, SendDone, SendFail, SendCancelled, QuietInv,
       Close, CloseReturnsAtOnce, CloseBegins
  <2>2. CASE TakeNone \/ SendFail \/ SendCancelled
    <3>1. sl' \in {"done", "closing"}
      BY <2>2 DEF TakeNone, SendFail, SendCancelled, Close, CloseReturnsAtOnce, CloseBegins
    <3> QED
      BY <2>1, <3>1 DEF QuietInv
  <2>3. CASE SendDone
    BY <2>1, <2>3 DEF SendDone, SendReady, QuietInv
  <2>4. CASE TakeData
    <3>1. 1 \in DOMAIN queue /\ queue[1] # None /\ sl = "getting"
      BY <2>4, <1>0, TailElements DEF TakeData, SendReady
    <3>2. cl \notin {"waitClosed", "notify", "done"}
      BY <3>1 DEF QuietInv
    <3>3. cl' = cl \/ sl' \in {"done", "closing"}
      BY <2>4 DEF TakeData, Close, CloseReturnsAtOnce, CloseBegins
    <3> QED
      BY <2>1, <3>2, <3>3 DEF QuietInv
  <2> QED
    BY <1>5, <2>2, <2>3, <2>4 DEF SendNext
<1>6. CASE CloseNext
  <2>1. CASE CloseReadDone
    BY <2>1 DEF CloseReadDone, CloseFromSend, Live, QuietInv
  <2>2. CASE CloseDrainTimeout
    BY <2>2 DEF CloseDrainTimeout, QuietInv
  <2>3. CASE CloseSendDone
    BY <2>3 DEF CloseSendDone, QuietInv, ControlInv, SenderInv
  <2>4. CASE CloseNotify \/ CloseNotified
    BY <2>4 DEF CloseNotify, CloseNotified, CloseEnds, QuietInv
  <2> QED
    BY <1>6, <2>1, <2>2, <2>3, <2>4 DEF CloseNext
<1>7. CASE TargetNext
  BY <1>7 DEF TargetNext, TargetStalls, TargetResumes, QuietInv
<1>8. CASE UNCHANGED vars
  BY <1>8 DEF vars, QuietInv
<1> QED
  BY <1>1, <1>2, <1>3, <1>4, <1>5, <1>6, <1>7, <1>8 DEF Next, ReadNext

-----------------------------------------------------------------------------
\* First results.

\* At cl = "done" the send loop can take a sentinel at most, so it does not
\* create the lock again.
LEMMA LeftBehindStep ==
  ASSUME TypeOK, ControlInv, QuietInv, NothingLeftBehind, [Next]_vars
  PROVE  NothingLeftBehind'
<1> USE DEF wsVars, upVars, downVars, taskVars, endVars, NothingLeftBehind
<1>1. CASE ConnectNext
  BY <1>1 DEF ConnectNext, RecvConnectRefused, RecvConnect, ConnectRaises, DialFail,
     ConnectReturns, DialOk, FlushNext, FlushFail, ControlInv, PhaseInv, FlagsInv
<1>2. CASE ClientNext
  BY <1>2 DEF ClientNext, RecvData, DrainOk, DrainFail, RecvClose, WsLost, OnClose, SweepClose,
     Close, CloseReturnsAtOnce, CloseBegins, CloseFromSend
<1>3. CASE ReadNext
  BY <1>3 DEF ReadNext, ReadStart, ReadFinally, ReadData, PutDone, ReadEnd, PutNoneDone,
     ReadCancelled, Close, CloseReturnsAtOnce, CloseBegins, CloseFromSend
<1>4. CASE TakeData
  <2>1. 1 \in DOMAIN queue /\ queue[1] # None /\ sl = "getting"
    BY <1>4, TailElements DEF TakeData, SendReady, TypeOK, QueueOK
  <2>2. cl # "done"
    BY <2>1 DEF QuietInv
  <2> QED
    BY <1>4, <2>2 DEF TakeData, Close, CloseReturnsAtOnce, CloseBegins, CloseFromSend
<1>5. CASE SendNext
  BY <1>4, <1>5 DEF SendNext, TakeNone, SendDone, SendFail, SendCancelled,
     Close, CloseReturnsAtOnce, CloseBegins, CloseFromSend
<1>6. CASE CloseNext
  BY <1>6 DEF CloseNext, CloseReadDone, CloseDrainTimeout, CloseSendDone, CloseNotify,
     CloseNotified, CloseEnds, CloseFromSend
<1>7. CASE TargetNext
  BY <1>7 DEF TargetNext, TargetStalls, TargetResumes
<1>8. CASE UNCHANGED vars
  BY <1>8 DEF vars
<1> QED
  BY <1>1, <1>2, <1>3, <1>5, <1>6, <1>7, <1>8 DEF Next

\* The invariant of the control flow alone.
EndInv == TypeOK /\ ControlInv /\ SentinelInv /\ QuietInv /\ NothingLeftBehind

LEMMA EndInvariant == Spec => []EndInv
<1>1. Init => EndInv
  <2> SUFFICES ASSUME Init PROVE EndInv
    OBVIOUS
  <2>1. ControlInv
    BY DEF Init, ControlInv, PhaseInv, FlagsInv, ReaderInv, SenderInv
  <2>2. SentinelInv /\ QuietInv /\ NothingLeftBehind
    BY DEF Init, SentinelInv, QuietInv, NothingLeftBehind
  <2> QED
    BY <2>1, <2>2, TypeInit DEF EndInv
<1>2. EndInv /\ [Next]_vars => EndInv'
  <2> SUFFICES ASSUME EndInv, [Next]_vars PROVE EndInv'
    OBVIOUS
  <2>1. TasksOK /\ QueueOK
    BY DEF EndInv, TypeOK
  <2>2. ControlInv'
    BY <2>1, PhaseStep, FlagsInvStep, ReaderStep, SenderStep DEF EndInv, ControlInv
  <2> QED
    BY <2>2, TypeStep, SentinelStep, QuietStep, LeftBehindStep DEF EndInv
<1> QED
  BY <1>1, <1>2, PTL DEF Spec

\* The per-connection send lock never makes anybody wait: the close() protocol
\* has ended the send task before close_connection asks for the lock.
THEOREM LockUncontended == Spec => []LockIsFree
<1>1. EndInv => LockIsFree
  <2> SUFFICES ASSUME EndInv PROVE LockIsFree
    OBVIOUS
  <2>1. cl = "waitClosed" => sl # "sending"
    BY DEF EndInv, QuietInv
  <2>2. ASSUME cl = "notify", sl = "getting", queue # <<>>
        PROVE  Head(queue) = None
    BY <2>2, TailElements DEF EndInv, QuietInv, TypeOK, QueueOK
  <2> QED
    BY <2>1, <2>2 DEF LockIsFree
<1> QED
  BY <1>1, EndInvariant, PTL

\* A close() that ran to its end leaves no dictionary entry and no lock, ever.
THEOREM CleanAfterClose == Spec => []NothingLeftBehind
<1>1. EndInv => NothingLeftBehind
  BY DEF EndInv
<1> QED
  BY <1>1, EndInvariant, PTL

\* The deadlock of the two loops needs a lost WebSocket.
THEOREM NoDeadlockWhileOpen == Spec => []WedgedOnlyAfterLoss
<1>1. EndInv => WedgedOnlyAfterLoss
  BY DEF EndInv, ControlInv, SenderInv, WedgedOnlyAfterLoss, Wedged
<1> QED
  BY <1>1, EndInvariant, PTL

-----------------------------------------------------------------------------
\* Nobody forgets an open connection to the target.

LEMMA OwnedStep ==
  ASSUME TasksOK, ControlInv, OwnedInv, [Next]_vars
  PROVE  OwnedInv'
<1> USE DEF TasksOK, ControlInv, PhaseInv, FlagsInv, OwnedInv, wsVars, upVars, downVars, taskVars, endVars
<1>1. CASE ConnectNext
  BY <1>1 DEF ConnectNext, RecvConnectRefused, RecvConnect, ConnectRaises, DialFail,
     ConnectReturns, DialOk, FlushNext, FlushFail
<1>2. CASE ClientNext
  BY <1>2 DEF ClientNext, RecvData, DrainOk, DrainFail, RecvClose, WsLost, OnClose, SweepClose,
     Close, CloseReturnsAtOnce, CloseBegins, CloseFromSend
<1>3. CASE ReadNext
  BY <1>3 DEF ReadNext, ReadStart, ReadFinally, ReadData, PutDone, ReadEnd, PutNoneDone,
     ReadCancelled, Close, CloseReturnsAtOnce, CloseBegins, CloseFromSend
<1>4. CASE SendNext
  BY <1>4 DEF SendNext, TakeNone, TakeData, SendDone, SendFail, SendCancelled,
     Close, CloseReturnsAtOnce, CloseBegins, CloseFromSend
<1>5. CASE CloseNext
  BY <1>5 DEF CloseNext, CloseReadDone, CloseDrainTimeout, CloseSendDone, CloseNotify,
     CloseNotified, CloseEnds, CloseFromSend
<1>6. CASE TargetNext
  BY <1>6 DEF TargetNext, TargetStalls, TargetResumes
<1>7. CASE UNCHANGED vars
  BY <1>7 DEF vars
<1> QED
  BY <1>1, <1>2, <1>3, <1>4, <1>5, <1>6, <1>7 DEF Next

\* Apart from a close() that came too early and a flush that failed, every open
\* connection to the target has somebody who closes it.
THEOREM TargetIsOwned == Spec => []OpenTargetIsOwned
<1>1. Init => OwnedInv
  BY DEF Init, OwnedInv
<1>2. EndInv /\ OwnedInv /\ [Next]_vars => OwnedInv'
  BY OwnedStep DEF EndInv, TypeOK
<1>3. OwnedInv => OpenTargetIsOwned
  BY DEF OwnedInv, OpenTargetIsOwned, UnderClose, ClosedTooEarly, FlushFailed
<1> QED
  BY <1>1, <1>2, <1>3, EndInvariant, PTL DEF Spec

-----------------------------------------------------------------------------
\* The data in the queue.

\* Steps that move no packet.
LEMMA QueueIdle ==
  ASSUME EndInv, QueueInv, UNCHANGED <<queue, got, sent>>,
         CanSend' => CanSend,
         CanSend' /\ closer' \in {"none", "read"} => closer \in {"none", "read"},
         rl' \in {"none", "spawned"} => rl \in {"none", "spawned"},
         \/ UNCHANGED rl
         \/ rl # "putting" /\ rl' \notin {"reading", "putting", "putNone"}
         \/ rl = "reading" /\ rl' = "putNone"
         \/ rl = "spawned" /\ rl' = "reading"
         \/ closer' \notin {"none", "read"},
         (CanSend' /\ closer' = "read" /\ ~timedOut' /\ sl' = "done") =>
           (closer = "read" /\ ~timedOut /\ sl = "done")
  PROVE  QueueInv'
<1>1. queue \in Seq(Nat) /\ got \in Nat /\ sent \in Nat
  BY BoundsAssumption DEF EndInv, TypeOK, DataOK, QueueOK
<1>2. rl \in {"none", "spawned"} => queue = <<>> /\ Len(queue) = 0
  BY DEF EndInv, QuietInv
<1> QED
  BY <1>1, <1>2 DEF QueueInv, Pending

\* The read loop ends: it puts one or two sentinels.
LEMMA QueueReadEnds ==
  ASSUME EndInv, QueueInv, Close("read", Append(queue, None)),
         rl \in {"spawned", "reading", "putNone"},
         UNCHANGED <<ws, registered, got, sent, timedOut>>
  PROVE  QueueInv'
<1>0. queue \in Seq(Nat) /\ got \in Nat /\ sent \in Nat /\ None \in Nat /\ None = 0
  BY BoundsAssumption DEF EndInv, TypeOK, DataOK, QueueOK, None
<1>1. rl' \in {"closing", "done"}
  BY ReadClose, AppendType, <1>0
<1>2. /\ closer \notin {"read"}
      /\ closer' \in {"none", "read"} => closer = "none"
      /\ closer' = "read" => sl' # "done"
  BY DEF EndInv, ControlInv, ReaderInv, FlagsInv, SenderInv, Close, CloseReturnsAtOnce, CloseBegins
<1>3. \A i \in DOMAIN queue : queue[i] # None
  BY DEF EndInv, SentinelInv
<1>4. CanSend /\ closer = "none" => got - sent = Len(queue)
  <2>1. CASE rl = "spawned"
    BY <2>1, <1>0 DEF EndInv, QuietInv, QueueInv
  <2>2. CASE rl # "spawned"
    BY <2>2, <1>0 DEF QueueInv, Pending
  <2> QED
    BY <2>1, <2>2
<1>5. ASSUME NEW q \in Seq(Nat), queue' = q, Len(q) >= Len(queue),
             DOMAIN q = 1..Len(q), DOMAIN queue = 1..Len(queue),
             \A i \in DOMAIN q : q[i] = IF i <= Len(queue) THEN queue[i] ELSE None
      PROVE  QueueInv'
  BY <1>0, <1>1, <1>2, <1>3, <1>4, <1>5 DEF QueueInv, Pending, CanSend
<1>6. /\ Append(queue, None) \in Seq(Nat)
      /\ \A i \in DOMAIN Append(queue, None) :
           Append(queue, None)[i] = IF i <= Len(queue) THEN queue[i] ELSE None
  BY <1>0, AppendElements
<1>7. CASE queue' = Append(queue, None)
  BY <1>0, <1>5, <1>6, <1>7, AppendElements
<1>8. CASE queue' = Append(Append(queue, None), None)
  <2>1. /\ queue' \in Seq(Nat) /\ Len(queue') = Len(queue) + 2
        /\ \A i \in DOMAIN queue' : queue'[i] = IF i <= Len(queue) THEN queue[i] ELSE None
    BY <1>0, <1>6, <1>8, AppendElements
  <2> QED
    BY <1>0, <1>5, <2>1
<1> QED
  BY <1>7, <1>8, CloseQueue

\* A packet is put: the read loop is not cancelled, so nobody is closing, and
\* the queue holds everything between the last packet sent and this one.
LEMMA QueuePut ==
  ASSUME EndInv, QueueInv, ReadData \/ PutDone
  PROVE  QueueInv'
<1> USE DEF wsVars, upVars, downVars, taskVars, endVars
<1>0. queue \in Seq(Nat) /\ got \in Nat /\ sent \in Nat /\ None \in Nat /\ None = 0
  BY BoundsAssumption DEF EndInv, TypeOK, DataOK, QueueOK, None
<1>1. rl \in {"reading", "putting"} /\ closer = "none" /\ ~readCancel
  BY DEF ReadData, PutDone, EndInv, ControlInv, ReaderInv, FlagsInv
<1>2. \A i \in DOMAIN queue : queue[i] # None
  BY <1>1 DEF EndInv, SentinelInv
<1>3. UNCHANGED <<ws, registered, sent, closer>> /\ (CanSend' <=> CanSend)
  BY DEF ReadData, PutDone, CanSend
<1>4. CanSend => Pending = Len(queue)
  BY <1>1 DEF QueueInv
<1>5. sent <= got /\ \A i \in DOMAIN queue : queue[i] <= got /\ (CanSend => queue[i] = sent + i)
  BY <1>2 DEF QueueInv
<1>6. CASE rl' = "putting"
  <2>1. rl = "reading" /\ got' = got + 1 /\ queue' = queue
    BY <1>6 DEF ReadData, PutDone
  <2> QED
    BY <1>0, <1>1, <1>2, <1>3, <1>6, <2>1 DEF QueueInv, Pending
<1>7. CASE rl' = "reading"
  <2>1. /\ queue' = Append(queue, got') /\ got' \in Nat /\ got' > 0
        /\ CanSend => got' = sent + Len(queue) + 1
        /\ got' >= got
    <3>1. CASE ReadData
      <4>1. rl = "reading" /\ got' = got + 1 /\ queue' = Append(queue, got')
        BY <1>7, <3>1 DEF ReadData
      <4> QED
        BY <1>0, <1>4, <4>1 DEF Pending
    <3>2. CASE PutDone
      <4>1. rl = "putting" /\ got' = got /\ queue' = Append(queue, got)
        BY <3>2 DEF PutDone
      <4>2. got > 0
        BY <4>1 DEF EndInv, SentinelInv
      <4> QED
        BY <1>0, <1>4, <4>1, <4>2 DEF Pending
    <3> QED
      BY <3>1, <3>2
  <2>2. /\ queue' \in Seq(Nat) /\ Len(queue') = Len(queue) + 1
        /\ DOMAIN queue' = 1..(Len(queue) + 1) /\ DOMAIN queue = 1..Len(queue)
        /\ \A i \in DOMAIN queue : queue'[i] = queue[i]
        /\ queue'[Len(queue) + 1] = got'
    BY <1>0, <2>1, AppendElements
  <2>3. \A i \in DOMAIN queue' : queue'[i] # None /\ queue'[i] <= got'
    BY <1>0, <1>2, <1>5, <2>1, <2>2
  <2>4. CanSend => \A i \in DOMAIN queue' : queue'[i] = sent + i
    <3> SUFFICES ASSUME CanSend, NEW i \in DOMAIN queue'
                 PROVE  queue'[i] = sent + i
      OBVIOUS
    <3>1. CASE i \in DOMAIN queue
      <4>1. queue'[i] = queue[i]
        BY <2>2, <3>1
      <4> QED
        BY <1>5, <3>1, <4>1
    <3>2. CASE i \notin DOMAIN queue
      <4>1. i = Len(queue) + 1
        BY <1>0, <2>2, <3>2
      <4>2. got' = sent + i
        BY <1>0, <2>1, <4>1
      <4> QED
        BY <2>2, <4>1, <4>2
    <3> QED
      BY <3>1, <3>2
  <2>5. sent' <= got'
    BY <1>0, <1>3, <1>5, <2>1
  <2>6. CanSend' => Pending' = Len(queue') /\ Pending' >= 0
    BY <1>0, <1>3, <1>7, <2>1, <2>2 DEF Pending
  <2>7. CanSend' => \A i \in DOMAIN queue' : ~(i > Pending')
    BY <1>0, <2>2, <2>6
  <2> QED
    BY <1>1, <1>3, <1>7, <2>3, <2>4, <2>5, <2>6, <2>7 DEF QueueInv
<1> QED
  BY <1>6, <1>7 DEF ReadData, PutDone

\* The send loop takes a sentinel or a packet.
LEMMA QueueTake ==
  ASSUME EndInv, QueueInv, TakeNone \/ TakeData
  PROVE  QueueInv'
<1> USE DEF wsVars, upVars, downVars, taskVars, endVars
<1>0. queue \in Seq(Nat) /\ got \in Nat /\ sent \in Nat /\ None \in Nat /\ None = 0
  BY BoundsAssumption DEF EndInv, TypeOK, DataOK, QueueOK, None
<1>1. queue # <<>> /\ queue' = Tail(queue) /\ rl' = rl /\ sl = "getting"
  BY CloseKeepsQueue DEF TakeNone, TakeData, SendReady, Close, CloseReturnsAtOnce, CloseBegins
<1>2. /\ queue' \in Seq(Nat) /\ Len(queue) \in Nat /\ Len(queue') = Len(queue) - 1
      /\ DOMAIN queue' = 1..(Len(queue) - 1) /\ DOMAIN queue = 1..Len(queue)
      /\ \A i \in DOMAIN queue' : i + 1 \in DOMAIN queue /\ queue'[i] = queue[i + 1]
      /\ 1 \in DOMAIN queue /\ Head(queue) = queue[1]
  BY <1>0, <1>1, TailElements
<1>3. UNCHANGED <<ws, registered, got, timedOut>> /\ (CanSend' <=> CanSend)
  BY DEF TakeNone, TakeData, CanSend
<1>4. rl \notin {"none", "spawned"}
  BY <1>1 DEF EndInv, QuietInv
<1>5. ASSUME NEW i \in DOMAIN queue', NEW j \in DOMAIN queue', i < j, queue'[i] = None
      PROVE  queue'[j] = None
  <2>0. /\ i \in 1..(Len(queue) - 1) /\ j \in 1..(Len(queue) - 1)
        /\ Len(queue) \in Int
    BY <1>2
  <2>1. i \in Nat /\ j \in Nat
    BY <2>0
  <2>2. i + 1 < j + 1
    BY <1>5, <2>1
  <2>3. i + 1 \in DOMAIN queue /\ j + 1 \in DOMAIN queue
    BY <1>2
  <2>4. queue[i + 1] = None
    BY <1>2, <1>5
  <2>5. queue[j + 1] = None
    BY <2>2, <2>3, <2>4 DEF QueueInv
  <2> QED
    BY <1>2, <2>5
<1>6. \A i \in DOMAIN queue' : queue'[i] <= got
  BY <1>2 DEF QueueInv
<1>7. CASE TakeNone
  <2>1. queue[1] = None /\ sent' = sent
    BY <1>2, <1>7 DEF TakeNone
  <2>2. ASSUME NEW i \in DOMAIN queue
        PROVE  queue[i] = None
    <3>1. i = 1 \/ 1 < i
      BY <1>0, <1>2
    <3> QED
      BY <1>2, <2>1, <3>1 DEF QueueInv
  <2>3. rl \in {"closing", "done"} /\ closing /\ closer' = closer
    <3>1. rl \in {"closing", "done"}
      BY <1>2, <2>1 DEF EndInv, SentinelInv
    <3>2. closing
      BY <3>1 DEF EndInv, ControlInv, ReaderInv, FlagsInv
    <3> QED
      BY <1>7, <3>1, <3>2 DEF TakeNone, Close, CloseReturnsAtOnce, CloseBegins
  <2>4. CanSend /\ closer \in {"none", "read"} => sent = got
    <3>1. CanSend /\ closer \in {"none", "read"} => got - sent >= 0 /\ 1 > got - sent
      BY <1>2, <2>1, <2>3 DEF QueueInv, Pending
    <3> QED
      BY <1>0, <3>1
  <2> QED
    BY <1>0, <1>1, <1>2, <1>3, <1>4, <1>5, <1>6, <2>1, <2>2, <2>3, <2>4 DEF QueueInv, Pending
<1>8. CASE TakeData
  <2>1. queue[1] # None
    BY <1>2, <1>8 DEF TakeData
  <2>2. CASE CanSend
    <3>1. sent' = sent + 1 /\ sl' = "sending" /\ closer' = closer
      BY <1>8, <2>2 DEF TakeData, CanSend
    <3>2. queue[1] = sent + 1 /\ sent' <= got
      BY <1>0, <1>2, <2>1, <2>2, <3>1 DEF QueueInv
    <3>3. \A i \in DOMAIN queue' : queue'[i] # None => queue'[i] = sent' + i
      <4> SUFFICES ASSUME NEW i \in DOMAIN queue', queue'[i] # None
                   PROVE  queue'[i] = sent' + i
        OBVIOUS
      <4>1. i \in Nat /\ i + 1 \in DOMAIN queue /\ queue'[i] = queue[i + 1]
        BY <1>0, <1>2
      <4>2. queue[i + 1] = sent + (i + 1)
        BY <2>2, <4>1 DEF QueueInv
      <4> QED
        BY <1>0, <3>1, <4>1, <4>2
    <3>4. closer \in {"none", "read"} => Pending' = Pending - 1 /\ Pending \in Int
      BY <1>0, <1>1, <1>3, <3>1 DEF Pending
    <3>5. closer \in {"none", "read"} =>
            /\ 0 <= Pending' /\ Pending' <= Len(queue')
            /\ rl' \in {"reading", "putting", "putNone"} => Pending' = Len(queue')
            /\ \A i \in DOMAIN queue' : queue'[i] = None <=> i > Pending'
      BY <1>0, <1>1, <1>2, <2>1, <2>2, <3>4 DEF QueueInv
    <3> QED
      BY <1>1, <1>3, <1>4, <1>5, <1>6, <3>1, <3>2, <3>3, <3>5 DEF QueueInv
  <2>3. CASE ~CanSend
    <3>1. sent' = sent
      BY <1>8, <2>3 DEF TakeData, CanSend
    <3> QED
      BY <1>1, <1>3, <1>4, <1>5, <1>6, <2>3, <3>1 DEF QueueInv
  <2> QED
    BY <2>2, <2>3
<1> QED
  BY <1>7, <1>8

LEMMA QueueStep ==
  ASSUME EndInv, QueueInv, [Next]_vars
  PROVE  QueueInv'
<1> USE DEF wsVars, upVars, downVars, taskVars, endVars
<1>1. CASE RecvConnect
  <2>1. rl = "none" /\ rl' = "none" /\ queue = <<>> /\ closer' = "none" /\ Len(queue) = 0
    BY <1>1 DEF RecvConnect, EndInv, ControlInv, PhaseInv, FlagsInv, QuietInv
  <2> QED
    BY <1>1, <2>1 DEF RecvConnect, QueueInv, Pending
<1>2. CASE ConnectNext
  BY <1>1, <1>2, QueueIdle DEF ConnectNext, RecvConnectRefused, ConnectRaises, DialFail,
     ConnectReturns, DialOk, FlushNext, FlushFail, EndInv, ControlInv, PhaseInv, CanSend
<1>3. CASE ClientNext
  <2>1. ASSUME Close("other", queue), UNCHANGED <<ws, got, sent, timedOut>>, registered' => registered
        PROVE  QueueInv'
    <3>1. UNCHANGED <<queue, rl, sl>> /\ (closer' = closer \/ closer' = "other")
      BY <2>1, CloseKeepsQueue DEF Close, CloseReturnsAtOnce, CloseBegins
    <3> QED
      BY <2>1, <3>1, QueueIdle DEF CanSend
  <2>2. CASE DrainFail \/ RecvClose \/ SweepClose
    BY <2>1, <2>2 DEF DrainFail, RecvClose, SweepClose
  <2>3. CASE RecvData \/ DrainOk \/ WsLost \/ OnClose
    BY <2>3, QueueIdle DEF RecvData, DrainOk, WsLost, OnClose, CanSend
  <2> QED
    BY <1>3, <2>2, <2>3 DEF ClientNext
<1>4. CASE ReadNext
  <2>1. CASE ReadData \/ PutDone
    BY <2>1, QueuePut
  <2>2. CASE PutNoneDone
    BY <2>2, QueueReadEnds DEF PutNoneDone
  <2>3. ASSUME ReadFinally, rl \in {"spawned", "reading"}, HasRoom(queue) \/ rl = "reading",
               UNCHANGED <<ws, registered, got, sent, timedOut>>
        PROVE  QueueInv'
    <3>1. CASE HasRoom(queue)
      BY <2>3, <3>1, QueueReadEnds DEF ReadFinally
    <3>2. CASE ~HasRoom(queue)
      BY <2>3, <3>2, QueueIdle DEF ReadFinally, CanSend
    <3> QED
      BY <3>1, <3>2
  <2>4. CASE ReadEnd
    BY <2>3, <2>4 DEF ReadEnd
  <2>5. CASE ReadStart
    <3>1. HasRoom(queue)
      BY <2>5, QueueSizeAssumption DEF ReadStart, HasRoom, EndInv, QuietInv
    <3>2. CASE running
      BY <2>5, <3>2, QueueIdle DEF ReadStart, CanSend
    <3> QED
      BY <2>3, <2>5, <3>1, <3>2 DEF ReadStart
  <2>6. CASE ReadCancelled
    <3>1. /\ closer \notin {"none", "read"} /\ UNCHANGED <<closer, ws, registered, got, sent>>
          /\ rl \notin {"none"} /\ rl' \in {"done", "putNone"}
      BY <2>6 DEF ReadCancelled, EndInv, ControlInv, ReaderInv, FlagsInv
    <3>2. CASE queue' = queue
      BY <2>6, <3>1, <3>2, QueueIdle DEF ReadCancelled, CanSend
    <3>3. CASE queue' = Append(queue, None)
      <4>1. /\ queue \in Seq(Nat) /\ got \in Nat /\ sent \in Nat /\ None \in Nat /\ None = 0
        BY BoundsAssumption DEF EndInv, TypeOK, DataOK, QueueOK, None
      <4>2. /\ DOMAIN queue' = 1..(Len(queue) + 1) /\ DOMAIN queue = 1..Len(queue)
            /\ \A i \in DOMAIN queue : queue'[i] = queue[i]
            /\ queue'[Len(queue) + 1] = None
        BY <3>3, <4>1, AppendElements
      <4>3. \A i \in DOMAIN queue' : queue'[i] <= got
        BY <4>1, <4>2 DEF QueueInv
      <4>4. \A i, j \in DOMAIN queue' : i < j /\ queue'[i] = None => queue'[j] = None
        BY <4>1, <4>2 DEF QueueInv
      <4>5. CanSend => \A i \in DOMAIN queue' : queue'[i] # None => queue'[i] = sent + i
        BY <4>1, <4>2 DEF QueueInv
      <4> QED
        BY <3>1, <4>3, <4>4, <4>5 DEF QueueInv, CanSend
    <3> QED
      BY <2>6, <3>2, <3>3 DEF ReadCancelled
  <2> QED
    BY <1>4, <2>1, <2>2, <2>4, <2>5, <2>6 DEF ReadNext
<1>5. CASE SendNext
  <2>1. CASE TakeNone \/ TakeData
    BY <2>1, QueueTake
  <2>2. CASE SendDone
    BY <2>2, QueueIdle DEF SendDone, CanSend
  <2>3. CASE SendFail
    <3>1. UNCHANGED <<queue, rl>>
      BY <2>3, CloseKeepsQueue DEF SendFail, Close, CloseReturnsAtOnce, CloseBegins
    <3> QED
      BY <2>3, <3>1, QueueIdle DEF SendFail, CanSend
  <2>4. CASE SendCancelled
    BY <2>4, QueueIdle DEF SendCancelled, SendCancelPending, CanSend, EndInv, ControlInv, FlagsInv
  <2> QED
    BY <1>5, <2>1, <2>2, <2>3, <2>4 DEF SendNext
<1>6. CASE CloseNext
  <2>1. CASE CloseReadDone
    BY <2>1, QueueIdle DEF CloseReadDone, CloseFromSend, CanSend, EndInv, ControlInv, ReaderInv
  <2>2. CASE CloseDrainTimeout
    BY <2>2, QueueIdle DEF CloseDrainTimeout, CanSend
  <2>3. CASE CloseSendDone
    BY <2>3, QueueIdle DEF CloseSendDone, CanSend
  <2>4. CASE CloseNotify \/ CloseNotified
    BY <2>4, QueueIdle DEF CloseNotify, CloseNotified, CloseEnds, CanSend, EndInv, ControlInv,
       ReaderInv, FlagsInv
  <2> QED
    BY <1>6, <2>1, <2>2, <2>3, <2>4 DEF CloseNext
<1>7. CASE TargetNext
  BY <1>7, QueueIdle DEF TargetNext, TargetStalls, TargetResumes, CanSend
<1>8. CASE UNCHANGED vars
  BY <1>8, QueueIdle DEF vars, CanSend
<1> QED
  BY <1>2, <1>3, <1>4, <1>5, <1>6, <1>7, <1>8 DEF Next

\* The control flow and the queue together.
LEMMA QueueInvariant == Spec => [](EndInv /\ QueueInv)
<1>1. Init => QueueInv
  BY DEF Init, QueueInv, Pending, CanSend
<1>2. EndInv /\ QueueInv /\ [Next]_vars => QueueInv'
  BY QueueStep
<1> QED
  BY <1>1, <1>2, EndInvariant, PTL DEF Spec

\* An end of stream at the target reaches the client after all the data, unless
\* the client or the drain timeout cut it short.
THEOREM DrainBeforeClose == Spec => []DrainedBeforeClose
<1>1. EndInv /\ QueueInv => DrainedBeforeClose
  <2> SUFFICES ASSUME EndInv, QueueInv, closer = "read", cl \in {"waitClosed", "notify"},
                      registered, ws = "open", ~timedOut
               PROVE  sent = got
    BY DEF DrainedBeforeClose
  <2>1. rl = "closing" /\ sl # "none" /\ sl # "closing"
    BY DEF EndInv, ControlInv, ReaderInv, SenderInv, PhaseInv
  <2>2. sl = "done"
    BY <2>1 DEF EndInv, QuietInv
  <2> QED
    BY <2>2 DEF QueueInv, CanSend
<1> QED
  BY <1>1, QueueInvariant, PTL

-----------------------------------------------------------------------------
\* The frames.

FrameGroup == FramesInv /\ DownstreamInOrder /\ CloseIsLast /\ AnswerBeforeData

LEMMA AppendFrame ==
  ASSUME frames \in Seq(FrameSet), NEW f \in FrameSet, frames' = Append(frames, f)
  PROVE  /\ Len(frames) \in Nat
         /\ DOMAIN frames = 1..Len(frames)
         /\ DOMAIN frames' = 1..(Len(frames) + 1)
         /\ \A i \in DOMAIN frames : i \in DOMAIN frames' /\ frames'[i] = frames[i]
         /\ frames'[Len(frames) + 1] = f
         /\ \A i \in DOMAIN frames' : i \in DOMAIN frames \/ i = Len(frames) + 1
  OBVIOUS

\* Steps that write nothing.
LEMMA FramesIdle ==
  ASSUME FrameGroup, UNCHANGED <<frames, sent>>,
         UNCHANGED hc \/ (hc = "dial" /\ hc' = "flush") \/ hc' = "done" \/ (hc = "idle" /\ hc' = "dial"),
         sl' # "none" /\ ws' = "open" => sl # "none" /\ ws = "open",
         cl \in {"notify", "done"} => cl' \in {"notify", "done"}
  PROVE  FrameGroup'
<1>1. FramesInv'
  BY DEF FrameGroup, FramesInv
<1>2. DownstreamInOrder' /\ CloseIsLast' /\ AnswerBeforeData'
  BY DEF FrameGroup, DownstreamInOrder, CloseIsLast, AnswerBeforeData
<1> QED
  BY <1>1, <1>2 DEF FrameGroup

\* The answer to the CONNECT, whatever is written before it.
LEMMA FramesAnswer ==
  ASSUME FrameGroup, frames \in Seq(FrameSet), sent \in Nat,
         NEW type \in {"ok", "fail"}, Emit(Frame(type, 0)),
         UNCHANGED <<ws, sent, cl>>, hc' = "done",
         sl' # sl => type = "ok", ws # "open" \/ sl = "none"
  PROVE  FrameGroup'
<1>1. CASE ws # "open"
  BY <1>1, FramesIdle DEF Emit
<1>2. CASE ws = "open"
  <2> DEFINE f == Frame(type, 0)
  <2>1. f \in FrameSet /\ frames' = Append(frames, f) /\ f.type = type
    BY <1>2, FrameType DEF Emit, Frame
  <2> HIDE DEF f
  <2>2. /\ Len(frames) \in Nat
        /\ DOMAIN frames = 1..Len(frames)
        /\ DOMAIN frames' = 1..(Len(frames) + 1)
        /\ \A i \in DOMAIN frames : i \in DOMAIN frames' /\ frames'[i] = frames[i]
        /\ frames'[Len(frames) + 1] = f
        /\ \A i \in DOMAIN frames' : i \in DOMAIN frames \/ i = Len(frames) + 1
    BY <2>1, AppendFrame
  <2>3. FramesInv'
    <3>1. \A k \in 1..sent : \E i \in DOMAIN frames' : frames'[i] = Frame("data", k)
      BY <2>2 DEF FrameGroup, FramesInv
    <3>2. \A i \in DOMAIN frames' : /\ frames'[i].type = "close" => cl' \in {"notify", "done"}
                                    /\ frames'[i].type = "data" => frames'[i].n <= sent
      BY <2>1, <2>2 DEF FrameGroup, FramesInv
    <3>3. sl' # "none" => \E i \in DOMAIN frames' : frames'[i].type = "ok"
      BY <1>2, <2>1, <2>2
    <3> QED
      BY <3>1, <3>2, <3>3 DEF FramesInv
  <2>4. DownstreamInOrder'
    <3> SUFFICES ASSUME NEW i \in DOMAIN frames', frames'[i].type = "data"
                 PROVE  /\ frames'[i].n >= 1
                        /\ frames'[i].n > 1 =>
                             \E j \in 1..(i - 1) : frames'[j] = Frame("data", frames'[i].n - 1)
                        /\ \A j \in 1..(i - 1) : frames'[j].type = "data" => frames'[j].n < frames'[i].n
      BY DEF DownstreamInOrder
    <3>1. i \in DOMAIN frames /\ frames'[i] = frames[i]
      BY <2>1, <2>2
    <3>2. \A j \in 1..(i - 1) : frames'[j] = frames[j]
      BY <2>2, <3>1
    <3> QED
      BY <3>1, <3>2 DEF FrameGroup, DownstreamInOrder
  <2>5. CloseIsLast'
    BY <2>1, <2>2 DEF FrameGroup, CloseIsLast
  <2>6. AnswerBeforeData'
    BY <2>1, <2>2 DEF FrameGroup, AnswerBeforeData
  <2> QED
    BY <2>3, <2>4, <2>5, <2>6 DEF FrameGroup
<1> QED
  BY <1>1, <1>2

\* The next packet goes out.
LEMMA FramesData ==
  ASSUME FrameGroup, frames \in Seq(FrameSet), sent \in Nat, ws = "open",
         Emit(Frame("data", sent + 1)), sent' = sent + 1,
         UNCHANGED <<ws, hc, cl>>, hc = "done", sl # "none", cl \notin {"notify", "done"}
  PROVE  FrameGroup'
<1> DEFINE f == Frame("data", sent + 1)
<1>1. f \in FrameSet /\ frames' = Append(frames, f) /\ f.type = "data" /\ f.n = sent + 1
  BY FrameType DEF Emit, Frame
<1> HIDE DEF f
<1>2. /\ Len(frames) \in Nat
      /\ DOMAIN frames = 1..Len(frames)
      /\ DOMAIN frames' = 1..(Len(frames) + 1)
      /\ \A i \in DOMAIN frames : i \in DOMAIN frames' /\ frames'[i] = frames[i]
      /\ frames'[Len(frames) + 1] = f
      /\ \A i \in DOMAIN frames' : i \in DOMAIN frames \/ i = Len(frames) + 1
  BY <1>1, AppendFrame
<1>3. \A i \in DOMAIN frames : /\ frames[i].type # "close"
                               /\ frames[i].n \in Nat
                               /\ frames[i].type = "data" => frames[i].n <= sent
  <2>1. \A i \in DOMAIN frames : frames[i] \in FrameSet
    OBVIOUS
  <2>2. \A i \in DOMAIN frames : frames[i].n \in Nat
    BY <2>1 DEF FrameSet
  <2> QED
    BY <2>2 DEF FrameGroup, FramesInv
<1>4. \E i \in DOMAIN frames : frames[i].type = "ok"
  BY DEF FrameGroup, FramesInv
<1>5. FramesInv'
  <2>1. \A k \in 1..sent' : \E i \in DOMAIN frames' : frames'[i] = Frame("data", k)
    <3> SUFFICES ASSUME NEW k \in 1..sent'
                 PROVE  \E i \in DOMAIN frames' : frames'[i] = Frame("data", k)
      OBVIOUS
    <3>1. CASE k = sent + 1
      BY <1>2, <3>1 DEF f
    <3>2. CASE k # sent + 1
      <4>1. k \in 1..sent
        BY <3>2
      <4> QED
        BY <1>2, <4>1 DEF FrameGroup, FramesInv
    <3> QED
      BY <3>1, <3>2
  <2>2. \A i \in DOMAIN frames' : /\ frames'[i].type # "close"
                                  /\ frames'[i].type = "data" => frames'[i].n <= sent'
    BY <1>1, <1>2, <1>3
  <2>3. \E i \in DOMAIN frames' : frames'[i].type = "ok"
    BY <1>2, <1>4
  <2> QED
    BY <2>1, <2>2, <2>3 DEF FramesInv
<1>6. DownstreamInOrder'
  <2> SUFFICES ASSUME NEW i \in DOMAIN frames', frames'[i].type = "data"
               PROVE  /\ frames'[i].n >= 1
                      /\ frames'[i].n > 1 =>
                           \E j \in 1..(i - 1) : frames'[j] = Frame("data", frames'[i].n - 1)
                      /\ \A j \in 1..(i - 1) : frames'[j].type = "data" => frames'[j].n < frames'[i].n
    BY DEF DownstreamInOrder
  <2>1. \A j \in 1..(i - 1) : j \in DOMAIN frames /\ frames'[j] = frames[j]
    BY <1>2
  <2>2. CASE i \in DOMAIN frames
    BY <1>2, <2>1, <2>2 DEF FrameGroup, DownstreamInOrder
  <2>3. CASE i = Len(frames) + 1
    <3>1. frames'[i].n = sent + 1 /\ i - 1 = Len(frames)
      BY <1>1, <1>2, <2>3
    <3>2. sent > 0 => \E j \in DOMAIN frames : frames[j] = Frame("data", sent)
      BY DEF FrameGroup, FramesInv
    <3>3. sent > 0 => \E j \in 1..(i - 1) : frames'[j] = Frame("data", sent)
      BY <1>2, <2>1, <3>1, <3>2
    <3>4. \A j \in 1..(i - 1) : frames'[j].type = "data" => frames'[j].n < sent + 1
      BY <1>3, <2>1
    <3> QED
      BY <3>1, <3>3, <3>4
  <2> QED
    BY <1>2, <2>2, <2>3
<1>7. CloseIsLast'
  BY <1>1, <1>2, <1>3 DEF CloseIsLast
<1>8. AnswerBeforeData'
  <2> SUFFICES ASSUME NEW j \in DOMAIN frames', frames'[j].type = "data"
               PROVE  \E i \in 1..(j - 1) : frames'[i].type = "ok"
    BY DEF AnswerBeforeData
  <2>1. CASE j \in DOMAIN frames
    <3>1. \E i \in 1..(j - 1) : frames[i].type = "ok"
      BY <1>2, <2>1 DEF FrameGroup, AnswerBeforeData
    <3> QED
      BY <1>2, <2>1, <3>1
  <2>2. CASE j = Len(frames) + 1
    BY <1>2, <1>4, <2>2
  <2> QED
    BY <1>2, <2>1, <2>2
<1> QED
  BY <1>5, <1>6, <1>7, <1>8 DEF FrameGroup

\* The CLOSE frame.
LEMMA FramesClose ==
  ASSUME FrameGroup, frames \in Seq(FrameSet), sent \in Nat, ws = "open", Emit(Frame("close", 0)),
         UNCHANGED <<ws, hc, sl, sent>>, hc \notin {"idle", "dial"},
         cl = "waitClosed", cl' = "notify"
  PROVE  FrameGroup'
<1> DEFINE f == Frame("close", 0)
<1>1. f \in FrameSet /\ frames' = Append(frames, f) /\ f.type = "close"
  BY FrameType DEF Emit, Frame
<1> HIDE DEF f
<1>2. /\ Len(frames) \in Nat
      /\ DOMAIN frames = 1..Len(frames)
      /\ DOMAIN frames' = 1..(Len(frames) + 1)
      /\ \A i \in DOMAIN frames : i \in DOMAIN frames' /\ frames'[i] = frames[i]
      /\ frames'[Len(frames) + 1] = f
      /\ \A i \in DOMAIN frames' : i \in DOMAIN frames \/ i = Len(frames) + 1
  BY <1>1, AppendFrame
<1>3. \A i \in DOMAIN frames : frames[i].type # "close"
  BY DEF FrameGroup, FramesInv
<1>4. FramesInv'
  <2>1. \A k \in 1..sent : \E i \in DOMAIN frames' : frames'[i] = Frame("data", k)
    BY <1>2 DEF FrameGroup, FramesInv
  <2>2. \A i \in DOMAIN frames' : frames'[i].type = "data" => frames'[i].n <= sent
    BY <1>1, <1>2 DEF FrameGroup, FramesInv
  <2>3. sl # "none" => \E i \in DOMAIN frames' : frames'[i].type = "ok"
    BY <1>2 DEF FrameGroup, FramesInv
  <2>4. hc = "flush" => \A i \in DOMAIN frames' : frames'[i].type = "close"
    BY <1>1, <1>2 DEF FrameGroup, FramesInv
  <2> QED
    BY <2>1, <2>2, <2>3, <2>4 DEF FramesInv
<1>5. DownstreamInOrder'
  <2> SUFFICES ASSUME NEW i \in DOMAIN frames', frames'[i].type = "data"
               PROVE  /\ frames'[i].n >= 1
                      /\ frames'[i].n > 1 =>
                           \E j \in 1..(i - 1) : frames'[j] = Frame("data", frames'[i].n - 1)
                      /\ \A j \in 1..(i - 1) : frames'[j].type = "data" => frames'[j].n < frames'[i].n
    BY DEF DownstreamInOrder
  <2>1. i \in DOMAIN frames /\ frames'[i] = frames[i]
    BY <1>1, <1>2
  <2>2. \A j \in 1..(i - 1) : frames'[j] = frames[j]
    BY <1>2, <2>1
  <2> QED
    BY <2>1, <2>2 DEF FrameGroup, DownstreamInOrder
<1>6. CloseIsLast'
  BY <1>1, <1>2, <1>3 DEF CloseIsLast
<1>7. AnswerBeforeData'
  BY <1>1, <1>2 DEF FrameGroup, AnswerBeforeData
<1> QED
  BY <1>4, <1>5, <1>6, <1>7 DEF FrameGroup

LEMMA FramesStep ==
  ASSUME EndInv, QueueInv, FrameGroup, [Next]_vars
  PROVE  FrameGroup'
<1> USE DEF wsVars, upVars, downVars, taskVars, endVars
<1>0. frames \in Seq(FrameSet) /\ sent \in Nat
  BY DEF EndInv, TypeOK, DataOK
<1>1. CASE RecvConnectRefused \/ DialFail \/ FlushFail
  <2>1. sl = "none" /\ UNCHANGED <<ws, sent, sl, cl>> /\ hc' = "done" /\ Emit(Frame("fail", 0))
    BY <1>1 DEF RecvConnectRefused, DialFail, FlushFail, ConnectRaises, EndInv, ControlInv, PhaseInv
  <2> QED
    BY <1>0, <2>1, FramesAnswer
<1>2. CASE DialOk \/ FlushNext
  <2>1. sl = "none" /\ UNCHANGED <<ws, sent, cl>>
    BY <1>2 DEF DialOk, FlushNext, EndInv, ControlInv, PhaseInv
  <2>2. CASE ConnectReturns
    <3>1. hc' = "done" /\ Emit(Frame("ok", 0))
      BY <2>2 DEF ConnectReturns
    <3> QED
      BY <1>0, <2>1, <3>1, FramesAnswer
  <2>3. CASE ~ConnectReturns
    <3>1. UNCHANGED <<frames, sl>> /\ hc' = "flush" /\ hc \in {"dial", "flush"}
      BY <1>2, <2>3 DEF DialOk, FlushNext
    <3> QED
      BY <2>1, <3>1, FramesIdle
  <2> QED
    BY <2>2, <2>3
<1>3. CASE RecvConnect
  BY <1>3, FramesIdle DEF RecvConnect
<1>4. CASE ClientNext
  <2>1. UNCHANGED <<frames, sent, hc>> /\ (ws' = "open" => ws = "open")
    BY <1>4 DEF ClientNext, RecvData, DrainOk, DrainFail, RecvClose, WsLost, OnClose, SweepClose
  <2>2. sl' = sl
    BY <1>4 DEF ClientNext, RecvData, DrainOk, DrainFail, RecvClose, WsLost, OnClose, SweepClose,
       Close, CloseReturnsAtOnce, CloseBegins
  <2>3. cl \in {"notify", "done"} => cl' \in {"notify", "done"}
    BY <1>4 DEF ClientNext, RecvData, DrainOk, DrainFail, RecvClose, WsLost, OnClose, SweepClose,
       Close, CloseReturnsAtOnce, CloseBegins, EndInv, ControlInv, FlagsInv
  <2> QED
    BY <2>1, <2>2, <2>3, FramesIdle
<1>5. CASE ReadNext
  <2>1. UNCHANGED <<frames, sent, hc, ws, sl>>
    BY <1>5 DEF ReadNext, ReadStart, ReadFinally, ReadData, PutDone, ReadEnd, PutNoneDone,
       ReadCancelled, Close, CloseReturnsAtOnce, CloseBegins
  <2>2. cl \in {"notify", "done"} => cl' \in {"notify", "done"}
    BY <1>5 DEF ReadNext, ReadStart, ReadFinally, ReadData, PutDone, ReadEnd, PutNoneDone,
       ReadCancelled, Close, CloseReturnsAtOnce, CloseBegins, EndInv, ControlInv, FlagsInv
  <2> QED
    BY <2>1, <2>2, FramesIdle
<1>6. CASE TakeData /\ CanSend
  <2>1. sl = "getting" /\ 1 \in DOMAIN queue /\ queue[1] # None /\ Head(queue) = queue[1]
    BY <1>6, TailElements DEF TakeData, SendReady, EndInv, TypeOK, QueueOK
  <2>2. cl \notin {"waitClosed", "notify", "done"} /\ hc = "done"
    BY <2>1 DEF EndInv, QuietInv, ControlInv, PhaseInv
  <2>3. Head(queue) = sent + 1
    BY <1>6, <2>1 DEF QueueInv
  <2> QED
    BY <1>0, <1>6, <2>1, <2>2, <2>3, FramesData DEF TakeData, CanSend
<1>7. CASE SendNext /\ ~(TakeData /\ CanSend)
  <2>1. UNCHANGED <<frames, sent, hc, ws>> /\ sl # "none"
    BY <1>7 DEF SendNext, TakeNone, TakeData, SendDone, SendFail, SendCancelled, SendReady, Live, CanSend
  <2>2. cl \in {"notify", "done"} => cl' \in {"notify", "done"}
    BY <1>7 DEF SendNext, TakeNone, TakeData, SendDone, SendFail, SendCancelled,
       Close, CloseReturnsAtOnce, CloseBegins, EndInv, ControlInv, FlagsInv
  <2> QED
    BY <2>1, <2>2, FramesIdle
<1>8. CASE CloseNext
  <2>1. CASE CloseNotify /\ ws = "open"
    <3>1. hc \notin {"idle", "dial"}
      BY <2>1 DEF CloseNotify, EndInv, ControlInv, PhaseInv, FlagsInv
    <3> QED
      BY <1>0, <2>1, <3>1, FramesClose DEF CloseNotify
  <2>2. CASE ~(CloseNotify /\ ws = "open")
    <3>1. UNCHANGED <<frames, sent, hc, ws>>
      BY <1>8, <2>2 DEF CloseNext, CloseReadDone, CloseDrainTimeout, CloseSendDone, CloseNotify,
         CloseNotified
    <3>2. sl' # "none" => sl # "none"
      BY <1>8, <2>2 DEF CloseNext, CloseReadDone, CloseDrainTimeout, CloseSendDone, CloseNotify,
         CloseNotified, CloseEnds, EndInv, ControlInv, SenderInv
    <3>3. cl \in {"notify", "done"} => cl' \in {"notify", "done"}
      BY <1>8 DEF CloseNext, CloseReadDone, CloseDrainTimeout, CloseSendDone, CloseNotify,
         CloseNotified, CloseEnds
    <3> QED
      BY <3>1, <3>2, <3>3, FramesIdle
  <2> QED
    BY <2>1, <2>2
<1>9. CASE TargetNext
  BY <1>9, FramesIdle DEF TargetNext, TargetStalls, TargetResumes
<1>10. CASE UNCHANGED vars
  BY <1>10, FramesIdle DEF vars
<1> QED
  BY <1>1, <1>2, <1>3, <1>4, <1>5, <1>6, <1>7, <1>8, <1>9, <1>10 DEF Next, ConnectNext, SendNext

\* Everything but the upstream data.
DownInv == EndInv /\ QueueInv /\ FrameGroup

LEMMA DownInvariant == Spec => []DownInv
<1>1. Init => FrameGroup
  BY DEF Init, FrameGroup, FramesInv, DownstreamInOrder, CloseIsLast, AnswerBeforeData
<1>2. EndInv /\ QueueInv /\ FrameGroup /\ [Next]_vars => FrameGroup'
  BY FramesStep
<1> QED
  BY <1>1, <1>2, QueueInvariant, PTL DEF Spec, DownInv

\* The client gets the packets of the target in order, each once.
THEOREM InOrder == Spec => []DownstreamInOrder
  BY DownInvariant, PTL DEF DownInv, FrameGroup

\* Nothing but the answer to the CONNECT follows a CLOSE frame.
THEOREM CloseLast == Spec => []CloseIsLast
  BY DownInvariant, PTL DEF DownInv, FrameGroup

\* The answer to the CONNECT precedes the data.
THEOREM AnswerFirst == Spec => []AnswerBeforeData
  BY DownInvariant, PTL DEF DownInv, FrameGroup

-----------------------------------------------------------------------------
\* The data the client sends.

\* The fresh DATA message n, or the head of the early buffer, finds its place.
Covered(n, w, e) == (\E i \in DOMAIN w : w[i] = n) \/ (\E i \in DOMAIN e : e[i] = n)

LEMMA CoveredAppend ==
  ASSUME NEW w \in Seq(Nat), NEW e \in Seq(Nat), NEW x \in Nat
  PROVE  /\ Len(Append(w, x)) = Len(w) + 1
         /\ \A n : Covered(n, w, e) \/ n = x => Covered(n, Append(w, x), e) /\ Covered(n, w, Append(e, x))
<1>1. /\ Len(Append(w, x)) = Len(w) + 1 /\ Len(w) + 1 \in DOMAIN Append(w, x)
      /\ Append(w, x)[Len(w) + 1] = x
      /\ \A i \in DOMAIN w : i \in DOMAIN Append(w, x) /\ Append(w, x)[i] = w[i]
  BY AppendElements
<1>2. /\ Len(e) + 1 \in DOMAIN Append(e, x) /\ Append(e, x)[Len(e) + 1] = x
      /\ \A i \in DOMAIN e : i \in DOMAIN Append(e, x) /\ Append(e, x)[i] = e[i]
  BY AppendElements
<1> QED
  BY <1>1, <1>2 DEF Covered

LEMMA CoveredMove ==
  ASSUME NEW w \in Seq(Nat), NEW e \in Seq(Nat), e # <<>>
  PROVE  /\ Len(Append(w, Head(e))) + Len(Tail(e)) = Len(w) + Len(e)
         /\ \A n : Covered(n, w, e) => Covered(n, Append(w, Head(e)), Tail(e))
<1>1. Head(e) \in Nat /\ Tail(e) \in Seq(Nat) /\ Len(Tail(e)) = Len(e) - 1
  BY HeadTailType
<1>2. \A n : Covered(n, w, e) => Covered(n, w, Tail(e)) \/ n = Head(e)
  <2> SUFFICES ASSUME NEW n, NEW i \in DOMAIN e, e[i] = n
               PROVE  Covered(n, w, Tail(e)) \/ n = Head(e)
    BY DEF Covered
  <2>1. CASE i = 1
    BY <2>1
  <2>2. CASE i # 1
    <3>1. i - 1 \in DOMAIN Tail(e) /\ Tail(e)[i - 1] = e[i]
      BY <2>2
    <3> QED
      BY <3>1 DEF Covered
  <2> QED
    BY <2>1, <2>2
<1>3. \A n : Covered(n, w, Tail(e)) \/ n = Head(e) => Covered(n, Append(w, Head(e)), Tail(e))
  BY <1>1, CoveredAppend
<1>4. Len(Append(w, Head(e))) = Len(w) + 1
  BY <1>1, CoveredAppend
<1> QED
  BY <1>1, <1>2, <1>3, <1>4

LEMMA UpstreamStep ==
  ASSUME EndInv, UpstreamInv, [Next]_vars
  PROVE  UpstreamInv'
<1> USE DEF wsVars, upVars, downVars, taskVars, endVars
<1>0. early \in Seq(Nat) /\ written \in Seq(Nat) /\ upSent \in Nat
  BY BoundsAssumption DEF EndInv, TypeOK, DataOK
<1>1. ASSUME UNCHANGED <<early, written, upSent, connected>>, registered' => registered,
             running' => running,
             hc' = hc \/ (hc' = "done" /\ ~registered')
      PROVE  UpstreamInv'
  BY <1>1 DEF UpstreamInv
<1>2. registered /\ (running \/ hc = "dial") =>
         Len(written) + Len(early) = upSent /\ \A n \in 1..upSent : Covered(n, written, early)
  BY DEF UpstreamInv, Covered
<1>3. ASSUME hc' \in {"dial", "flush"}, hc' = "dial" => written' = <<>>,
              registered' /\ (running' \/ hc' = "dial") =>
                /\ Len(written') + Len(early') = upSent'
                /\ \A n \in 1..upSent' : Covered(n, written', early')
       PROVE  UpstreamInv'
  BY <1>3 DEF UpstreamInv, Covered
<1>4. CASE RecvConnectRefused \/ DialFail \/ FlushFail
  BY <1>1, <1>4 DEF RecvConnectRefused, DialFail, FlushFail, ConnectRaises, UpstreamInv, EndInv,
     ControlInv, PhaseInv
<1>5. CASE RecvConnect
  BY <1>5 DEF RecvConnect, UpstreamInv
<1>6. CASE DialOk
  <2>1. /\ hc = "dial" /\ written = <<>> /\ hc' \in {"done", "flush"} /\ connected' /\ running'
        /\ UNCHANGED <<registered, upSent>>
    BY <1>6 DEF DialOk, ConnectReturns, UpstreamInv
  <2>2. CASE early = <<>>
    BY <1>6, <2>1, <2>2 DEF DialOk, UpstreamInv
  <2>3. CASE early # <<>>
    <3>1. written' = Append(written, Head(early)) /\ early' = Tail(early) /\ hc' = "flush"
      BY <1>6, <2>3 DEF DialOk
    <3> QED
      BY <1>0, <1>2, <1>3, <2>1, <2>3, <3>1, CoveredMove
  <2> QED
    BY <2>2, <2>3
<1>7. CASE FlushNext
  <2>1. /\ hc = "flush" /\ hc' \in {"done", "flush"} /\ connected
        /\ UNCHANGED <<registered, upSent, running, connected>>
        /\ running => writer = "open"
    BY <1>7 DEF FlushNext, ConnectReturns, EndInv, ControlInv, PhaseInv, FlagsInv
  <2>2. CASE early = <<>>
    BY <1>7, <2>1, <2>2 DEF FlushNext, UpstreamInv
  <2>3. CASE early # <<>> /\ running
    <3>1. written' = Append(written, Head(early)) /\ early' = Tail(early) /\ hc' = "flush"
      BY <1>7, <2>1, <2>3 DEF FlushNext
    <3> QED
      BY <1>0, <1>2, <1>3, <2>1, <2>3, <3>1, CoveredMove
  <2>4. CASE early # <<>> /\ ~running
    <3>1. hc' = "flush"
      BY <1>7, <2>1, <2>4 DEF FlushNext
    <3> QED
      BY <2>1, <2>4, <3>1 DEF UpstreamInv
  <2> QED
    BY <2>2, <2>3, <2>4
<1>8. CASE RecvData
  <2>1. /\ upSent' = upSent + 1 /\ hc # "idle" /\ UNCHANGED <<hc, registered, connected, running>>
        /\ upSent' \in Nat
    BY <1>0, <1>8 DEF RecvData
  <2>2. CASE registered /\ ~connected
    <3>1. early' = Append(early, upSent') /\ written' = written /\ hc = "dial"
      BY <1>8, <2>1, <2>2 DEF RecvData, UpstreamInv, EndInv, ControlInv, PhaseInv, TypeOK, TasksOK
    <3>2. Len(written') + Len(early') = upSent'
      BY <1>0, <2>1, <2>2, <3>1, CoveredAppend DEF UpstreamInv
    <3>3. \A n \in 1..upSent' : Covered(n, written', early')
      <4>1. \A n \in 1..upSent' : Covered(n, written, early) \/ n = upSent'
        BY <1>0, <1>2, <2>1, <2>2, <3>1
      <4> QED
        BY <1>0, <2>1, <3>1, <4>1, CoveredAppend
    <3> QED
      BY <2>1, <2>2, <3>1, <3>2, <3>3 DEF UpstreamInv, Covered
  <2>3. CASE registered /\ connected /\ running
    <3>1. early' = early /\ written' = Append(written, upSent') /\ hc # "dial"
      BY <1>8, <2>1, <2>3 DEF RecvData, EndInv, ControlInv, PhaseInv
    <3>2. Len(written') + Len(early') = upSent'
      BY <1>0, <2>1, <2>3, <3>1, CoveredAppend DEF UpstreamInv
    <3>3. \A n \in 1..upSent' : Covered(n, written', early')
      <4>1. \A n \in 1..upSent' : Covered(n, written, early) \/ n = upSent'
        BY <1>0, <1>2, <2>1, <2>3, <3>1
      <4> QED
        BY <1>0, <2>1, <3>1, <4>1, CoveredAppend
    <3> QED
      BY <2>1, <2>3, <3>1, <3>2, <3>3 DEF UpstreamInv, Covered
  <2>4. CASE ~registered \/ (connected /\ ~running)
    BY <1>8, <2>1, <2>4 DEF RecvData, UpstreamInv, EndInv, ControlInv, PhaseInv
  <2> QED
    BY <2>2, <2>3, <2>4
<1>9. CASE ClientNext
  BY <1>1, <1>8, <1>9 DEF ClientNext, DrainOk, DrainFail, RecvClose, WsLost, OnClose, SweepClose,
     Close, CloseReturnsAtOnce, CloseBegins
<1>10. CASE ReadNext
  BY <1>1, <1>10 DEF ReadNext, ReadStart, ReadFinally, ReadData, PutDone, ReadEnd, PutNoneDone,
     ReadCancelled, Close, CloseReturnsAtOnce, CloseBegins
<1>11. CASE SendNext
  BY <1>1, <1>11 DEF SendNext, TakeNone, TakeData, SendDone, SendFail, SendCancelled,
     Close, CloseReturnsAtOnce, CloseBegins
<1>12. CASE CloseNext
  BY <1>1, <1>12 DEF CloseNext, CloseReadDone, CloseDrainTimeout, CloseSendDone, CloseNotify,
     CloseNotified, CloseEnds
<1>13. CASE TargetNext
  BY <1>1, <1>13 DEF TargetNext, TargetStalls, TargetResumes
<1>14. CASE UNCHANGED vars
  BY <1>1, <1>14 DEF vars
<1> QED
  BY <1>4, <1>5, <1>6, <1>7, <1>9, <1>10, <1>11, <1>12, <1>13, <1>14 DEF Next, ConnectNext

\* While the connection is healthy nothing the client sent is missing: the early
\* buffer and the direct path together write every DATA message once.
THEOREM UpstreamMissesNothing == Spec => []UpstreamComplete
<1>1. Init => UpstreamInv
  BY DEF Init, UpstreamInv
<1>2. EndInv /\ UpstreamInv /\ [Next]_vars => UpstreamInv'
  BY UpstreamStep
<1>3. EndInv /\ UpstreamInv => UpstreamComplete
  BY DEF EndInv, TypeOK, DataOK, UpstreamInv, UpstreamComplete
<1> QED
  BY <1>1, <1>2, <1>3, EndInvariant, PTL DEF Spec
==============================================================================
