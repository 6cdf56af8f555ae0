------------------------ MODULE TargetConnectionRefines ------------------------
(***************************************************************************)
(* What a step of TargetConnection may do to the client's view: a proof of *)
(* the action property and of the refinement of RelayStream.               *)
(***************************************************************************)
EXTENDS TargetConnectionProofs

-----------------------------------------------------------------------------
\* A frame that is written is the last one.
LEMMA LastFrame ==
  ASSUME frames \in Seq(FrameSet), NEW type \in {"ok", "fail", "data", "close"}, NEW n \in Nat,
         Emit(Frame(type, n)), Len(frames') > Len(frames)
  PROVE  frames'[Len(frames')].type = type
<1>1. Frame(type, n) \in FrameSet /\ Frame(type, n).type = type
  BY FrameType DEF Frame
<1>2. frames' = Append(frames, Frame(type, n))
  BY DEF Emit
<1>3. Len(frames') = Len(frames) + 1 /\ frames'[Len(frames) + 1] = Frame(type, n)
  BY <1>1, <1>2
<1> QED
  BY <1>1, <1>3

\* After the conn_id left the dictionary it never comes back, and no DATA frame
\* is written for it any more, by whatever task and in whatever order.
THEOREM SilentAfterUnregister == Spec => SilentWhenUnregistered
<1>1. TypeOK /\ [Next]_vars =>
        [(hc # "idle" /\ ~registered) =>
           /\ ~registered'
           /\ Len(frames') > Len(frames) => frames'[Len(frames')].type # "data"]_vars
  <2> SUFFICES ASSUME TypeOK, Next, hc # "idle", ~registered
               PROVE  /\ ~registered'
                      /\ Len(frames') > Len(frames) => frames'[Len(frames')].type # "data"
    OBVIOUS
  <2> USE DEF wsVars, upVars, downVars, taskVars, endVars
  <2>1. frames \in Seq(FrameSet)
    BY DEF TypeOK, DataOK
  <2>2. ~registered'
    <3>1. ConnectNext => ~registered'
      BY DEF ConnectNext, RecvConnectRefused, RecvConnect, DialFail, DialOk, FlushNext, FlushFail, ConnectRaises
    <3>2. ClientNext => ~registered'
      BY DEF ClientNext, RecvData, DrainOk, DrainFail, RecvClose, WsLost, OnClose, SweepClose
    <3>3. ReadNext => ~registered'
      BY DEF ReadNext, ReadStart, ReadData, PutDone, ReadEnd, PutNoneDone, ReadCancelled
    <3>4. SendNext => ~registered'
      BY DEF SendNext, TakeNone, TakeData, SendDone, SendFail, SendCancelled
    <3>5. CloseNext \/ TargetNext => ~registered'
      BY DEF CloseNext, CloseReadDone, CloseDrainTimeout, CloseSendDone, CloseNotify, CloseNotified,
         CloseEnds, TargetNext, TargetStalls, TargetResumes
    <3> QED
      BY <3>1, <3>2, <3>3, <3>4, <3>5 DEF Next
  <2>3. frames' = frames \/ \E type \in {"ok", "fail", "close"} : Emit(Frame(type, 0))
    <3>1. ConnectNext => frames' = frames \/ \E type \in {"ok", "fail", "close"} : Emit(Frame(type, 0))
      BY DEF ConnectNext, RecvConnectRefused, RecvConnect, DialFail, DialOk, FlushNext, FlushFail,
         ConnectRaises, ConnectReturns
    <3>2. ClientNext \/ ReadNext \/ TargetNext => frames' = frames
      BY DEF ClientNext, RecvData, DrainOk, DrainFail, RecvClose, WsLost, OnClose, SweepClose,
         ReadNext, ReadStart, ReadData, PutDone, ReadEnd, PutNoneDone, ReadCancelled,
         TargetNext, TargetStalls, TargetResumes
    <3>3. SendNext => frames' = frames
      BY DEF SendNext, TakeNone, TakeData, SendDone, SendFail, SendCancelled
    <3>4. CloseNext => frames' = frames \/ \E type \in {"ok", "fail", "close"} : Emit(Frame(type, 0))
      BY DEF CloseNext, CloseReadDone, CloseDrainTimeout, CloseSendDone, CloseNotify, CloseNotified
    <3> QED
      BY <3>1, <3>2, <3>3, <3>4 DEF Next
  <2>4. Len(frames') > Len(frames) => frames'[Len(frames')].type # "data"
    BY <2>1, <2>3, LastFrame
  <2> QED
    BY <2>2, <2>4
<1> QED
  BY <1>1, TypeCorrect, PTL DEF Spec, SilentWhenUnregistered

-----------------------------------------------------------------------------
\* The refinement.

LEMMA ToldAppend ==
  ASSUME frames \in Seq(FrameSet), NEW type \in {"ok", "fail", "data", "close"}, NEW n \in Nat,
         ws = "open", Emit(Frame(type, n))
  PROVE  \A t : Told(t)' <=> Told(t) \/ t = type
<1>1. Frame(type, n) \in FrameSet /\ Frame(type, n).type = type
  BY FrameType DEF Frame
<1>2. frames' = Append(frames, Frame(type, n))
  BY DEF Emit
<1> QED
  BY <1>1, <1>2, AppendFrame DEF Told

\* The variables of RelayStream move together.
LEMMA StreamStutters ==
  ASSUME UNCHANGED <<frames, got, sent>>
  PROVE  UNCHANGED Stream!vars
  BY DEF Stream!vars, Told

LEMMA Answers ==
  ASSUME frames \in Seq(FrameSet), NEW type \in {"ok", "fail"}, Emit(Frame(type, 0)),
         ~Told("ok"), ~Told("fail"), UNCHANGED <<got, sent>>
  PROVE  [Stream!Next]_Stream!vars
<1>1. CASE ws = "open"
  <2>1. \A t : Told(t)' <=> Told(t) \/ t = type
    BY <1>1, ToldAppend
  <2>2. /\ Told("ok")' <=> type = "ok"
        /\ Told("fail")' <=> type = "fail"
        /\ Told("close")' = Told("close")
    BY <2>1 DEF Told
  <2>3. (IF Told("ok") THEN "ok" ELSE IF Told("fail") THEN "fail" ELSE "none")' = type
    BY <2>2
  <2>4. Stream!Answer
    BY <2>2, <2>3 DEF Stream!Answer
  <2> QED
    BY <2>4 DEF Stream!Next
<1>2. CASE ws # "open"
  BY <1>2, StreamStutters DEF Emit
<1> QED
  BY <1>1, <1>2

LEMMA StreamStep ==
  ASSUME DownInv, [Next]_vars
  PROVE  [Stream!Next]_Stream!vars
<1> USE DEF wsVars, upVars, downVars, taskVars, endVars
<1>0. frames \in Seq(FrameSet) /\ got \in Nat /\ sent \in Nat
  BY BoundsAssumption DEF DownInv, EndInv, TypeOK, DataOK
<1>1. CASE RecvConnectRefused \/ DialFail \/ FlushFail
  <2>1. hc \in {"idle", "dial", "flush"} /\ Emit(Frame("fail", 0)) /\ UNCHANGED <<got, sent>>
    BY <1>1 DEF RecvConnectRefused, DialFail, FlushFail, ConnectRaises
  <2>2. ~Told("ok") /\ ~Told("fail")
    BY <2>1 DEF Told, DownInv, FrameGroup, FramesInv
  <2> QED
    BY <1>0, <2>1, <2>2, Answers
<1>2. CASE DialOk \/ FlushNext
  <2>1. hc \in {"dial", "flush"} /\ UNCHANGED <<got, sent>>
    BY <1>2 DEF DialOk, FlushNext
  <2>2. ~Told("ok") /\ ~Told("fail")
    BY <2>1 DEF Told, DownInv, FrameGroup, FramesInv
  <2>3. UNCHANGED frames \/ Emit(Frame("ok", 0))
    BY <1>2 DEF DialOk, FlushNext, ConnectReturns
  <2> QED
    BY <1>0, <2>1, <2>2, <2>3, Answers, StreamStutters
<1>3. CASE RecvConnect
  BY <1>3, StreamStutters DEF RecvConnect
<1>4. CASE ClientNext
  BY <1>4, StreamStutters DEF ClientNext, RecvData, DrainOk, DrainFail, RecvClose, WsLost, OnClose, SweepClose
<1>5. CASE ReadData
  <2>1. got' = got + 1 /\ UNCHANGED <<frames, sent>>
    BY <1>5 DEF ReadData
  <2> QED
    BY <2>1 DEF Stream!Next, Stream!Produce, Told
<1>6. CASE ReadNext
  BY <1>5, <1>6, StreamStutters DEF ReadNext, ReadStart, PutDone, ReadEnd, PutNoneDone, ReadCancelled
<1>7. CASE TakeData /\ CanSend
  <2>1. sl = "getting" /\ 1 \in DOMAIN queue /\ queue[1] # None /\ Head(queue) = queue[1] /\ queue[1] \in Nat
    BY <1>7, TailElements DEF TakeData, SendReady, DownInv, EndInv, TypeOK, QueueOK
  <2>2. cl \notin {"waitClosed", "notify", "done"}
    BY <2>1 DEF DownInv, EndInv, QuietInv
  <2>3. queue[1] = sent + 1 /\ queue[1] <= got
    BY <1>7, <2>1 DEF DownInv, QueueInv
  <2>4. Told("ok") /\ ~Told("close")
    BY <1>7, <2>1, <2>2 DEF Told, DownInv, FrameGroup, FramesInv, CanSend
  <2>5. Emit(Frame("data", queue[1])) /\ sent' = sent + 1 /\ got' = got /\ ws = "open"
    BY <1>7, <2>1 DEF TakeData, CanSend
  <2>6. \A t : Told(t)' <=> Told(t) \/ t = "data"
    BY <1>0, <2>1, <2>5, ToldAppend
  <2>7. Told("ok")' /\ ~Told("close")' /\ Told("close")' = Told("close")
    BY <2>4, <2>6 DEF Told
  <2>8. Stream!Deliver
    BY <1>0, <2>3, <2>4, <2>5, <2>7 DEF Stream!Deliver
  <2> QED
    BY <2>8 DEF Stream!Next
<1>8. CASE SendNext /\ ~(TakeData /\ CanSend)
  BY <1>8, StreamStutters DEF SendNext, TakeNone, TakeData, SendDone, SendFail, SendCancelled, CanSend
<1>9. CASE CloseNotify /\ ws = "open"
  <2>1. Emit(Frame("close", 0)) /\ UNCHANGED <<got, sent>> /\ cl = "waitClosed"
    BY <1>9 DEF CloseNotify
  <2>2. ~Told("close")
    BY <2>1 DEF Told, DownInv, FrameGroup, FramesInv
  <2>3. \A t : Told(t)' <=> Told(t) \/ t = "close"
    BY <1>0, <1>9, <2>1, ToldAppend
  <2> QED
    BY <2>1, <2>2, <2>3 DEF Stream!Next, Stream!Shut
<1>10. CASE CloseNext /\ ~(CloseNotify /\ ws = "open")
  BY <1>10, StreamStutters DEF CloseNext, CloseReadDone, CloseDrainTimeout, CloseSendDone, CloseNotify,
     CloseNotified
<1>11. CASE TargetNext
  BY <1>11, StreamStutters DEF TargetNext, TargetStalls, TargetResumes
<1>12. CASE UNCHANGED vars
  BY <1>12, StreamStutters DEF vars
<1> QED
  BY <1>1, <1>2, <1>3, <1>4, <1>6, <1>7, <1>8, <1>9, <1>10, <1>11, <1>12
     DEF Next, ConnectNext, SendNext

\* The server side of one tunnelled connection implements RelayStream: at most
\* one answer, the packets in order without loss or duplication, none before a
\* positive answer or after the close, which is announced once.
THEOREM ConnectionImplementsStream == Spec => ImplementsStream
<1>1. Init => Stream!Init
  BY DEF Init, Stream!Init, Told
<1>2. DownInv /\ [Next]_vars => [Stream!Next]_Stream!vars
  BY StreamStep
<1> QED
  BY <1>1, <1>2, DownInvariant, PTL DEF Spec, Stream!Spec, ImplementsStream
==============================================================================
