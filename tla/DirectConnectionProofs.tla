------------------------- MODULE DirectConnectionProofs -------------------------
(***************************************************************************)
(* The connection to the target does not outlive its handler               *)
(* (NoWriterLeft), and of the two streams only the download can be cut     *)
(* off, by the end of the upload (StreamsAreComplete), for all             *)
(* configurations, hosts and bounds.  Neither property is inductive: what  *)
(* the handler leaves behind when it goes to close depends on where it     *)
(* comes from, and what a coroutine has copied at its end on where the     *)
(* other one is and on what is buffered between them.                      *)
(***************************************************************************)
EXTENDS DirectConnection, TLAPS

\* Before a dial has succeeded there is no writer.
NoWriterYet == handler \in {"routing", "proxied", "dialling", "refusing"} => writer = "none"

\* The handler comes to its last steps from a refusal, or after wait_closed().
ClosedAtLast == handler \in {"closing", "closed"} => writer \in {"none", "closed"}

WriterInv == NoWriterYet /\ ClosedAtLast

LEMMA InitWriter == Init => WriterInv
BY DEF Init, WriterInv, NoWriterYet, ClosedAtLast

\* A coroutine, the transport, the peers: none of them moves the handler, and the
\* writer only goes from open towards closed.
WriterStep ==
  \/ writer' = writer
  \/ writer = "open" /\ writer' = "closing"
  \/ writer # "none" /\ writer' = "closed"

LEMMA WriterOnly ==
  ASSUME WriterInv, UNCHANGED handler, WriterStep
  PROVE  WriterInv'
<1>1. CASE writer' = writer
  BY <1>1 DEF WriterInv, NoWriterYet, ClosedAtLast
<1>2. CASE writer = "open" /\ writer' = "closing"
  BY <1>2 DEF WriterInv, NoWriterYet, ClosedAtLast
<1>3. CASE writer # "none" /\ writer' = "closed"
  BY <1>3 DEF WriterInv, NoWriterYet, ClosedAtLast
<1> QED BY <1>1, <1>2, <1>3 DEF WriterStep

LEMMA HandlerStep == ASSUME WriterInv, Handler \/ Dial PROVE WriterInv'
<1> USE DEF WriterInv, NoWriterYet, ClosedAtLast
<1>1. CASE Route
  <2>1. writer' = "none" BY <1>1 DEF Route
  <2> QED BY <2>1
<1>2. CASE DialOk BY <1>2 DEF DialOk
<1>3. CASE DialFails BY <1>3 DEF DialFails
<1>4. CASE Refuse
  <2>1. writer' = "none" BY <1>4 DEF Refuse
  <2> QED BY <2>1
<1>5. CASE Answer BY <1>5 DEF Answer
<1>6. CASE GatherEnds BY <1>6 DEF GatherEnds
<1>7. CASE WriterIsClosed
  <2>1. writer' = "closed" /\ handler' = "closing" BY <1>7 DEF WriterIsClosed
  <2> QED BY <2>1
<1>8. CASE CloseConnection
  <2>1. handler = "closing" /\ UNCHANGED writer /\ handler' = "closed"
    BY <1>8 DEF CloseConnection
  <2> QED BY <2>1
<1> QED BY <1>1, <1>2, <1>3, <1>4, <1>5, <1>6, <1>7, <1>8 DEF Handler, Dial

LEMMA OtherStep ==
  ASSUME \/ UpTask \/ DownTask \/ Transport
         \/ TargetSends \/ Arrives \/ TargetEnds \/ TargetResets \/ ClientLeaves \/ PeerStalls
  PROVE  UNCHANGED handler /\ WriterStep
<1> USE DEF WriterStep
<1>1. CASE UploadChunk BY <1>1 DEF UploadChunk
<1>2. CASE Drained BY <1>2 DEF Drained, UpTaskEnds
<1>3. CASE UploadEnds BY <1>3 DEF UploadEnds, UpTaskEnds
<1>4. CASE DownTask BY <1>4 DEF DownTask, DownloadChunk, Deliver, DownloadEnds
<1>5. CASE Transport BY <1>5 DEF Transport, Flush, TransportCloses
<1>6. CASE TargetSends \/ Arrives \/ TargetEnds \/ ClientLeaves \/ PeerStalls
  BY <1>6 DEF TargetSends, Arrives, TargetEnds, ClientLeaves, PeerStalls
<1>7. CASE TargetResets BY <1>7 DEF TargetResets
<1> QED BY <1>1, <1>2, <1>3, <1>4, <1>5, <1>6, <1>7 DEF UpTask

LEMMA NextWriter == ASSUME WriterInv, [Next]_vars PROVE WriterInv'
<1>1. CASE Handler \/ Dial BY <1>1, HandlerStep
<1>2. CASE \/ UpTask \/ DownTask \/ Transport
           \/ TargetSends \/ Arrives \/ TargetEnds \/ TargetResets \/ ClientLeaves \/ PeerStalls
  BY <1>2, OtherStep, WriterOnly
<1>3. CASE UNCHANGED vars
  <2>1. UNCHANGED handler /\ WriterStep BY <1>3 DEF vars, WriterStep
  <2> QED BY <2>1, WriterOnly
<1> QED BY <1>1, <1>2, <1>3 DEF Next

\* A handler of a direct connection that has ended has closed its writer, also when
\* its reply to the local client failed (socks5_server.py 64, 77-81, 94, 179-182).
THEOREM WriterIsNotLeft == Spec => []NoWriterLeft
<1>1. WriterInv => NoWriterLeft
  BY DEF WriterInv, ClosedAtLast, NoWriterLeft
<1> QED BY <1>1, InitWriter, NextWriter, PTL DEF Spec

-----------------------------------------------------------------------------
\* The coroutines run only between the reply and the end of the forwarding.
\* client_to_target ends only after its client, and has a writer that is open till
\* then, unless the target has reset the connection.
TasksInv ==
  /\ handler \in {"routing", "proxied", "dialling", "refusing", "answering"} =>
       upTask = "off" /\ downTask = "off"
  /\ upTask \in {"off", "recv", "drain", "done"} /\ (upTask = "off" => downTask = "off")
  /\ handler \in {"routing", "proxied", "dialling", "refusing"} => target = "none"
  /\ target # "reset" =>
       /\ handler = "answering" \/ upTask \in {"recv", "drain"} => writer = "open"
       /\ upTask = "done" => client # "open"

\* A chunk is on either side of the buffer or in it, and a closed transport has
\* emptied the buffer, unless there was a reset.
UploadInv ==
  /\ uploaded \in Nat /\ buffered \in Nat /\ arrived \in Nat
  /\ writer \in {"none", "closed"} => buffered = 0
  /\ target # "reset" => arrived + buffered = uploaded

\* target_to_client goes on until the target has ended, or the transport is closed,
\* and all that has arrived is delivered, as long as somebody listens.
DownloadInv ==
  /\ sent \in Nat /\ received \in Nat /\ delivered \in Nat
  /\ downTask = "send" => delivered < received
  /\ target = "ended" => received = sent
  /\ client # "gone" /\ target # "reset" /\ downTask = "done" =>
       delivered = received /\ (target = "ended" \/ writer = "closed")

StreamInv == WriterInv /\ TasksInv /\ UploadInv /\ DownloadInv

LEMMA InitStream == Init => StreamInv
BY InitWriter DEF Init, StreamInv, TasksInv, UploadInv, DownloadInv

LEMMA TasksKept == ASSUME WriterInv, TasksInv, [Next]_vars PROVE TasksInv'
<1> USE DEF TasksInv
<1>1. CASE Route
  <2>1. /\ upTask = "off" /\ upTask' = "off" /\ downTask' = "off"
        /\ writer' = writer /\ target' = target /\ client' = client
        /\ handler' # "answering" /\ handler = "routing"
    BY <1>1 DEF Route
  <2> QED BY <2>1
<1>2. CASE Dial BY <1>2 DEF Dial, DialOk, DialFails
<1>3. CASE Refuse BY <1>3 DEF Refuse
<1>4. CASE Answer BY <1>4 DEF Answer
<1>5. CASE GatherEnds \/ WriterIsClosed \/ CloseConnection
  BY <1>5 DEF GatherEnds, WriterIsClosed, CloseConnection
<1>6. CASE UpTask BY <1>6 DEF UpTask, UploadChunk, Drained, UploadEnds, UpTaskEnds
<1>7. CASE DownTask BY <1>7 DEF DownTask, DownloadChunk, Deliver, DownloadEnds
<1>8. CASE Transport BY <1>8 DEF Transport, Flush, TransportCloses
<1>9. CASE TargetSends \/ Arrives \/ TargetEnds \/ TargetResets
  BY <1>9 DEF TargetSends, Arrives, TargetEnds, TargetResets, WriterInv, NoWriterYet
<1>10. CASE ClientLeaves \/ PeerStalls
  <2>1. /\ UNCHANGED <<handler, target, writer, upTask, downTask>>
        /\ client' = client \/ client' # "open"
    BY <1>10 DEF ClientLeaves, PeerStalls
  <2> QED BY <2>1
<1>11. CASE UNCHANGED vars BY <1>11 DEF vars
<1> QED BY <1>1, <1>2, <1>3, <1>4, <1>5, <1>6, <1>7, <1>8, <1>9, <1>10, <1>11 DEF Next, Handler

LEMMA UploadKept == ASSUME WriterInv, TasksInv, UploadInv, [Next]_vars PROVE UploadInv'
<1> USE DEF UploadInv, uploadVars
<1>1. CASE UNCHANGED <<uploadVars, writer, target>> BY <1>1
<1>2. Route \/ DialFails \/ Refuse \/ Answer \/ GatherEnds \/ WriterIsClosed \/ CloseConnection
        => UNCHANGED <<uploadVars, writer, target>>
  <2> DEFINE Same == UNCHANGED <<uploadVars, writer, target>>
  <2>1. Route => Same BY DEF Route
  <2>2. DialFails \/ Refuse \/ GatherEnds \/ WriterIsClosed \/ CloseConnection => Same
    BY DEF DialFails, Refuse, GatherEnds, WriterIsClosed, CloseConnection
  <2>3. Answer => Same BY DEF Answer
  <2> QED BY <2>1, <2>2, <2>3
<1>3. DownTask \/ TargetSends \/ Arrives \/ ClientLeaves \/ PeerStalls =>
        UNCHANGED <<uploadVars, writer>> /\ target' = target
  BY DEF DownTask, DownloadChunk, Deliver, DownloadEnds, TargetSends, Arrives, ClientLeaves, PeerStalls
<1>4. CASE DialOk
  <2>1. writer = "none" /\ target = "none" /\ target' # "reset"
    BY <1>4 DEF DialOk, WriterInv, NoWriterYet, TasksInv
  <2> QED BY <1>4, <2>1 DEF DialOk, TasksInv
<1>5. CASE UploadChunk
  <2>1. target # "reset" => writer = "open" BY <1>5 DEF UploadChunk, TasksInv
  <2> QED BY <1>5, <2>1 DEF UploadChunk
<1>6. CASE Drained \/ UploadEnds
  <2>1. UNCHANGED <<uploadVars, target>> /\ (writer' = writer \/ writer' = "closing")
    BY <1>6 DEF Drained, UploadEnds, UpTaskEnds
  <2> QED BY <2>1
<1>7. CASE Flush BY <1>7 DEF Flush
<1>8. CASE TransportCloses BY <1>8 DEF TransportCloses
<1>9. CASE TargetEnds BY <1>9 DEF TargetEnds
<1>10. CASE TargetResets BY <1>10 DEF TargetResets
<1>11. UNCHANGED vars => UNCHANGED <<uploadVars, writer, target>> BY DEF vars
<1> QED BY <1>1, <1>2, <1>3, <1>4, <1>5, <1>6, <1>7, <1>8, <1>9, <1>10, <1>11
        DEF Next, Handler, Dial, UpTask, Transport

LEMMA DownloadKept == ASSUME WriterInv, TasksInv, DownloadInv, [Next]_vars PROVE DownloadInv'
<1> USE DEF DownloadInv, downloadVars
<1> DEFINE Same == UNCHANGED <<downloadVars, client, target, writer, downTask>>
<1>1. CASE Same BY <1>1
<1>2. Route \/ DialFails \/ Refuse \/ GatherEnds \/ WriterIsClosed \/ UploadChunk \/ Flush \/ PeerStalls
        => Same
  <2>1. Route => Same BY DEF Route
  <2>2. DialFails \/ Refuse \/ GatherEnds \/ WriterIsClosed => Same
    BY DEF DialFails, Refuse, GatherEnds, WriterIsClosed
  <2>3. UploadChunk \/ Flush \/ PeerStalls => Same BY DEF UploadChunk, Flush, PeerStalls
  <2> QED BY <2>1, <2>2, <2>3
<1>3. CASE DialOk BY <1>3 DEF DialOk, TasksInv
<1>4. CASE Answer BY <1>4 DEF Answer, TasksInv
<1>5. CASE CloseConnection BY <1>5 DEF CloseConnection
<1>6. CASE Drained \/ UploadEnds
  <2>1. /\ UNCHANGED <<downloadVars, client, target, downTask>>
        /\ writer = "closed" => writer' = "closed"
    BY <1>6 DEF Drained, UploadEnds, UpTaskEnds
  <2> QED BY <2>1
<1>7. CASE DownloadChunk BY <1>7 DEF DownloadChunk
<1>8. CASE Deliver BY <1>8 DEF Deliver
<1>9. CASE DownloadEnds BY <1>9 DEF DownloadEnds, ReaderEnded
<1>10. CASE TransportCloses BY <1>10 DEF TransportCloses
<1>11. CASE TargetSends
  <2>1. target = "open" /\ sent' = sent + 1 /\ UNCHANGED <<received, delivered, client, target, writer, downTask>>
    BY <1>11 DEF TargetSends
  <2> QED BY <2>1
<1>12. CASE Arrives
  <2>1. /\ writer = "open" /\ received < sent /\ received' = received + 1
        /\ UNCHANGED <<sent, delivered, client, target, writer, downTask>>
    BY <1>12 DEF Arrives
  <2> QED BY <2>1
<1>13. CASE TargetEnds BY <1>13 DEF TargetEnds
<1>14. CASE TargetResets BY <1>14 DEF TargetResets
<1>15. CASE ClientLeaves
  <2>1. client # "gone" /\ UNCHANGED <<downloadVars, target, writer, downTask>>
    BY <1>15 DEF ClientLeaves
  <2> QED BY <2>1
<1>16. UNCHANGED vars => Same BY DEF vars
<1> QED BY <1>1, <1>2, <1>3, <1>4, <1>5, <1>6, <1>7, <1>8, <1>9, <1>10, <1>11, <1>12, <1>13, <1>14,
           <1>15, <1>16
        DEF Next, Handler, Dial, UpTask, DownTask, Transport

LEMMA StreamKept == ASSUME StreamInv, [Next]_vars PROVE StreamInv'
BY NextWriter, TasksKept, UploadKept, DownloadKept DEF StreamInv

LEMMA StreamsEnd == ASSUME StreamInv PROVE StreamsAreComplete
<1>1. DownloadIsComplete
  <2> SUFFICES ASSUME downTask = "done", client # "gone", target # "reset"
               PROVE  delivered = received /\ (client = "open" => target = "ended" /\ delivered = sent)
    BY DEF DownloadIsComplete
  <2>1. delivered = received /\ (target = "ended" \/ writer = "closed")
    BY DEF StreamInv, DownloadInv
  <2>2. ASSUME client = "open" PROVE target = "ended"
    <3>1. upTask \in {"recv", "drain"} BY <2>2 DEF StreamInv, TasksInv
    <3>2. writer = "open" BY <3>1 DEF StreamInv, TasksInv
    <3> QED BY <2>1, <3>2
  <2>3. target = "ended" => received = sent BY DEF StreamInv, DownloadInv
  <2> QED BY <2>1, <2>2, <2>3
<1>2. UploadIsComplete
  <2> SUFFICES ASSUME handler = "closed", target # "reset" PROVE arrived = uploaded
    BY DEF UploadIsComplete
  <2>1. writer \in {"none", "closed"} BY DEF StreamInv, WriterInv, ClosedAtLast
  <2> QED BY <2>1 DEF StreamInv, UploadInv
<1> QED BY <1>1, <1>2 DEF StreamsAreComplete

\* What was read from the local client is at the target once the connection is
\* closed.  What the target sent is at a client that has not ended its stream, and
\* what had been received when it did at one that has (socks5_server.py 67-97).
THEOREM StreamsComplete == Spec => []StreamsAreComplete
<1> QED BY InitStream, StreamKept, StreamsEnd, PTL DEF Spec
=============================================================================
