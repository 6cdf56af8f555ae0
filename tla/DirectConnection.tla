---------------------------- MODULE DirectConnection ----------------------------
(***************************************************************************)
(* A CONNECT request that the router sends past the proxy: the routing     *)
(* step of SOCKS5Server and HTTPConnectConnection, _handle_direct_connect  *)
(* with its two forwarding coroutines, and the close() of the connection   *)
(* (client/socks5_server.py).  A request that goes to the proxy is the     *)
(* business of ClientConnection.                                           *)
(*                                                                         *)
(* Data are counted.  The upload passes through the buffer of the          *)
(* transport, the download through that of the stream reader.  Either peer *)
(* may stop reading for good.                                              *)
(***************************************************************************)
EXTENDS Router

CONSTANTS Configs,   \* routing configurations
          Hosts,     \* hosts that are asked for
          MaxUpload, MaxDownload,  \* bounds: chunks of the local client, of the target
          BufferSize \* chunks from which on drain() waits

ASSUME DirectAssumption == MaxUpload \in Nat /\ MaxDownload \in Nat /\ BufferSize \in Nat

Actions == {"proxy", "direct", "block"}
Peers == {"client", "target"}

VARIABLES
  request,   \* the configuration and the host, until the router has decided
  verdict,   \* the router's action, or "none"
  handler,   \* "routing", "proxied", "dialling", "answering", "refusing",
             \* "forwarding", "waiting" (wait_closed), "closing", "closed"
  client,    \* the local client: "open", "ended" (sends no more), "gone"
  target,    \* the target: "none", "open", "ended" (its end has arrived), "reset"
  stalled,   \* the peers that do not read any more
  writer,    \* the stream writer: "none", "open", "closing", "closed"
  upTask,    \* client_to_target: "off", "recv", "drain", "done"
  downTask,  \* target_to_client: "off", "read", "send", "done"
  uploaded, buffered, arrived,  \* chunks read from the client, buffered, at the target
  sent, received, delivered     \* chunks of the target, seen by the reader, at the client

uploadVars == <<uploaded, buffered, arrived>>
downloadVars == <<sent, received, delivered>>
vars == <<request, verdict, handler, client, target, stalled, writer, upTask, downTask,
          uploadVars, downloadVars>>

NoRequest == [config |-> <<>>, host |-> <<>>, default |-> "none"]

Init ==
  /\ request \in [config : Configs, host : Hosts, default : {"proxy"}]
  /\ verdict = "none" /\ handler = "routing"
  /\ client = "open" /\ target = "none" /\ stalled = {} /\ writer = "none"
  /\ upTask = "off" /\ downTask = "off"
  /\ uploaded = 0 /\ buffered = 0 /\ arrived = 0
  /\ sent = 0 /\ received = 0 /\ delivered = 0

-----------------------------------------------------------------------------
\* The handler.

\* The routing decision.  The request is not looked at again.  An action the code
\* does not know means the proxy.
Route ==
  /\ handler = "routing"
  /\ verdict' = Decide(LoadRules(request.config), request.host, request.default)
  /\ handler' = CASE verdict' = "direct" -> "dialling"
                  [] verdict' = "block" -> "refusing"
                  [] OTHER -> "proxied"
  /\ request' = NoRequest
  /\ UNCHANGED <<client, target, stalled, writer, upTask, downTask, uploadVars, downloadVars>>

DialOk ==
  /\ handler = "dialling"
  /\ handler' = "answering" /\ writer' = "open" /\ target' = "open"
  /\ UNCHANGED <<request, verdict, client, stalled, upTask, downTask, uploadVars, downloadVars>>

\* Mutant of DialFails: the dial has no time-out, and is not refused.
DialFailsNever ==
  /\ handler = "dialling" /\ FALSE
  /\ UNCHANGED vars

\* A refused dial, or 30 s without an answer.
DialFails ==
  /\ handler = "dialling"
  /\ handler' = "refusing"
  /\ UNCHANGED <<request, verdict, client, target, stalled, writer, upTask, downTask, uploadVars, downloadVars>>

\* respond(success=False).  The callbacks catch every error of the reply.
Refuse ==
  /\ handler = "refusing"
  /\ handler' = "closing"
  /\ UNCHANGED <<request, verdict, client, target, stalled, writer, upTask, downTask, uploadVars, downloadVars>>

\* respond(success=True), and gather() starts the coroutines, also if the local client
\* has left during the dial: its reply fails, but that is only logged.
Answer ==
  /\ handler = "answering"
  /\ handler' = "forwarding" /\ upTask' = "recv" /\ downTask' = "read"
  /\ UNCHANGED <<request, verdict, client, target, stalled, writer, uploadVars, downloadVars>>

\* Mutant of GatherEnds: the first coroutine that ends ends the forwarding.
GatherEndsFirst ==
  /\ handler = "forwarding" /\ "done" \in {upTask, downTask}
  /\ handler' = "closing"
  /\ UNCHANGED <<request, verdict, client, target, stalled, writer, upTask, downTask, uploadVars, downloadVars>>

GatherEnds ==
  /\ handler = "forwarding" /\ upTask = "done" /\ downTask = "done"
  /\ handler' = "waiting"
  /\ UNCHANGED <<request, verdict, client, target, stalled, writer, upTask, downTask, uploadVars, downloadVars>>

WriterIsClosed ==
  /\ handler = "waiting" /\ writer = "closed"
  /\ handler' = "closing"
  /\ UNCHANGED <<request, verdict, client, target, stalled, writer, upTask, downTask, uploadVars, downloadVars>>

\* close(): the socket of the local client is closed.
CloseConnection ==
  /\ handler = "closing"
  /\ handler' = "closed" /\ client' = "gone"
  /\ UNCHANGED <<request, verdict, target, stalled, writer, upTask, downTask, uploadVars, downloadVars>>

-----------------------------------------------------------------------------
\* The coroutines.

\* The finally block of client_to_target.
UpTaskEnds == upTask' = "done" /\ writer' = IF writer = "open" THEN "closing" ELSE writer

\* A chunk from the local client is written, and drain() follows.
UploadChunk ==
  /\ upTask = "recv" /\ client = "open" /\ uploaded < MaxUpload
  /\ uploaded' = uploaded + 1
  /\ buffered' = IF writer = "open" THEN buffered + 1 ELSE buffered
  /\ upTask' = "drain"
  /\ UNCHANGED <<request, verdict, handler, client, target, stalled, writer, downTask, arrived, downloadVars>>

\* drain() raises when the transport has lost its connection.
Drained ==
  /\ upTask = "drain"
  /\ \/ writer = "open" /\ buffered <= BufferSize /\ upTask' = "recv" /\ UNCHANGED writer
     \/ writer # "open" /\ UpTaskEnds
  /\ UNCHANGED <<request, verdict, handler, client, target, stalled, downTask, uploadVars, downloadVars>>

\* Mutant of UploadEnds: the writer is left open.
UploadEndsOnly ==
  /\ upTask = "recv" /\ client # "open"
  /\ upTask' = "done"
  /\ UNCHANGED <<request, verdict, handler, client, target, stalled, writer, downTask, uploadVars, downloadVars>>

\* sock_recv() returns nothing, or raises.
UploadEnds ==
  /\ upTask = "recv" /\ client # "open"
  /\ UpTaskEnds
  /\ UNCHANGED <<request, verdict, handler, client, target, stalled, downTask, uploadVars, downloadVars>>

\* read() returns what has arrived.  A reset makes it raise, whatever is unread.
DownloadChunk ==
  /\ downTask = "read" /\ delivered < received /\ target # "reset"
  /\ downTask' = "send"
  /\ UNCHANGED <<request, verdict, handler, client, target, stalled, writer, upTask, uploadVars, downloadVars>>

\* sock_sendall() waits for a local client that does not read, and raises if it is gone.
Deliver ==
  /\ downTask = "send"
  /\ \/ /\ client # "gone" /\ "client" \notin stalled
        /\ delivered' = delivered + 1 /\ downTask' = "read"
     \/ client = "gone" /\ downTask' = "done" /\ UNCHANGED delivered
  /\ UNCHANGED <<request, verdict, handler, client, target, stalled, writer, upTask, uploadVars, sent, received>>

\* The target's end, or a closed transport, once what has arrived is read.
ReaderEnded ==
  \/ target = "reset"
  \/ delivered = received /\ (target = "ended" \/ writer = "closed")

\* Mutant of DownloadEnds: the writer is closed as in client_to_target.
DownloadEndsForBoth ==
  /\ downTask = "read" /\ ReaderEnded
  /\ downTask' = "done" /\ writer' = IF writer = "open" THEN "closing" ELSE writer
  /\ UNCHANGED <<request, verdict, handler, client, target, stalled, upTask, uploadVars, downloadVars>>

\* The end of the target's stream ends only this coroutine.
DownloadEnds ==
  /\ downTask = "read" /\ ReaderEnded
  /\ downTask' = "done"
  /\ UNCHANGED <<request, verdict, handler, client, target, stalled, writer, upTask, uploadVars, downloadVars>>

-----------------------------------------------------------------------------
\* The transport, the target and the local client.

Flush ==
  /\ writer \in {"open", "closing"} /\ buffered > 0 /\ target # "reset" /\ "target" \notin stalled
  /\ buffered' = buffered - 1 /\ arrived' = arrived + 1
  /\ UNCHANGED <<request, verdict, handler, client, target, stalled, writer, upTask, downTask, uploaded, downloadVars>>

\* A transport that is being closed is closed once its buffer is empty.
TransportCloses ==
  /\ writer = "closing" /\ buffered = 0
  /\ writer' = "closed"
  /\ UNCHANGED <<request, verdict, handler, client, target, stalled, upTask, downTask, uploadVars, downloadVars>>

TargetSends ==
  /\ target = "open" /\ writer \in {"open", "closing"} /\ sent < MaxDownload
  /\ sent' = sent + 1
  /\ UNCHANGED <<request, verdict, handler, client, target, stalled, writer, upTask, downTask, uploadVars,
                 received, delivered>>

\* A transport that is being closed reads no more.
Arrives ==
  /\ writer = "open" /\ received < sent
  /\ received' = received + 1
  /\ UNCHANGED <<request, verdict, handler, client, target, stalled, writer, upTask, downTask, uploadVars,
                 sent, delivered>>

TargetEnds ==
  /\ writer = "open" /\ target = "open" /\ received = sent
  /\ target' = "ended"
  /\ UNCHANGED <<request, verdict, handler, client, stalled, writer, upTask, downTask, uploadVars, downloadVars>>

\* A reset closes the transport.
TargetResets ==
  /\ writer \in {"open", "closing"} /\ target \in {"open", "ended"}
  /\ target' = "reset" /\ writer' = "closed" /\ buffered' = 0
  /\ UNCHANGED <<request, verdict, handler, client, stalled, upTask, downTask, uploaded, arrived, downloadVars>>

ClientLeaves ==
  /\ \/ client = "open" /\ client' \in {"ended", "gone"}
     \/ client = "ended" /\ client' = "gone"
  /\ handler # "routing"
  /\ UNCHANGED <<request, verdict, handler, target, stalled, writer, upTask, downTask, uploadVars, downloadVars>>

PeerStalls ==
  /\ handler = "forwarding"
  /\ \E p \in Peers : stalled' = stalled \cup {p}
  /\ UNCHANGED <<request, verdict, handler, client, target, writer, upTask, downTask, uploadVars, downloadVars>>

-----------------------------------------------------------------------------
Dial == DialOk \/ DialFails
Handler == Route \/ Refuse \/ Answer \/ GatherEnds \/ WriterIsClosed \/ CloseConnection
UpTask == UploadChunk \/ Drained \/ UploadEnds
DownTask == DownloadChunk \/ Deliver \/ DownloadEnds
Transport == Flush \/ TransportCloses

Next ==
  \/ Handler \/ Dial \/ UpTask \/ DownTask \/ Transport
  \/ TargetSends \/ Arrives \/ TargetEnds \/ TargetResets \/ ClientLeaves \/ PeerStalls

\* Ready coroutines run, the dial times out, and the transport goes on while the
\* target reads.
Fairness ==
  /\ WF_vars(Handler) /\ WF_vars(DialFails) /\ WF_vars(DownTask) /\ WF_vars(Transport)
  /\ WF_vars(Drained) /\ WF_vars(UploadEnds)

Spec == Init /\ [][Next]_vars /\ Fairness

-----------------------------------------------------------------------------
\* Properties.

TypeOK ==
  /\ verdict \in Actions \cup {"none"}
  /\ handler \in {"routing", "proxied", "dialling", "answering", "refusing", "forwarding",
                  "waiting", "closing", "closed"}
  /\ client \in {"open", "ended", "gone"} /\ target \in {"none", "open", "ended", "reset"}
  /\ stalled \subseteq Peers
  /\ writer \in {"none", "open", "closing", "closed"}
  /\ upTask \in {"off", "recv", "drain", "done"} /\ downTask \in {"off", "read", "send", "done"}
  /\ uploaded \in 0..MaxUpload /\ buffered \in 0..BufferSize + 1 /\ arrived \in 0..MaxUpload
  /\ sent \in 0..MaxDownload /\ received \in 0..MaxDownload /\ delivered \in 0..MaxDownload

\* The loaded groups decide as the declared rules do: the first rule that matches,
\* rules on networks first, else the default.
RouteIsFirstMatch ==
  [][handler = "routing" =>
       verdict' = FirstMatch(request.config, request.host, request.default)]_vars

\* The connection to the target does not outlive its handler: whichever end comes
\* first and wherever the coroutines are, the writer is closed before the local
\* connection is.
NoWriterLeft == handler = "closed" => writer \in {"none", "closed"}

\* The end of the target's stream leaves the upload alone: all that was read from the
\* local client reaches the target before the connection is closed.  The reverse is
\* not so.  The end of the client's stream closes the writer, and with it the
\* download: a half-closed client gets what the reader had received by then, and
\* loses what was on its way.  Until it ends its stream a client loses nothing.
DownloadIsComplete ==
  downTask = "done" /\ client # "gone" /\ target # "reset" =>
    /\ delivered = received
    /\ client = "open" => target = "ended" /\ delivered = sent
UploadIsComplete == handler = "closed" /\ target # "reset" => arrived = uploaded
StreamsAreComplete == DownloadIsComplete /\ UploadIsComplete

\* A direct connection ends once its local client has ended its stream, during the dial
\* as well, and a blocked request ends in any case; whatever the target sends, and
\* whether or not it ever ends.  Nothing limits the time of drain(), sock_sendall()
\* and wait_closed(): a target that stops reading holds up the buffered upload, a
\* half-closed client that stops reading the download, and with it the end.  (The
\* end of the target alone does not end a connection: client_to_target goes on
\* until the local client leaves.)
WaitsForPeer ==
  \/ "target" \in stalled /\ buffered > 0
  \/ "client" \in stalled /\ client # "gone" /\ downTask = "send"
EndsOnceClientLeaves ==
  []<>(verdict = "block" \/ client # "open" => handler \in {"closed", "proxied"} \/ WaitsForPeer)
===============================================================================
