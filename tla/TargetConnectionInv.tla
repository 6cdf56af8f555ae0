------------------------- MODULE TargetConnectionInv -------------------------
(***************************************************************************)
(* The inductive invariant of TargetConnection, part by part.  The first   *)
(* four parts relate the control locations of the tasks and the flags, the *)
(* last four the data that flows in each direction.                        *)
(***************************************************************************)
EXTENDS TargetConnection, Integers

\* Where handle_connect is determines what exists.
PhaseInv ==
  /\ hc = "idle" => ~registered /\ ~closing
  /\ hc \in {"idle", "dial"} => ~running /\ ~connected /\ writer = "none"
  /\ hc = "flush" => connected
  /\ connected => writer # "none" /\ hc \in {"flush", "done"}
  /\ hc = "dial" => cl = "none"
  /\ ~connected => cl = "none"
  /\ sweep => ~registered /\ ws = "closed" /\ hc # "idle"
  /\ draining > 0 => connected
  /\ rl # "none" => hc = "done" /\ connected
  /\ rl = "none" <=> sl = "none"

\* The flags, the one effective close() and its caller.
FlagsInv ==
  /\ closer = "none" <=> cl = "none"
  /\ running => connected /\ writer = "open" /\ cl = "none"
  /\ cl # "none" => closing /\ ~running
  /\ connected /\ ~running => cl # "none"
  /\ closing /\ cl = "none" => ~registered
  /\ cl = "drain" => closer = "read" /\ rl = "closing"
  /\ cl = "awaitSend" => rl \in {"closing", "done"} /\ (closer = "read" => timedOut)

\* The read task.
ReaderInv ==
  /\ rl = "closing" <=> closer = "read" /\ cl # "done"
  /\ closer = "read" => rl \in {"closing", "done"} /\ cl # "awaitRead"
  /\ rl = "done" => closing
  /\ readCancel => cl = "awaitRead" /\ rl \in {"spawned", "reading", "putting", "putNone"}
  /\ cl = "awaitRead" => rl \in {"spawned", "reading", "putting", "putNone", "done"}
  /\ cl = "awaitRead" /\ rl \in {"spawned", "reading", "putting"} => readCancel
  /\ rl \in {"reading", "putting", "putNone"} => cl \in {"none", "awaitRead"}

\* The send task.
SenderInv ==
  /\ sl = "closing" <=> closer = "send" /\ cl # "done"
  /\ closer = "send" => sl \in {"closing", "done"} /\ ws # "open" /\ cl # "drain"
  /\ sl = "done" => closing
  /\ sl = "done" /\ ws = "open" => rl \in {"closing", "done"}

ControlInv == PhaseInv /\ FlagsInv /\ ReaderInv /\ SenderInv

\* A sentinel is in the queue only once the read loop has said goodbye.
SentinelInv ==
  /\ \A i \in DOMAIN queue : queue[i] = None => rl \in {"closing", "done"}
  /\ rl = "putting" => got > 0

\* Once the writer is closed the send loop has nothing more to send: it is over,
\* it is the closer, or the connection was closed before the loops existed.
QuietInv ==
  /\ rl \in {"none", "spawned"} => queue = <<>>
  /\ cl \in {"waitClosed", "notify", "done"} =>
       \/ sl \in {"none", "done", "closing"}
       \/ /\ sl = "getting"
          /\ rl \in {"spawned", "done"}
          /\ \A i \in DOMAIN queue : queue[i] = None

\* From the dial on the connection is registered, or somebody has closed it or will.
OwnedInv ==
  /\ writer # "none" => connected
  /\ cl \in {"waitClosed", "notify", "done"} => writer = "closed"
  /\ hc \in {"dial", "flush"} \/ rl # "none" => registered \/ sweep \/ closing

\* Packets still to be sent while nothing was cancelled.
Pending == IF rl = "putting" THEN got - 1 - sent ELSE got - sent

\* The client still gets what is taken off the queue.
CanSend == registered /\ ws = "open"

\* The queue holds the packets sent+1, sent+2, ... and then sentinels; after an
\* end of stream without a timeout the send loop has sent them all.
QueueInv ==
  /\ rl \in {"none", "spawned"} => got = 0 /\ sent = 0
  /\ sent <= got
  /\ \A i \in DOMAIN queue : queue[i] <= got
  /\ \A i, j \in DOMAIN queue : i < j /\ queue[i] = None => queue[j] = None
  /\ CanSend => \A i \in DOMAIN queue : queue[i] # None => queue[i] = sent + i
  /\ CanSend /\ closer \in {"none", "read"} =>
       /\ 0 <= Pending /\ Pending <= Len(queue)
       /\ rl \in {"reading", "putting", "putNone"} => Pending = Len(queue)
       /\ \A i \in DOMAIN queue : queue[i] = None <=> i > Pending
  /\ CanSend /\ closer = "read" /\ ~timedOut /\ sl = "done" => sent = got

\* The frames written so far.
FramesInv ==
  /\ hc \in {"idle", "dial"} => frames = <<>>
  /\ hc = "flush" => \A i \in DOMAIN frames : frames[i].type = "close"
  /\ sl # "none" /\ ws = "open" => \E i \in DOMAIN frames : frames[i].type = "ok"
  /\ \A i \in DOMAIN frames : frames[i].type = "close" => cl \in {"notify", "done"}
  /\ \A i \in DOMAIN frames : frames[i].type = "data" => frames[i].n <= sent
  /\ \A k \in 1..sent : \E i \in DOMAIN frames : frames[i] = Frame("data", k)

\* What the client sent is written or still in the early buffer.
UpstreamInv ==
  /\ hc = "idle" => upSent = 0 /\ early = <<>> /\ written = <<>>
  /\ hc = "dial" => written = <<>>
  /\ hc = "done" /\ registered => connected /\ early = <<>>
  /\ registered /\ (running \/ hc = "dial") =>
       /\ Len(written) + Len(early) = upSent
       /\ \A n \in 1..upSent : \/ \E i \in DOMAIN written : written[i] = n
                               \/ \E i \in DOMAIN early : early[i] = n

IInv ==
  /\ TypeOK /\ ControlInv
  /\ SentinelInv /\ QuietInv /\ OwnedInv /\ QueueInv /\ FramesInv /\ UpstreamInv
  /\ DownstreamInOrder /\ CloseIsLast /\ AnswerBeforeData
  /\ NothingLeftBehind
==============================================================================
