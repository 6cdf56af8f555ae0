------------------------------- MODULE UdpRelay -------------------------------
(***************************************************************************)
(* UDP over the WebSockets: the client's UDPRelayServer                    *)
(* (client/socks5_server.py), which keeps one session per local client     *)
(* address, and the sessions of the server's WebSocketHandlers             *)
(* (server/ws_handler.py), which keep one UDP socket per conn_id, a        *)
(* receive loop for each, and share the default thread pool for the        *)
(* blocking recvfrom() and sendto() calls.                                 *)
(*                                                                         *)
(* A handler stands for one WebSocket: a connection that is dialled again  *)
(* is another handler.  Packets of a conn_id go over any WebSocket that is *)
(* up, since send_message falls back to other slots (see WsPool).          *)
(***************************************************************************)
EXTENDS Integers, Sequences, FiniteSetsExt

CONSTANTS Clients,     \* local addresses that use the relay
          Handlers,    \* WebSockets, with their handlers
          Workers,     \* threads of the server's default executor
          MaxSessions, \* bound: sessions of the relay, each with a new conn_id (os.urandom)
          MaxPackets,  \* bound: packets the relay reads
          MaxSockets,  \* bound: UDP sockets the server opens
          MaxAnswers,  \* bound: datagrams the sockets receive
          None

ASSUME UdpAssumption ==
  /\ Workers \in Nat \ {0} /\ MaxSessions \in Nat /\ MaxPackets \in Nat
  /\ MaxSockets \in Nat /\ MaxAnswers \in Nat
  /\ None \notin Clients

Conns == 1..MaxSessions
Sockets == 1..MaxSockets

VARIABLES
  session,    \* UDPRelayServer.udp_sessions: the local address of a conn_id, or None
  drawn,      \* number of conn_ids drawn
  relayed,    \* number of packets read from local clients
  sent,       \* packets on their way over each WebSocket, up to their handler's start
  down,       \* answers on their way back
  link,       \* a WebSocket: "up", "lost", or "closed" once on_close has run
  filed,      \* WebSocketHandler.udp_sessions: the socket of a conn_id, or 0
  made,       \* number of sockets opened
  place,      \* the handler and the conn_id a socket was opened for
  open,       \* the sockets that are open
  loop,       \* _udp_receive_loop of each socket
  heard,      \* number of datagrams received
  jobs,       \* the executor: calls that wait for a thread
  busy,       \* the sockets whose recvfrom() runs in a thread
  carried,    \* the local clients whose packets a socket has sent
  got         \* pairs of a local client and a socket whose answer it was given

clientVars == <<session, drawn, relayed, got>>
wireVars   == <<sent, down, link>>
socketVars == <<filed, made, place, open, loop, heard, carried>>
vars == <<clientVars, wireVars, socketVars, jobs, busy>>

Packet == [conn : Conns, from : Clients]
Job(kind, s, a) == [kind |-> kind, socket |-> s, from |-> a]
Jobs == [kind : {"recv"}, socket : Sockets, from : {None}]
          \cup [kind : {"send"}, socket : Sockets, from : Clients]

Init ==
  /\ session = [c \in Conns |-> None] /\ drawn = 0 /\ relayed = 0 /\ got = {}
  /\ sent = [h \in Handlers |-> <<>>] /\ down = [h \in Handlers |-> <<>>]
  /\ link = [h \in Handlers |-> "up"]
  /\ filed = [h \in Handlers |-> [c \in Conns |-> 0]]
  /\ made = 0 /\ place = [s \in Sockets |-> None] /\ open = {}
  /\ loop = [s \in Sockets |-> "none"] /\ heard = 0
  /\ carried = [s \in Sockets |-> {}]
  /\ jobs = <<>> /\ busy = {}

-----------------------------------------------------------------------------
\* The client: UDPRelayServer.

\* Mutant of SessionsOf: sessions are looked up by address, without the port.
SessionsOfHost(a) == {c \in Conns : session[c] # None}

SessionsOf(a) == {c \in Conns : session[c] = a}

\* _find_or_create_session.
FindOrCreate(a) == IF SessionsOf(a) # {} THEN SessionsOf(a) ELSE {drawn + 1} \cap Conns

\* One round of _receive_loop: without a WebSocket send_message raises and the
\* packet is lost, its session stays.
LocalPacket(a, c) ==
  /\ relayed < MaxPackets /\ c \in FindOrCreate(a)
  /\ relayed' = relayed + 1
  /\ drawn' = Max({drawn, c})
  /\ session' = [session EXCEPT ![c] = a]
  /\ \/ \E h \in Handlers :
          /\ link[h] = "up"
          /\ sent' = [sent EXCEPT ![h] = Append(@, [conn |-> c, from |-> a])]
     \/ /\ \A h \in Handlers : link[h] # "up"
        /\ UNCHANGED sent
  /\ UNCHANGED <<down, link, socketVars, jobs, busy, got>>

\* _cleanup_sessions: only packets of the local client keep a session alive, so
\* it may expire while answers still come in.
Expire(c) ==
  /\ session[c] # None
  /\ session' = [session EXCEPT ![c] = None]
  /\ UNCHANGED <<drawn, relayed, got, wireVars, socketVars, jobs, busy>>

\* handle_message and send_to_client: an answer for an unknown conn_id is dropped.
Deliver(h) ==
  /\ down[h] # <<>>
  /\ down' = [down EXCEPT ![h] = Tail(@)]
  /\ LET answer == Head(down[h])
         a == session[answer.conn]
     IN got' = IF a = None THEN got ELSE got \cup {<<a, answer.socket>>}
  /\ UNCHANGED <<session, drawn, relayed, sent, link, socketVars, jobs, busy>>

-----------------------------------------------------------------------------
\* The WebSocket.

\* Packets that on_message has not seen yet are gone; it has scheduled a task for
\* each of the others.
Lose(h) ==
  /\ link[h] = "up"
  /\ link' = [link EXCEPT ![h] = "lost"]
  /\ \E n \in 0..Len(sent[h]) : sent' = [sent EXCEPT ![h] = SubSeq(@, 1, n)]
  /\ down' = [down EXCEPT ![h] = <<>>]
  /\ UNCHANGED <<clientVars, socketVars, jobs, busy>>

\* Mutant of OnClose: the dictionary is cleared and the sockets stay open.
OnCloseKeepsSockets(h) ==
  /\ link[h] = "lost"
  /\ link' = [link EXCEPT ![h] = "closed"]
  /\ filed' = [filed EXCEPT ![h] = [c \in Conns |-> 0]]
  /\ UNCHANGED <<clientVars, sent, down, made, place, open, loop, heard, carried, jobs, busy>>

\* The UDP part of on_close.
OnClose(h) ==
  /\ link[h] = "lost"
  /\ link' = [link EXCEPT ![h] = "closed"]
  /\ open' = open \ {filed[h][c] : c \in Conns}
  /\ filed' = [filed EXCEPT ![h] = [c \in Conns |-> 0]]
  /\ UNCHANGED <<clientVars, sent, down, made, place, loop, heard, carried, jobs, busy>>

-----------------------------------------------------------------------------
\* The server: WebSocketHandler.

\* Mutant of HasSession: the handler does not look for a session first.
NeverHasSession(h, c) == FALSE

HasSession(h, c) == filed[h][c] # 0

\* _get_or_create_udp_socket: the socket, and the receive loop it starts.
GetOrCreate(h, c, s) ==
  IF HasSession(h, c)
  THEN /\ s = filed[h][c]
       /\ UNCHANGED <<filed, made, place, open, loop>>
  ELSE /\ made < MaxSockets /\ s = made + 1
       /\ made' = s
       /\ place' = [place EXCEPT ![s] = <<h, c>>]
       /\ open' = open \cup {s}
       /\ filed' = [filed EXCEPT ![h][c] = s]
       /\ loop' = [loop EXCEPT ![s] = "top"]

\* handle_udp_data up to its await: sendto() is handed to the executor.  It may
\* run after on_close, and then makes a session that on_close does not see.
HandleUdpData(h, s) ==
  /\ sent[h] # <<>>
  /\ LET packet == Head(sent[h]) IN
       /\ GetOrCreate(h, packet.conn, s)
       /\ jobs' = Append(jobs, Job("send", s, packet.from))
  /\ sent' = [sent EXCEPT ![h] = Tail(@)]
  /\ UNCHANGED <<clientVars, down, link, heard, carried, busy>>

\* The finally block: it removes whatever session its conn_id has.
FinallyRuns(s) ==
  LET h == place[s][1]
      c == place[s][2]
  IN /\ loop' = [loop EXCEPT ![s] = "done"]
     /\ IF filed[h][c] # 0
        THEN open' = open \ {s} /\ filed' = [filed EXCEPT ![h][c] = 0]
        ELSE UNCHANGED <<open, filed>>

\* Mutant of LoopEnds: the session of an ended loop stays in the dictionary.
LoopEndsKeepsSession(s) ==
  /\ \/ loop[s] = "empty"
     \/ loop[s] = "data" /\ link[place[s][1]] # "up"
     \/ loop[s] = "top" /\ filed[place[s][1]][place[s][2]] = 0
  /\ open' = open \ {s} /\ loop' = [loop EXCEPT ![s] = "done"]
  /\ UNCHANGED <<clientVars, wireVars, filed, made, place, heard, carried, jobs, busy>>

\* Nothing was received (time-out, empty datagram, closed socket), write_message
\* raises on a WebSocket that is lost, or the session is gone.
LoopEnds(s) ==
  /\ \/ loop[s] = "empty"
     \/ loop[s] = "data" /\ link[place[s][1]] # "up"
     \/ loop[s] = "top" /\ filed[place[s][1]][place[s][2]] = 0
  /\ FinallyRuns(s)
  /\ UNCHANGED <<clientVars, wireVars, made, place, heard, carried, jobs, busy>>

\* The top of the loop: recvfrom() is handed to the executor.
LoopReceives(s) ==
  /\ loop[s] = "top" /\ filed[place[s][1]][place[s][2]] # 0
  /\ jobs' = Append(jobs, Job("recv", s, None))
  /\ loop' = [loop EXCEPT ![s] = "recv"]
  /\ UNCHANGED <<clientVars, wireVars, filed, made, place, open, heard, carried, busy>>

\* A datagram goes back; what is written before the loss is noticed reaches nobody.
LoopForwards(s) ==
  LET h == place[s][1] IN
  /\ loop[s] = "data" /\ link[h] # "closed"
  /\ loop' = [loop EXCEPT ![s] = "top"]
  /\ down' = IF link[h] = "up"
             THEN [down EXCEPT ![h] = Append(@, [conn |-> place[s][2], socket |-> s])]
             ELSE down
  /\ UNCHANGED <<clientVars, sent, link, filed, made, place, open, heard, carried, jobs, busy>>

-----------------------------------------------------------------------------
\* The executor, and the calls it runs.

FreeThread == jobs # <<>> /\ Cardinality(busy) < Workers

\* A thread that takes recvfrom() keeps to it.
TakeReceive ==
  /\ FreeThread /\ Head(jobs).kind = "recv"
  /\ jobs' = Tail(jobs) /\ busy' = busy \cup {Head(jobs).socket}
  /\ UNCHANGED <<clientVars, wireVars, socketVars>>

\* _blocking_udp_sendto: an error (the socket was closed meanwhile) is swallowed.
SendTo ==
  /\ FreeThread /\ Head(jobs).kind = "send"
  /\ jobs' = Tail(jobs)
  /\ LET s == Head(jobs).socket IN
       carried' = IF s \in open THEN [carried EXCEPT ![s] = @ \cup {Head(jobs).from}] ELSE carried
  /\ UNCHANGED <<clientVars, wireVars, filed, made, place, open, loop, heard, busy>>

\* Whoever learns the port may send; an empty datagram is taken for a time-out.
Receives(s) ==
  /\ s \in busy /\ s \in open /\ heard < MaxAnswers
  /\ heard' = heard + 1
  /\ busy' = busy \ {s}
  /\ loop' = [loop EXCEPT ![s] = "data"]
  /\ UNCHANGED <<clientVars, wireVars, filed, made, place, open, carried, jobs>>

\* Mutant of ReceivesNothing: the socket has no time-out.
ReceivesNothingWhenClosed(s) ==
  /\ s \in busy /\ s \notin open
  /\ busy' = busy \ {s}
  /\ loop' = [loop EXCEPT ![s] = "empty"]
  /\ UNCHANGED <<clientVars, wireVars, filed, made, place, open, heard, carried, jobs>>

\* settimeout(5.0), an empty datagram, or recvfrom() on a closed socket.
ReceivesNothing(s) ==
  /\ s \in busy
  /\ busy' = busy \ {s}
  /\ loop' = [loop EXCEPT ![s] = "empty"]
  /\ UNCHANGED <<clientVars, wireVars, filed, made, place, open, heard, carried, jobs>>

-----------------------------------------------------------------------------
Loop(s) == LoopEnds(s) \/ LoopReceives(s) \/ LoopForwards(s)

Next ==
  \/ \E a \in Clients, c \in Conns : LocalPacket(a, c)
  \/ \E c \in Conns : Expire(c)
  \/ \E h \in Handlers : Deliver(h) \/ Lose(h) \/ OnClose(h)
  \/ \E h \in Handlers, s \in Sockets : HandleUdpData(h, s)
  \/ \E s \in Sockets : Loop(s) \/ Receives(s) \/ ReceivesNothing(s)
  \/ TakeReceive \/ SendTo

\* Ready tasks run, threads that are free take calls, and a recvfrom() returns
\* after its time-out at the latest.
Fairness ==
  /\ WF_vars(TakeReceive \/ SendTo)
  /\ \A s \in Sockets : WF_vars(Loop(s)) /\ WF_vars(ReceivesNothing(s))

Spec == Init /\ [][Next]_vars /\ Fairness

-----------------------------------------------------------------------------
\* Properties.

TypeOK ==
  /\ session \in [Conns -> Clients \cup {None}] /\ drawn \in 0..MaxSessions
  /\ relayed \in 0..MaxPackets /\ got \subseteq Clients \X Sockets
  /\ sent \in [Handlers -> Seq(Packet)]
  /\ down \in [Handlers -> Seq([conn : Conns, socket : Sockets])]
  /\ link \in [Handlers -> {"up", "lost", "closed"}]
  /\ filed \in [Handlers -> [Conns -> Sockets \cup {0}]]
  /\ made \in 0..MaxSockets /\ open \subseteq 1..made
  /\ place \in [Sockets -> Handlers \X Conns \cup {None}]
  /\ loop \in [Sockets -> {"none", "top", "recv", "data", "empty", "done"}]
  /\ heard \in 0..MaxAnswers /\ carried \in [Sockets -> SUBSET Clients]
  /\ jobs \in Seq(Jobs) /\ busy \subseteq Sockets /\ Cardinality(busy) <= Workers

\* What a local client is given was received on a socket that has sent packets of
\* that client only, whatever sessions expire and are made again meanwhile.
AnswersGoHome == \A d \in got : carried[d[2]] \subseteq {d[1]}

\* An open socket is the one its conn_id has in udp_sessions: no session has two
\* sockets, and none is forgotten.  The exception takes a handler that starts after
\* on_close and makes a session anew: the receive loop of the session that on_close
\* removed takes the new one out of the dictionary, and its socket is not closed.
OpenSocketIsFiled ==
  \A s \in open : filed[place[s][1]][place[s][2]] # s =>
    /\ link[place[s][1]] = "closed"
    /\ \E old \in 1..s-1 : place[old] = place[s] /\ loop[old] = "done"

\* Packets are handed only to a socket that is open and whose receive loop is not
\* over, though its last recvfrom() may have timed out already.
SessionIsServed ==
  \A h \in Handlers, c \in Conns : HasSession(h, c) =>
    filed[h][c] \in open /\ loop[filed[h][c]] # "done"

\* Once packets and answers cease every session ends, with or without its
\* WebSocket, and no sendto() waits behind a recvfrom() for ever.
SilentSessionsEnd ==
  <>[](/\ \A s \in Sockets : loop[s] \in {"none", "done"}
      /\ jobs = <<>>)
===============================================================================
