----------------------------- MODULE UdpRelayProofs -----------------------------
(***************************************************************************)
(* The safety properties of UdpRelay, for all sets of clients and          *)
(* WebSockets, every number of executor threads and all bounds.            *)
(***************************************************************************)
EXTENDS UdpRelay, TLAPS

Answer == [conn : Conns, socket : Sockets]
LoopStates == {"none", "top", "recv", "data", "empty", "done"}

Types ==
  /\ session \in [Conns -> Clients \cup {None}] /\ drawn \in Nat
  /\ got \subseteq Clients \X Sockets
  /\ sent \in [Handlers -> Seq(Packet)] /\ down \in [Handlers -> Seq(Answer)]
  /\ link \in [Handlers -> {"up", "lost", "closed"}]
  /\ filed \in [Handlers -> [Conns -> Sockets \cup {0}]]
  /\ made \in 0..MaxSockets /\ open \subseteq 1..made
  /\ place \in [Sockets -> (Handlers \X Conns) \cup {None}]
  /\ loop \in [Sockets -> LoopStates]
  /\ carried \in [Sockets -> SUBSET Clients]
  /\ jobs \in Seq(Jobs) /\ busy \subseteq Sockets

\* Sockets are numbered as they are made; a socket in use has its place, and the
\* one in udp_sessions was made for that handler and conn_id.
PlaceInv ==
  /\ \A s \in 1..made : place[s] \in Handlers \X Conns
  /\ \A s \in Sockets : loop[s] # "none" => s <= made
  /\ \A h \in Handlers, c \in Conns : filed[h][c] # 0 =>
       filed[h][c] \in 1..made /\ place[filed[h][c]] = <<h, c>>

\* A receive loop waits for one recvfrom() at a time.
RecvInv ==
  /\ \A s \in busy : loop[s] = "recv"
  /\ \A i \in 1..Len(jobs) : jobs[i].kind = "recv" =>
       loop[jobs[i].socket] = "recv" /\ jobs[i].socket \notin busy
  /\ \A i, j \in 1..Len(jobs) :
       /\ jobs[i].kind = "recv" /\ jobs[j].kind = "recv"
       /\ jobs[i].socket = jobs[j].socket
       => i = j

TypeInv == Types /\ PlaceInv

LEMMA MaxOfTwo ==
  ASSUME NEW m \in Nat, NEW n \in Nat
  PROVE  Max({m, n}) \in Nat /\ Max({m, n}) >= m /\ Max({m, n}) >= n
<1>1. \E x \in {m, n} : \A y \in {m, n} : x >= y
  <2>1. CASE m >= n BY <2>1
  <2>2. CASE n >= m BY <2>2
  <2> QED BY <2>1, <2>2
<1>2. Max({m, n}) \in {m, n} /\ \A y \in {m, n} : Max({m, n}) >= y
  BY <1>1 DEF Max
<1> QED BY <1>2

\* The dictionary of one handler with one entry changed.
LEMMA Refile ==
  ASSUME NEW f \in [Handlers -> [Conns -> Sockets \cup {0}]],
         NEW h \in Handlers, NEW c \in Conns, NEW v \in Sockets \cup {0},
         NEW g, g = [f EXCEPT ![h][c] = v]
  PROVE  /\ g \in [Handlers -> [Conns -> Sockets \cup {0}]]
         /\ g[h][c] = v
         /\ \A k \in Handlers, d \in Conns : k # h \/ d # c => g[k][d] = f[k][d]
OBVIOUS

LEMMA InitTypes == Init => TypeInv
BY UdpAssumption DEF Init, TypeInv, Types, PlaceInv, Conns, Sockets, LoopStates

LEMMA TypesKept == ASSUME TypeInv, RecvInv, [Next]_vars PROVE TypeInv'
<1> USE UdpAssumption DEF TypeInv, Types, Conns, Sockets, LoopStates
<1>1. ASSUME NEW a \in Clients, NEW c \in Conns, LocalPacket(a, c) PROVE TypeInv'
  <2>1. c \in Nat /\ drawn' = Max({drawn, c}) BY <1>1 DEF LocalPacket
  <2>2. drawn' \in Nat BY <2>1, MaxOfTwo
  <2>4. [conn |-> c, from |-> a] \in Packet BY DEF Packet
  <2>5. sent' \in [Handlers -> Seq(Packet)]
    <3>1. CASE UNCHANGED sent BY <3>1
    <3>2. ASSUME NEW h \in Handlers,
                 sent' = [sent EXCEPT ![h] = Append(@, [conn |-> c, from |-> a])]
          PROVE  sent' \in [Handlers -> Seq(Packet)]
      <4>1. Append(sent[h], [conn |-> c, from |-> a]) \in Seq(Packet) BY <2>4
      <4> QED BY <3>2, <4>1
    <3> QED BY <1>1, <3>1, <3>2 DEF LocalPacket
  <2>3. session' \in [Conns -> Clients \cup {None}] BY <1>1 DEF LocalPacket
  <2> QED BY <1>1, <2>2, <2>3, <2>5 DEF LocalPacket, PlaceInv, socketVars
<1>2. ASSUME NEW c \in Conns, Expire(c) PROVE TypeInv'
  BY <1>2 DEF Expire, PlaceInv, socketVars, wireVars
<1>3. ASSUME NEW h \in Handlers, Deliver(h) PROVE TypeInv'
  <2>1. Head(down[h]) \in Answer /\ Tail(down[h]) \in Seq(Answer)
    BY <1>3 DEF Deliver
  <2>2. got' \subseteq Clients \X Sockets BY <1>3, <2>1 DEF Deliver, Answer
  <2> QED BY <1>3, <2>1, <2>2 DEF Deliver, PlaceInv, socketVars
<1>4. ASSUME NEW h \in Handlers, Lose(h) PROVE TypeInv'
  <2>1. ASSUME NEW n \in 0..Len(sent[h]) PROVE SubSeq(sent[h], 1, n) \in Seq(Packet)
    OBVIOUS
  <2>2. PICK n \in 0..Len(sent[h]) : sent' = [sent EXCEPT ![h] = SubSeq(@, 1, n)]
    BY <1>4 DEF Lose
  <2>3. sent' \in [Handlers -> Seq(Packet)] BY <2>1, <2>2
  <2> QED BY <1>4, <2>3 DEF Lose, PlaceInv, socketVars, clientVars
<1>5. ASSUME NEW h \in Handlers, OnClose(h) PROVE TypeInv'
  BY <1>5 DEF OnClose, PlaceInv, clientVars
<1>6. ASSUME NEW h \in Handlers, NEW s \in Sockets, HandleUdpData(h, s) PROVE TypeInv'
  <2>1. Head(sent[h]) \in Packet /\ Tail(sent[h]) \in Seq(Packet)
    BY <1>6 DEF HandleUdpData
  <2> DEFINE c == Head(sent[h]).conn
  <2>2. c \in Conns BY <2>1 DEF Packet
  <2>3. jobs' \in Seq(Jobs)
    <3>1. Job("send", s, Head(sent[h]).from) \in Jobs BY <2>1 DEF Job, Jobs, Packet
    <3> QED BY <1>6, <3>1 DEF HandleUdpData
  <2>4. GetOrCreate(h, c, s) BY <1>6 DEF HandleUdpData
  <2>5. CASE HasSession(h, c)
    BY <1>6, <2>1, <2>3, <2>4, <2>5 DEF HandleUdpData, GetOrCreate, PlaceInv, clientVars
  <2>6. CASE ~HasSession(h, c)
    <3> HIDE DEF c
    <3>1. /\ made < MaxSockets /\ s = made + 1 /\ made' = s
          /\ place' = [place EXCEPT ![s] = <<h, c>>]
          /\ open' = open \cup {s}
          /\ filed' = [filed EXCEPT ![h][c] = s]
          /\ loop' = [loop EXCEPT ![s] = "top"]
      BY <2>4, <2>6 DEF GetOrCreate
    <3>2. /\ filed' \in [Handlers -> [Conns -> Sockets \cup {0}]]
          /\ filed'[h][c] = s
          /\ \A k \in Handlers, d \in Conns : k # h \/ d # c => filed'[k][d] = filed[k][d]
      BY <2>2, <3>1, Refile
    <3>3. Types' BY <1>6, <2>1, <2>2, <2>3, <3>1, <3>2 DEF HandleUdpData, clientVars
    <3>4. PlaceInv'
      <4>1. \A t \in 1..made' : place'[t] \in Handlers \X Conns
        BY <2>2, <3>1 DEF PlaceInv
      <4>2. \A t \in Sockets : loop'[t] # "none" => t <= made'
        BY <3>1 DEF PlaceInv
      <4>3. ASSUME NEW g \in Handlers, NEW d \in Conns, filed'[g][d] # 0
            PROVE  filed'[g][d] \in 1..made' /\ place'[filed'[g][d]] = <<g, d>>
        <5>1. CASE g = h /\ d = c BY <3>1, <3>2, <5>1
        <5>2. CASE g # h \/ d # c
          <6>1. filed'[g][d] = filed[g][d] /\ filed[g][d] # 0 BY <3>2, <4>3, <5>2
          <6>2. filed[g][d] \in 1..made /\ place[filed[g][d]] = <<g, d>>
            BY <6>1 DEF PlaceInv
          <6> QED BY <3>1, <6>1, <6>2
        <5> QED BY <5>1, <5>2
      <4> QED BY <4>1, <4>2, <4>3 DEF PlaceInv
    <3> QED BY <3>3, <3>4
  <2> QED BY <2>5, <2>6
<1>7. ASSUME NEW s \in Sockets, LoopEnds(s) PROVE TypeInv'
  <2>1. /\ loop' = [loop EXCEPT ![s] = "done"] /\ loop[s] # "none"
        /\ UNCHANGED <<clientVars, wireVars, made, place, carried, jobs, busy>>
    BY <1>7 DEF LoopEnds, FinallyRuns
  <2>2. /\ open' \subseteq open
        /\ filed' = filed \/ filed' = [filed EXCEPT ![place[s][1]][place[s][2]] = 0]
    BY <1>7 DEF LoopEnds, FinallyRuns
  <2>0. s \in 1..made /\ place[s][1] \in Handlers /\ place[s][2] \in Conns
    BY <2>1 DEF PlaceInv
  <2>3. /\ filed' \in [Handlers -> [Conns -> Sockets \cup {0}]]
        /\ \A h \in Handlers, c \in Conns : filed'[h][c] \in {0, filed[h][c]}
    <3>1. CASE filed' = filed BY <3>1
    <3>2. CASE filed' = [filed EXCEPT ![place[s][1]][place[s][2]] = 0]
      BY <2>0, <3>2, Refile
    <3> QED BY <2>2, <3>1, <3>2
  <2>5. Types' BY <2>1, <2>2, <2>3 DEF clientVars, wireVars
  <2>6. PlaceInv'
    <3>1. \A t \in Sockets : loop'[t] # "none" => t <= made'
      BY <2>0, <2>1 DEF PlaceInv
    <3>2. \A h \in Handlers, c \in Conns : filed'[h][c] # 0 =>
            filed'[h][c] \in 1..made' /\ place'[filed'[h][c]] = <<h, c>>
      BY <2>1, <2>3 DEF PlaceInv
    <3> QED BY <2>1, <3>1, <3>2 DEF PlaceInv
  <2> QED BY <2>5, <2>6
<1>8. ASSUME NEW s \in Sockets, LoopReceives(s) PROVE TypeInv'
  <2>1. Job("recv", s, None) \in Jobs BY DEF Job, Jobs
  <2>2. jobs' \in Seq(Jobs) BY <1>8, <2>1 DEF LoopReceives
  <2> QED BY <1>8, <2>2 DEF LoopReceives, PlaceInv, clientVars, wireVars
<1>9. ASSUME NEW s \in Sockets, LoopForwards(s) PROVE TypeInv'
  <2>1. s <= made /\ place[s][1] \in Handlers /\ place[s][2] \in Conns
    BY <1>9 DEF LoopForwards, PlaceInv
  <2>2. [conn |-> place[s][2], socket |-> s] \in Answer BY <2>1 DEF Answer
  <2>3. down' \in [Handlers -> Seq(Answer)] BY <1>9, <2>1, <2>2 DEF LoopForwards
  <2> QED BY <1>9, <2>1, <2>3 DEF LoopForwards, PlaceInv, clientVars
<1>10. CASE TakeReceive
  <2>1. Head(jobs) \in Jobs /\ Tail(jobs) \in Seq(Jobs) BY <1>10 DEF TakeReceive, FreeThread
  <2> QED BY <1>10, <2>1 DEF TakeReceive, PlaceInv, clientVars, wireVars, socketVars, Jobs
<1>11. CASE SendTo
  <2>1. Head(jobs) \in Jobs /\ Tail(jobs) \in Seq(Jobs) BY <1>11 DEF SendTo, FreeThread
  <2>2. Head(jobs).socket \in Sockets /\ Head(jobs).from \in Clients
    BY <1>11, <2>1 DEF SendTo, Jobs
  <2>3. carried' \in [Sockets -> SUBSET Clients] BY <1>11, <2>2 DEF SendTo
  <2> QED BY <1>11, <2>1, <2>3 DEF SendTo, PlaceInv, clientVars, wireVars
<1>12. ASSUME NEW s \in Sockets, Receives(s) PROVE TypeInv'
  BY <1>12 DEF Receives, RecvInv, PlaceInv, clientVars, wireVars
<1>13. ASSUME NEW s \in Sockets, ReceivesNothing(s) PROVE TypeInv'
  BY <1>13 DEF ReceivesNothing, RecvInv, PlaceInv, clientVars, wireVars
<1>14. CASE UNCHANGED vars
  BY <1>14 DEF vars, clientVars, wireVars, socketVars, PlaceInv
<1> QED BY <1>1, <1>2, <1>3, <1>4, <1>5, <1>6, <1>7, <1>8, <1>9, <1>10, <1>11, <1>12, <1>13, <1>14
        DEF Next, Loop

-----------------------------------------------------------------------------
LEMMA AppendElements ==
  ASSUME NEW S, NEW q \in Seq(S), NEW e \in S
  PROVE  /\ Len(Append(q, e)) = Len(q) + 1 /\ Len(q) \in Nat
         /\ \A i \in 1..Len(q) : Append(q, e)[i] = q[i]
         /\ Append(q, e)[Len(q) + 1] = e
OBVIOUS

LEMMA TailElements ==
  ASSUME NEW S, NEW q \in Seq(S), q # <<>>
  PROVE  /\ Len(Tail(q)) = Len(q) - 1 /\ Len(q) \in Nat \ {0}
         /\ \A i \in 1..Len(q) - 1 : Tail(q)[i] = q[i + 1]
         /\ Head(q) = q[1]
OBVIOUS

LEMMA InitRecv == Init => RecvInv
BY DEF Init, RecvInv

\* Only the receive loops, the executor and a new session touch what RecvInv is about.
LEMMA RecvKept == ASSUME TypeInv, RecvInv, [Next]_vars PROVE RecvInv'
<1> USE DEF RecvInv
<1>0. jobs \in Seq(Jobs) /\ Len(jobs) \in Nat /\ loop \in [Sockets -> LoopStates]
  BY DEF TypeInv, Types
<1>1. ASSUME UNCHANGED <<loop, jobs, busy>> PROVE RecvInv'
  BY <1>1
<1>2. ASSUME NEW h \in Handlers, NEW s \in Sockets, HandleUdpData(h, s) PROVE RecvInv'
  <2> DEFINE e == Job("send", s, Head(sent[h]).from)
  <2>1. e \in Jobs
    <3>1. sent[h] \in Seq(Packet) /\ sent[h] # <<>>
      BY <1>2 DEF HandleUdpData, TypeInv, Types
    <3>2. Head(sent[h]) \in Packet BY <3>1
    <3> QED BY <3>2 DEF Job, Jobs, Packet
  <2>2. e.kind = "send" BY DEF Job
  <2>3. jobs' = Append(jobs, e) /\ busy' = busy BY <1>2 DEF HandleUdpData
  <2> HIDE DEF e
  <2>4. \A t \in Sockets : loop[t] = "recv" => loop'[t] = "recv"
    <3>1. CASE loop' = loop BY <3>1
    <3>2. CASE s = made + 1 /\ loop' = [loop EXCEPT ![s] = "top"]
      <4>1. loop[s] = "none" BY <3>2, <1>0 DEF TypeInv, Types, PlaceInv
      <4> QED BY <3>2, <4>1, <1>0
    <3> QED BY <1>2, <3>1, <3>2 DEF HandleUdpData, GetOrCreate
  <2>5. \A i \in 1..Len(jobs') : jobs'[i].kind = "recv" => i \in 1..Len(jobs) /\ jobs'[i] = jobs[i]
    BY <1>0, <2>1, <2>2, <2>3, AppendElements
  <2>6. \A i \in 1..Len(jobs) : jobs[i].socket \in Sockets
    BY <1>0 DEF Jobs
  <2>7. busy \subseteq Sockets BY DEF TypeInv, Types
  <2> QED BY <2>3, <2>4, <2>5, <2>6, <2>7
<1>3. ASSUME NEW s \in Sockets, loop[s] # "recv", NEW x, loop' = [loop EXCEPT ![s] = x],
             UNCHANGED <<jobs, busy>>
      PROVE  RecvInv'
  <2>1. \A t \in Sockets : loop[t] = "recv" => loop'[t] = "recv" BY <1>0, <1>3
  <2>2. \A i \in 1..Len(jobs) : jobs[i].socket \in Sockets BY <1>0 DEF Jobs
  <2>3. busy \subseteq Sockets BY DEF TypeInv, Types
  <2> QED BY <1>3, <2>1, <2>2, <2>3
<1>4. ASSUME NEW s \in Sockets, LoopReceives(s) PROVE RecvInv'
  <2> DEFINE e == Job("recv", s, None)
  <2>1. e \in Jobs /\ e.kind = "recv" /\ e.socket = s BY DEF Job, Jobs
  <2>2. /\ jobs' = Append(jobs, e) /\ busy' = busy /\ loop[s] = "top"
        /\ loop' = [loop EXCEPT ![s] = "recv"]
    BY <1>4 DEF LoopReceives
  <2> HIDE DEF e
  <2>3. /\ Len(jobs') = Len(jobs) + 1 /\ jobs'[Len(jobs) + 1] = e
        /\ \A i \in 1..Len(jobs) : jobs'[i] = jobs[i]
    BY <1>0, <2>1, <2>2, AppendElements
  <2>4. \A i \in 1..Len(jobs) : jobs[i].socket \in Sockets BY <1>0 DEF Jobs
  <2>5. \A i \in 1..Len(jobs) : jobs[i].kind = "recv" => jobs[i].socket # s
    BY <2>2
  <2>6. busy \subseteq Sockets /\ s \notin busy BY <2>2 DEF TypeInv, Types
  <2>7. \A t \in busy' : loop'[t] = "recv" BY <1>0, <2>2, <2>6
  <2>8. \A i \in 1..Len(jobs') : jobs'[i].kind = "recv" =>
          loop'[jobs'[i].socket] = "recv" /\ jobs'[i].socket \notin busy'
    <3>1. ASSUME NEW i \in 1..Len(jobs'), jobs'[i].kind = "recv"
          PROVE  loop'[jobs'[i].socket] = "recv" /\ jobs'[i].socket \notin busy'
      <4>1. CASE i = Len(jobs) + 1 BY <1>0, <2>1, <2>2, <2>3, <2>6, <4>1
      <4>2. CASE i \in 1..Len(jobs) BY <1>0, <2>2, <2>3, <2>4, <3>1, <4>2
      <4> QED BY <1>0, <2>3, <4>1, <4>2
    <3> QED BY <3>1
  <2>9. \A i, j \in 1..Len(jobs') :
          /\ jobs'[i].kind = "recv" /\ jobs'[j].kind = "recv"
          /\ jobs'[i].socket = jobs'[j].socket
          => i = j
    <3>1. \A i \in 1..Len(jobs') : i \in 1..Len(jobs) \/ i = Len(jobs) + 1 BY <1>0, <2>3
    <3> QED BY <2>1, <2>3, <2>5, <3>1
  <2> QED BY <2>7, <2>8, <2>9
<1>5. CASE TakeReceive \/ SendTo
  <2>1. jobs # <<>> /\ jobs' = Tail(jobs) /\ loop' = loop
    BY <1>5 DEF TakeReceive, SendTo, FreeThread, socketVars
  <2>2. /\ Len(jobs') = Len(jobs) - 1 /\ Len(jobs) \in Nat \ {0} /\ Head(jobs) = jobs[1]
        /\ \A i \in 1..Len(jobs') : i + 1 \in 1..Len(jobs) /\ jobs'[i] = jobs[i + 1]
    BY <1>0, <2>1, TailElements
  <2>3. \/ busy' = busy
        \/ jobs[1].kind = "recv" /\ busy' = busy \cup {jobs[1].socket}
    BY <1>5, <2>2 DEF TakeReceive, SendTo
  <2>4. 1 \in 1..Len(jobs) /\ \A i \in 1..Len(jobs') : i + 1 # 1 BY <2>2
  <2>5. \A s \in busy' : loop'[s] = "recv" BY <2>1, <2>3, <2>4
  <2>6. \A i \in 1..Len(jobs') : jobs'[i].kind = "recv" =>
          loop'[jobs'[i].socket] = "recv" /\ jobs'[i].socket \notin busy'
    BY <2>1, <2>2, <2>3, <2>4
  <2>7. \A i, j \in 1..Len(jobs') :
          /\ jobs'[i].kind = "recv" /\ jobs'[j].kind = "recv"
          /\ jobs'[i].socket = jobs'[j].socket
          => i = j
    <3>1. ASSUME NEW i \in 1..Len(jobs'), NEW j \in 1..Len(jobs'),
                 jobs'[i].kind = "recv", jobs'[j].kind = "recv",
                 jobs'[i].socket = jobs'[j].socket
          PROVE  i = j
      <4>1. i + 1 = j + 1 BY <2>2, <3>1
      <4> QED BY <4>1
    <3> QED BY <3>1
  <2> QED BY <2>5, <2>6, <2>7
<1>6. ASSUME NEW s \in busy, NEW x, loop' = [loop EXCEPT ![s] = x], busy' = busy \ {s},
             UNCHANGED jobs
      PROVE  RecvInv'
  <2>1. \A t \in Sockets : t # s => loop'[t] = loop[t] BY <1>0, <1>6
  <2>2. \A i \in 1..Len(jobs) : jobs[i].socket \in Sockets BY <1>0 DEF Jobs
  <2>3. busy \subseteq Sockets BY DEF TypeInv, Types
  <2> QED BY <1>6, <2>1, <2>2, <2>3
<1>7. ASSUME NEW s \in Sockets, LoopEnds(s) \/ LoopForwards(s) PROVE RecvInv'
  BY <1>3, <1>7 DEF LoopEnds, FinallyRuns, LoopForwards
<1>8. ASSUME NEW s \in Sockets, Receives(s) \/ ReceivesNothing(s) PROVE RecvInv'
  BY <1>6, <1>8 DEF Receives, ReceivesNothing
<1>9. ASSUME NEW a \in Clients, NEW c \in Conns, LocalPacket(a, c) PROVE RecvInv'
  BY <1>1, <1>9 DEF LocalPacket, socketVars
<1>10. ASSUME NEW h \in Handlers, Deliver(h) \/ Lose(h) \/ OnClose(h) PROVE RecvInv'
  BY <1>1, <1>10 DEF Deliver, Lose, OnClose, socketVars
<1>11. CASE UNCHANGED vars BY <1>1, <1>11 DEF vars, socketVars
<1>12. ASSUME NEW c \in Conns, Expire(c) PROVE RecvInv'
  BY <1>1, <1>12 DEF Expire, socketVars
<1> HIDE DEF RecvInv
<1> QED BY <1>2, <1>4, <1>5, <1>7, <1>8, <1>9, <1>10, <1>11, <1>12 DEF Next, Loop

-----------------------------------------------------------------------------
\* A receive loop that goes on without being in udp_sessions belongs to a handler
\* that is closed, since only the loop itself takes its session out before that; if
\* there is another session in its place, it is a later one.
RunningInv ==
  \A s \in 1..made : loop[s] # "done" /\ filed[place[s][1]][place[s][2]] # s =>
    /\ link[place[s][1]] = "closed"
    /\ filed[place[s][1]][place[s][2]] # 0 => s < filed[place[s][1]][place[s][2]]

SocketInv == TypeInv /\ RecvInv /\ RunningInv /\ SessionIsServed /\ OpenSocketIsFiled

\* What follows from SocketInv when neither dictionary nor sockets change.
LEMMA SocketsUntouched ==
  ASSUME SocketInv, UNCHANGED <<filed, made, place, open>>,
         \A s \in Sockets : loop'[s] = "done" <=> loop[s] = "done",
         \A h \in Handlers : link[h] = "closed" => link'[h] = "closed",
         TypeInv'
  PROVE  RunningInv' /\ SessionIsServed' /\ OpenSocketIsFiled'
<1> USE DEF SocketInv
<1>1. made \in Nat /\ 1..made \subseteq Sockets /\ open \subseteq 1..made
  BY UdpAssumption DEF TypeInv, Types, Sockets
<1>2. \A s \in 1..made : place[s][1] \in Handlers /\ place[s][2] \in Conns
  BY DEF TypeInv, PlaceInv
<1>3. RunningInv' BY <1>1, <1>2 DEF RunningInv
<1>4. SessionIsServed'
  BY <1>1 DEF SessionIsServed, HasSession, TypeInv, PlaceInv
<1>5. OpenSocketIsFiled'
  <2>1. ASSUME NEW s \in open, filed[place[s][1]][place[s][2]] # s
        PROVE  /\ link'[place[s][1]] = "closed"
               /\ \E old \in 1..s-1 : place[old] = place[s] /\ loop'[old] = "done"
    <3>1. PICK old \in 1..s-1 : place[old] = place[s] /\ loop[old] = "done"
      BY <2>1 DEF OpenSocketIsFiled
    <3>2. old \in Sockets BY <1>1
    <3> QED BY <1>1, <1>2, <2>1, <3>1, <3>2 DEF OpenSocketIsFiled
  <2> QED BY <2>1 DEF OpenSocketIsFiled
<1> QED BY <1>3, <1>4, <1>5

LEMMA InitSocket == Init => SocketInv
<1> SUFFICES ASSUME Init PROVE SocketInv OBVIOUS
<1>1. made = 0 /\ open = {} /\ \A h \in Handlers, c \in Conns : filed[h][c] = 0 BY DEF Init
<1>2. RunningInv BY <1>1 DEF RunningInv
<1> QED BY <1>1, <1>2, InitTypes, InitRecv DEF SocketInv, SessionIsServed, HasSession, OpenSocketIsFiled

LEMMA SocketKept == ASSUME SocketInv, [Next]_vars PROVE SocketInv'
<1>0. /\ TypeInv' /\ RecvInv'
      /\ made \in Nat /\ 1..made \subseteq Sockets /\ open \subseteq 1..made
      /\ \A s \in 1..made : place[s][1] \in Handlers /\ place[s][2] \in Conns
      /\ loop \in [Sockets -> LoopStates]
      /\ filed \in [Handlers -> [Conns -> Sockets \cup {0}]]
  <2>1. TypeInv' /\ RecvInv' BY TypesKept, RecvKept DEF SocketInv
  <2>2. /\ made \in Nat /\ 1..made \subseteq Sockets /\ open \subseteq 1..made
        /\ loop \in [Sockets -> LoopStates]
        /\ filed \in [Handlers -> [Conns -> Sockets \cup {0}]]
    BY UdpAssumption DEF SocketInv, TypeInv, Types, Sockets
  <2>3. \A s \in 1..made : place[s][1] \in Handlers /\ place[s][2] \in Conns
    BY DEF SocketInv, TypeInv, PlaceInv
  <2> QED BY <2>1, <2>2, <2>3
<1> DEFINE Goal == RunningInv' /\ SessionIsServed' /\ OpenSocketIsFiled'
<1>1. ASSUME NEW a \in Clients, NEW c \in Conns, LocalPacket(a, c) PROVE Goal
  BY <1>0, <1>1, SocketsUntouched DEF LocalPacket, socketVars
<1>2. ASSUME NEW c \in Conns, Expire(c) PROVE Goal
  BY <1>0, <1>2, SocketsUntouched DEF Expire, socketVars, wireVars
<1>3. ASSUME NEW h \in Handlers, Deliver(h) PROVE Goal
  BY <1>0, <1>3, SocketsUntouched DEF Deliver, socketVars
<1>4. ASSUME NEW h \in Handlers, Lose(h) PROVE Goal
  <2>1. \A k \in Handlers : link[k] = "closed" => link'[k] = "closed"
    BY <1>4 DEF Lose, SocketInv, TypeInv, Types
  <2> QED BY <1>0, <1>4, <2>1, SocketsUntouched DEF Lose, socketVars
<1>5. ASSUME NEW h \in Handlers, OnClose(h) PROVE Goal
  <2>1. /\ UNCHANGED <<made, place, loop>> /\ link' = [link EXCEPT ![h] = "closed"]
        /\ open' = open \ {filed[h][c] : c \in Conns}
        /\ filed' = [filed EXCEPT ![h] = [c \in Conns |-> 0]]
    BY <1>5 DEF OnClose
  <2>2. \A k \in Handlers : link'[k] = IF k = h THEN "closed" ELSE link[k]
    BY <2>1 DEF SocketInv, TypeInv, Types
  <2>3. \A k \in Handlers, c \in Conns : filed'[k][c] = IF k = h THEN 0 ELSE filed[k][c]
    BY <1>0, <2>1
  <2>4. RunningInv' BY <1>0, <2>1, <2>2, <2>3 DEF RunningInv, SocketInv
  <2>5. SessionIsServed'
    <3>1. ASSUME NEW k \in Handlers, NEW c \in Conns, filed'[k][c] # 0
          PROVE  filed'[k][c] \in open' /\ loop'[filed'[k][c]] # "done"
      <4>1. k # h /\ filed'[k][c] = filed[k][c] BY <2>3, <3>1
      <4>2. filed[k][c] \in open /\ loop[filed[k][c]] # "done" /\ place[filed[k][c]] = <<k, c>>
        BY <3>1, <4>1 DEF SocketInv, SessionIsServed, HasSession, TypeInv, PlaceInv
      <4>3. \A d \in Conns : filed[h][d] # filed[k][c]
        BY <3>1, <4>1, <4>2 DEF SocketInv, TypeInv, PlaceInv
      <4> QED BY <2>1, <4>1, <4>2, <4>3
    <3> QED BY <3>1 DEF SessionIsServed, HasSession
  <2>6. OpenSocketIsFiled'
    <3>1. ASSUME NEW s \in open', filed'[place'[s][1]][place'[s][2]] # s
          PROVE  /\ link'[place'[s][1]] = "closed"
                 /\ \E old \in 1..s-1 : place'[old] = place'[s] /\ loop'[old] = "done"
      <4>1. s \in open /\ \A c \in Conns : filed[h][c] # s BY <2>1
      <4>2. filed[place[s][1]][place[s][2]] # s BY <1>0, <2>1, <2>3, <3>1, <4>1
      <4> QED BY <1>0, <2>1, <2>2, <4>1, <4>2 DEF SocketInv, OpenSocketIsFiled
    <3> QED BY <3>1 DEF OpenSocketIsFiled
  <2> QED BY <2>4, <2>5, <2>6
<1>6. ASSUME NEW h \in Handlers, NEW s \in Sockets, HandleUdpData(h, s) PROVE Goal
  <2> DEFINE c == Head(sent[h]).conn
  <2>0. link' = link /\ GetOrCreate(h, c, s) BY <1>6 DEF HandleUdpData
  <2>1. c \in Conns
    <3>1. sent[h] \in Seq(Packet) /\ sent[h] # <<>>
      BY <1>6 DEF HandleUdpData, SocketInv, TypeInv, Types
    <3>2. Head(sent[h]) \in Packet BY <3>1
    <3> QED BY <3>2 DEF Packet
  <2> HIDE DEF c
  <2>2. CASE HasSession(h, c)
    BY <1>0, <2>0, <2>2, SocketsUntouched DEF GetOrCreate
  <2>3. CASE ~HasSession(h, c)
    <3>1. /\ s = made + 1 /\ made' = s /\ place' = [place EXCEPT ![s] = <<h, c>>]
          /\ open' = open \cup {s} /\ filed' = [filed EXCEPT ![h][c] = s]
          /\ loop' = [loop EXCEPT ![s] = "top"] /\ filed[h][c] = 0
      BY <2>0, <2>3 DEF GetOrCreate, HasSession
    <3>2. /\ filed'[h][c] = s
          /\ \A k \in Handlers, d \in Conns : k # h \/ d # c => filed'[k][d] = filed[k][d]
      BY <1>0, <2>1, <3>1, Refile
    <3>3. /\ place'[s] = <<h, c>> /\ loop'[s] = "top"
          /\ \A t \in 1..made : t # s /\ place'[t] = place[t] /\ loop'[t] = loop[t]
      BY <1>0, <3>1 DEF SocketInv, TypeInv, Types
    <3>4. RunningInv'
      <4>1. ASSUME NEW t \in 1..made', loop'[t] # "done",
                   filed'[place'[t][1]][place'[t][2]] # t
            PROVE  /\ link'[place'[t][1]] = "closed"
                   /\ filed'[place'[t][1]][place'[t][2]] # 0 =>
                        t < filed'[place'[t][1]][place'[t][2]]
        <5>1. t # s BY <3>2, <3>3, <4>1
        <5>2. t \in 1..made BY <1>0, <3>1, <5>1
        <5>3. filed[place[t][1]][place[t][2]] # t
          BY <1>0, <3>1, <3>2, <3>3, <4>1, <5>2
        <5>4. filed'[place[t][1]][place[t][2]] \in {s, filed[place[t][1]][place[t][2]]}
          BY <1>0, <3>2, <5>2
        <5>5. t < s BY <1>0, <3>1, <5>2
        <5> QED BY <2>0, <3>3, <4>1, <5>2, <5>3, <5>4, <5>5 DEF SocketInv, RunningInv
      <4> QED BY <4>1 DEF RunningInv
    <3>5. SessionIsServed'
      <4>1. ASSUME NEW k \in Handlers, NEW d \in Conns, filed'[k][d] # 0
            PROVE  filed'[k][d] \in open' /\ loop'[filed'[k][d]] # "done"
        <5>1. CASE k = h /\ d = c BY <3>1, <3>2, <3>3, <5>1
        <5>2. CASE k # h \/ d # c
          <6>1. filed'[k][d] = filed[k][d] BY <3>2, <5>2
          <6>2. filed[k][d] \in open /\ loop[filed[k][d]] # "done"
            BY <4>1, <6>1 DEF SocketInv, SessionIsServed, HasSession
          <6> QED BY <1>0, <3>1, <3>3, <6>1, <6>2
        <5> QED BY <5>1, <5>2
      <4> QED BY <4>1 DEF SessionIsServed, HasSession
    <3>6. OpenSocketIsFiled'
      <4>1. ASSUME NEW t \in open', filed'[place'[t][1]][place'[t][2]] # t
            PROVE  /\ link'[place'[t][1]] = "closed"
                   /\ \E old \in 1..t-1 : place'[old] = place'[t] /\ loop'[old] = "done"
        <5>1. t \in open /\ t \in 1..made BY <1>0, <3>1, <3>2, <3>3, <4>1
        <5>2. filed[place[t][1]][place[t][2]] # t
          BY <1>0, <3>1, <3>2, <3>3, <4>1, <5>1
        <5>3. PICK old \in 1..t-1 : place[old] = place[t] /\ loop[old] = "done"
          BY <5>1, <5>2 DEF SocketInv, OpenSocketIsFiled
        <5>4. old \in 1..made BY <1>0, <5>1
        <5> QED BY <2>0, <3>3, <5>1, <5>2, <5>3, <5>4 DEF SocketInv, OpenSocketIsFiled
      <4> QED BY <4>1 DEF OpenSocketIsFiled
    <3> QED BY <3>4, <3>5, <3>6
  <2> QED BY <2>2, <2>3
<1>7. ASSUME NEW s \in Sockets, LoopEnds(s) PROVE Goal
  <2> DEFINE h == place[s][1]  c == place[s][2]
  <2>1. /\ loop' = [loop EXCEPT ![s] = "done"] /\ loop[s] # "none" /\ loop[s] # "done"
        /\ UNCHANGED <<link, made, place>>
        /\ IF filed[h][c] # 0
           THEN open' = open \ {s} /\ filed' = [filed EXCEPT ![h][c] = 0]
           ELSE UNCHANGED <<open, filed>>
    BY <1>7 DEF LoopEnds, FinallyRuns, wireVars
  <2>2. s \in 1..made /\ h \in Handlers /\ c \in Conns /\ place[s] = <<h, c>>
    <3>1. s <= made BY <2>1 DEF SocketInv, TypeInv, PlaceInv
    <3>2. s \in 1..made BY <1>0, <3>1 DEF Sockets
    <3> QED BY <3>2 DEF SocketInv, TypeInv, PlaceInv
  <2>3. loop'[s] = "done" /\ \A t \in Sockets : t # s => loop'[t] = loop[t]
    BY <1>0, <2>1
  <2> HIDE DEF h, c
  <2>4. /\ filed'[h][c] = 0
        /\ \A k \in Handlers, d \in Conns : k # h \/ d # c => filed'[k][d] = filed[k][d]
    BY <1>0, <2>1, <2>2, Refile
  <2>5. filed[h][c] \notin {0, s} => link[h] = "closed" /\ s < filed[h][c]
    BY <2>1, <2>2 DEF SocketInv, RunningInv, h, c
  <2>6. RunningInv'
    <3>1. ASSUME NEW t \in 1..made, loop'[t] # "done", filed'[place[t][1]][place[t][2]] # t
          PROVE  /\ link[place[t][1]] = "closed"
                 /\ filed'[place[t][1]][place[t][2]] # 0 =>
                      t < filed'[place[t][1]][place[t][2]]
      <4>1. t # s /\ loop[t] # "done" BY <1>0, <2>3, <3>1
      <4>2. CASE place[t] = <<h, c>>
        <5>1. CASE filed[h][c] = t BY <2>2, <2>4, <2>5, <4>1, <4>2, <5>1, <1>0
        <5>2. CASE filed[h][c] # t
          BY <2>2, <2>4, <3>1, <4>1, <4>2, <5>2 DEF SocketInv, RunningInv
        <5> QED BY <5>1, <5>2
      <4>3. CASE place[t] # <<h, c>>
        <5>1. place[t][1] # h \/ place[t][2] # c
          BY <1>0, <4>3 DEF SocketInv, TypeInv, PlaceInv
        <5>2. filed'[place[t][1]][place[t][2]] = filed[place[t][1]][place[t][2]]
          BY <1>0, <2>4, <5>1
        <5> QED BY <3>1, <4>1, <5>2 DEF SocketInv, RunningInv
      <4> QED BY <4>2, <4>3
    <3> QED BY <2>1, <3>1 DEF RunningInv
  <2>7. SessionIsServed'
    <3>1. ASSUME NEW k \in Handlers, NEW d \in Conns, filed'[k][d] # 0
          PROVE  filed'[k][d] \in open' /\ loop'[filed'[k][d]] # "done"
      <4>1. (k # h \/ d # c) /\ filed'[k][d] = filed[k][d] BY <2>4, <3>1
      <4>2. /\ filed[k][d] \in open /\ loop[filed[k][d]] # "done"
            /\ place[filed[k][d]] = <<k, d>> /\ filed[k][d] \in Sockets
        BY <1>0, <3>1, <4>1 DEF SocketInv, SessionIsServed, HasSession, TypeInv, PlaceInv
      <4>3. filed[k][d] # s BY <2>2, <4>1, <4>2
      <4> QED BY <2>1, <2>3, <4>1, <4>2, <4>3
    <3> QED BY <3>1 DEF SessionIsServed, HasSession
  <2>8. OpenSocketIsFiled'
    <3>1. ASSUME NEW t \in open', filed'[place[t][1]][place[t][2]] # t
          PROVE  /\ link[place[t][1]] = "closed"
                 /\ \E old \in 1..t-1 : place[old] = place[t] /\ loop'[old] = "done"
      <4>1. t \in open /\ t \in 1..made BY <1>0, <2>1
      <4>2. CASE filed[place[t][1]][place[t][2]] # t
        <5>1. PICK old \in 1..t-1 : place[old] = place[t] /\ loop[old] = "done"
          BY <4>1, <4>2 DEF SocketInv, OpenSocketIsFiled
        <5>2. old \in Sockets /\ loop'[old] = "done" BY <1>0, <2>3, <4>1, <5>1
        <5> QED BY <4>1, <4>2, <5>1, <5>2 DEF SocketInv, OpenSocketIsFiled
      <4>3. CASE filed[place[t][1]][place[t][2]] = t
        <5>1. place[t][1] = h /\ place[t][2] = c BY <1>0, <2>4, <3>1, <4>1, <4>3
        <5>2. place[t] = <<h, c>> BY <4>1, <5>1 DEF SocketInv, TypeInv, PlaceInv
        <5>3. filed[h][c] = t /\ t # 0 BY <1>0, <4>1, <4>3, <5>1
        <5>4. t # s BY <2>1, <3>1, <5>3
        <5>5. link[h] = "closed" /\ s \in 1..t-1 BY <1>0, <2>2, <2>5, <4>1, <5>3, <5>4
        <5> QED BY <2>2, <2>3, <5>1, <5>2, <5>5
      <4> QED BY <4>2, <4>3
    <3> QED BY <2>1, <3>1 DEF OpenSocketIsFiled
  <2> QED BY <2>6, <2>7, <2>8
<1>8. ASSUME NEW s \in Sockets, LoopReceives(s) PROVE Goal
  <2>1. loop[s] = "top" /\ loop' = [loop EXCEPT ![s] = "recv"] BY <1>8 DEF LoopReceives
  <2>2. \A t \in Sockets : loop'[t] = "done" <=> loop[t] = "done" BY <1>0, <2>1
  <2> QED BY <1>0, <1>8, <2>2, SocketsUntouched DEF LoopReceives, wireVars
<1>9. ASSUME NEW s \in Sockets, LoopForwards(s) PROVE Goal
  <2>1. loop[s] = "data" /\ loop' = [loop EXCEPT ![s] = "top"] BY <1>9 DEF LoopForwards
  <2>2. \A t \in Sockets : loop'[t] = "done" <=> loop[t] = "done" BY <1>0, <2>1
  <2> QED BY <1>0, <1>9, <2>2, SocketsUntouched DEF LoopForwards
<1>10. ASSUME TakeReceive PROVE Goal
  BY <1>0, <1>10, SocketsUntouched DEF TakeReceive, wireVars, socketVars
<1>11. ASSUME SendTo PROVE Goal
  BY <1>0, <1>11, SocketsUntouched DEF SendTo, wireVars
<1>12. ASSUME NEW s \in Sockets, Receives(s) \/ ReceivesNothing(s) PROVE Goal
  <2>1. loop[s] = "recv" BY <1>12 DEF Receives, ReceivesNothing, SocketInv, RecvInv
  <2>2. \/ loop' = [loop EXCEPT ![s] = "data"]
        \/ loop' = [loop EXCEPT ![s] = "empty"]
    BY <1>12 DEF Receives, ReceivesNothing
  <2>3. \A t \in Sockets : loop'[t] = "done" <=> loop[t] = "done" BY <1>0, <2>1, <2>2
  <2>4. UNCHANGED <<filed, made, place, open, link>>
    BY <1>12 DEF Receives, ReceivesNothing, wireVars
  <2> QED BY <1>0, <2>3, <2>4, SocketsUntouched
<1>13. ASSUME UNCHANGED vars PROVE Goal
  BY <1>0, <1>13, SocketsUntouched DEF vars, wireVars, socketVars
<1>14. Goal
  BY <1>1, <1>2, <1>3, <1>4, <1>5, <1>6, <1>7, <1>8, <1>9, <1>10, <1>11, <1>12, <1>13
     DEF Next, Loop
<1> QED BY <1>0, <1>14 DEF SocketInv

LEMMA SocketInvariant == Spec => []SocketInv
BY InitSocket, SocketKept, PTL DEF Spec

-----------------------------------------------------------------------------
\* Whatever packets, time-outs and losses come in between, handle_udp_data finds
\* in udp_sessions only sockets that are open and whose receive loop goes on.
THEOREM SessionsAreServed == Spec => []SessionIsServed
<1>1. SocketInv => SessionIsServed BY DEF SocketInv
<1> QED BY <1>1, SocketInvariant, PTL

\* No session has two sockets, and a socket is forgotten only by the loop of an
\* earlier session that on_close had removed.
THEOREM SocketsAreFiled == Spec => []OpenSocketIsFiled
<1>1. SocketInv => OpenSocketIsFiled BY DEF SocketInv
<1> QED BY <1>1, SocketInvariant, PTL

-----------------------------------------------------------------------------
\* Every conn_id is drawn for one local client, its user, which it keeps after its
\* session has expired.  Whatever is on its way, sent, or received for a conn_id is
\* its user's.
SessionPart(user) ==
  \A c \in Conns : session[c] \in {None, user[c]} /\ (c > drawn => user[c] = None)
SentPart(user) ==
  \A h \in Handlers : \A i \in 1..Len(sent[h]) : sent[h][i].from = user[sent[h][i].conn]
JobsPart(user) ==
  \A i \in 1..Len(jobs) : jobs[i].kind = "send" =>
    jobs[i].socket <= made /\ jobs[i].from = user[place[jobs[i].socket][2]]
CarriedPart(user) ==
  \A s \in Sockets : \A a \in carried[s] : s <= made /\ a = user[place[s][2]]
DownPart ==
  \A h \in Handlers : \A i \in 1..Len(down[h]) :
    down[h][i].socket <= made /\ place[down[h][i].socket][2] = down[h][i].conn
GotPart(user) == \A d \in got : d[2] <= made /\ d[1] = user[place[d[2]][2]]

OwnedBy(user) ==
  /\ SessionPart(user) /\ SentPart(user) /\ JobsPart(user)
  /\ CarriedPart(user) /\ DownPart /\ GotPart(user)
Users == [Conns -> Clients \cup {None}]
OwnerInv == \E user \in Users : OwnedBy(user)

\* The types of the parts.
LEMMA OwnerFacts ==
  ASSUME TypeInv
  PROVE  /\ \A h \in Handlers : sent[h] \in Seq(Packet) /\ Len(sent[h]) \in Nat
         /\ \A h \in Handlers : \A i \in 1..Len(sent[h]) :
              sent[h][i].from \in Clients /\ sent[h][i].conn \in Conns
         /\ \A h \in Handlers : down[h] \in Seq(Answer) /\ Len(down[h]) \in Nat
         /\ \A h \in Handlers : \A i \in 1..Len(down[h]) :
              down[h][i].socket \in Sockets /\ down[h][i].conn \in Conns
         /\ jobs \in Seq(Jobs) /\ Len(jobs) \in Nat
         /\ \A i \in 1..Len(jobs) : jobs[i].socket \in Sockets
         /\ \A i \in 1..Len(jobs) : jobs[i].kind = "send" => jobs[i].from \in Clients
         /\ \A s \in Sockets : s <= made => s \in 1..made /\ place[s] \in Handlers \X Conns
         /\ made \in Nat /\ drawn \in Nat /\ Conns \subseteq Nat /\ Sockets \subseteq Nat
         /\ None \notin Clients
<1> USE DEF TypeInv, Types
<1>1. \A h \in Handlers : \A i \in 1..Len(sent[h]) :
        sent[h][i].from \in Clients /\ sent[h][i].conn \in Conns
  <2> TAKE h \in Handlers
  <2> TAKE i \in 1..Len(sent[h])
  <2>1. sent[h][i] \in Packet OBVIOUS
  <2> QED BY <2>1 DEF Packet
<1>2. \A h \in Handlers : \A i \in 1..Len(down[h]) :
        down[h][i].socket \in Sockets /\ down[h][i].conn \in Conns
  <2> TAKE h \in Handlers
  <2> TAKE i \in 1..Len(down[h])
  <2>1. down[h][i] \in Answer OBVIOUS
  <2> QED BY <2>1 DEF Answer
<1>3. \A i \in 1..Len(jobs) :
        jobs[i].socket \in Sockets /\ (jobs[i].kind = "send" => jobs[i].from \in Clients)
  <2> TAKE i \in 1..Len(jobs)
  <2>1. jobs[i] \in Jobs OBVIOUS
  <2> QED BY <2>1 DEF Jobs
<1>4. made \in Nat /\ Conns \subseteq Nat /\ Sockets \subseteq Nat /\ None \notin Clients
  BY UdpAssumption DEF Conns, Sockets
<1>5. \A s \in Sockets : s <= made => s \in 1..made /\ place[s] \in Handlers \X Conns
  BY <1>4 DEF Sockets, PlaceInv
<1>6. /\ \A h \in Handlers : sent[h] \in Seq(Packet) /\ Len(sent[h]) \in Nat
      /\ \A h \in Handlers : down[h] \in Seq(Answer) /\ Len(down[h]) \in Nat
      /\ jobs \in Seq(Jobs) /\ Len(jobs) \in Nat /\ drawn \in Nat
  OBVIOUS
<1> QED BY <1>1, <1>2, <1>3, <1>4, <1>5, <1>6

\* The parts when what they are about does not change.
LEMMA OwnerStill ==
  ASSUME NEW user \in Users, OwnedBy(user)
  PROVE  /\ (UNCHANGED <<session, drawn>>) => SessionPart(user)'
         /\ sent' = sent => SentPart(user)'
         /\ (UNCHANGED <<jobs, made, place>>) => JobsPart(user)'
         /\ (UNCHANGED <<carried, made, place>>) => CarriedPart(user)'
         /\ (UNCHANGED <<down, made, place>>) => DownPart'
         /\ (UNCHANGED <<got, made, place>>) => GotPart(user)'
BY DEF OwnedBy, SessionPart, SentPart, JobsPart, CarriedPart, DownPart, GotPart

\* A local packet: its session is that of its client, or has a new conn_id.
LEMMA LocalPacketOwned ==
  ASSUME TypeInv, NEW user \in Users, OwnedBy(user),
         NEW a \in Clients, NEW c \in Conns, LocalPacket(a, c)
  PROVE  OwnerInv'
<1> DEFINE u == [user EXCEPT ![c] = a]
<1>0. a # None /\ drawn \in Nat /\ c \in Nat BY OwnerFacts
<1>1. user[c] \in {None, a}
  <2>1. session[c] = a \/ c = drawn + 1
    BY DEF LocalPacket, FindOrCreate, SessionsOf
  <2>2. CASE session[c] = a BY <1>0, <2>2 DEF OwnedBy, SessionPart
  <2>3. CASE c = drawn + 1 BY <1>0, <2>3 DEF OwnedBy, SessionPart
  <2> QED BY <2>1, <2>2, <2>3
<1>2. u \in Users /\ u[c] = a /\ \A d \in Conns : d # c => u[d] = user[d] BY DEF Users
<1>3. \A d \in Conns, x \in Clients : x = user[d] => x = u[d]
  BY <1>1, <1>2, OwnerFacts
<1> HIDE DEF u
<1>4. SessionPart(u)'
  <2>1. drawn' = Max({drawn, c}) /\ session' = [session EXCEPT ![c] = a] BY DEF LocalPacket
  <2>2. drawn' \in Nat /\ drawn' >= drawn /\ drawn' >= c BY <1>0, <2>1, MaxOfTwo
  <2>3. session'[c] = a /\ \A d \in Conns : d # c => session'[d] = session[d]
    BY <2>1 DEF TypeInv, Types
  <2>4. \A d \in Conns : session[d] \in {None, user[d]} /\ (d > drawn => user[d] = None)
    BY DEF OwnedBy, SessionPart
  <2>5. ASSUME NEW d \in Conns PROVE session'[d] \in {None, u[d]} /\ (d > drawn' => u[d] = None)
    <3>1. CASE d = c BY <1>0, <1>2, <2>2, <2>3, <3>1
    <3>2. CASE d # c
      <4>1. d \in Nat BY OwnerFacts
      <4> QED BY <1>0, <1>2, <2>2, <2>3, <2>4, <3>2, <4>1
    <3> QED BY <3>1, <3>2
  <2> QED BY <2>5 DEF SessionPart
<1>5. SentPart(u)'
  <2>1. SentPart(u)
    <3> SUFFICES ASSUME NEW h \in Handlers, NEW i \in 1..Len(sent[h])
                 PROVE  sent[h][i].from = u[sent[h][i].conn]
      BY DEF SentPart
    <3>1. sent[h][i].from = user[sent[h][i].conn] BY DEF OwnedBy, SentPart
    <3> QED BY <1>3, <3>1, OwnerFacts
  <2>2. CASE UNCHANGED sent BY <2>1, <2>2 DEF SentPart
  <2>3. ASSUME NEW h \in Handlers, sent' = [sent EXCEPT ![h] = Append(@, [conn |-> c, from |-> a])]
        PROVE  SentPart(u)'
    <3> DEFINE p == [conn |-> c, from |-> a]
    <3>1. p \in Packet /\ p.conn = c /\ p.from = a BY DEF Packet
    <3>2. sent'[h] = Append(sent[h], p) /\ \A k \in Handlers : k # h => sent'[k] = sent[k]
      BY <2>3 DEF TypeInv, Types
    <3> HIDE DEF p
    <3>3. /\ Len(sent'[h]) = Len(sent[h]) + 1 /\ Len(sent[h]) \in Nat
          /\ \A i \in 1..Len(sent[h]) : sent'[h][i] = sent[h][i]
          /\ sent'[h][Len(sent[h]) + 1] = p
      BY <3>1, <3>2, OwnerFacts, AppendElements
    <3>4. ASSUME NEW k \in Handlers, NEW i \in 1..Len(sent'[k])
          PROVE  sent'[k][i].from = u[sent'[k][i].conn]
      <4>1. CASE k # h BY <2>1, <3>2, <4>1 DEF SentPart
      <4>2. CASE k = h /\ i \in 1..Len(sent[h]) BY <2>1, <3>3, <4>2 DEF SentPart
      <4>3. CASE k = h /\ i = Len(sent[h]) + 1 BY <1>2, <3>1, <3>3, <4>3
      <4> QED BY <3>3, <4>1, <4>2, <4>3
    <3> QED BY <3>4 DEF SentPart
  <2> QED BY <2>2, <2>3 DEF LocalPacket
<1>6. UNCHANGED <<jobs, made, place, carried, down, got>> BY DEF LocalPacket, socketVars
<1>7. JobsPart(u)'
  <2> SUFFICES ASSUME NEW i \in 1..Len(jobs), jobs[i].kind = "send"
               PROVE  jobs[i].socket <= made /\ jobs[i].from = u[place[jobs[i].socket][2]]
    BY <1>6 DEF JobsPart
  <2>1. jobs[i].socket <= made /\ jobs[i].from = user[place[jobs[i].socket][2]]
    BY DEF OwnedBy, JobsPart
  <2>2. place[jobs[i].socket][2] \in Conns /\ jobs[i].from \in Clients BY <2>1, OwnerFacts
  <2> QED BY <1>3, <2>1, <2>2
<1>8. CarriedPart(u)'
  <2> SUFFICES ASSUME NEW s \in Sockets, NEW x \in carried[s]
               PROVE  s <= made /\ x = u[place[s][2]]
    BY <1>6 DEF CarriedPart
  <2>1. s <= made /\ x = user[place[s][2]] BY DEF OwnedBy, CarriedPart
  <2>2. place[s][2] \in Conns /\ x \in Clients BY <2>1, OwnerFacts DEF TypeInv, Types
  <2> QED BY <1>3, <2>1, <2>2
<1>9. GotPart(u)'
  <2> SUFFICES ASSUME NEW d \in got PROVE d[2] <= made /\ d[1] = u[place[d[2]][2]]
    BY <1>6 DEF GotPart
  <2>1. d[2] <= made /\ d[1] = user[place[d[2]][2]] BY DEF OwnedBy, GotPart
  <2>2. d[1] \in Clients /\ d[2] \in Sockets BY DEF TypeInv, Types
  <2>3. place[d[2]][2] \in Conns BY <2>1, <2>2, OwnerFacts
  <2> QED BY <1>3, <2>1, <2>2, <2>3
<1>10. DownPart' BY <1>6, OwnerStill
<1>11. OwnedBy(u)' BY <1>4, <1>5, <1>7, <1>8, <1>9, <1>10 DEF OwnedBy
<1>12. Users' = Users BY DEF Users
<1> QED BY <1>2, <1>11 DEF OwnerInv

\* A call leaves the queue of the executor.
LEMMA JobTaken ==
  ASSUME TypeInv, NEW user \in Users, JobsPart(user), jobs # <<>>, jobs' = Tail(jobs),
         UNCHANGED <<made, place>>
  PROVE  JobsPart(user)'
<1>1. \A i \in 1..Len(jobs') : i + 1 \in 1..Len(jobs) /\ jobs'[i] = jobs[i + 1]
  BY OwnerFacts, TailElements
<1> QED BY <1>1 DEF JobsPart

\* handle_udp_data: the packet goes to a socket of its conn_id.
LEMMA HandleUdpDataOwned ==
  ASSUME TypeInv, NEW user \in Users, OwnedBy(user),
         NEW h \in Handlers, NEW s \in Sockets, HandleUdpData(h, s)
  PROVE  OwnedBy(user)'
<1> DEFINE p == Head(sent[h])
<1>1. /\ sent[h] # <<>> /\ GetOrCreate(h, p.conn, s) /\ jobs' = Append(jobs, Job("send", s, p.from))
      /\ sent' = [sent EXCEPT ![h] = Tail(@)]
      /\ UNCHANGED <<session, drawn, got, down, carried>>
  BY DEF HandleUdpData, clientVars
<1>2. /\ p = sent[h][1] /\ 1 \in 1..Len(sent[h])
      /\ \A i \in 1..Len(Tail(sent[h])) : i + 1 \in 1..Len(sent[h]) /\ Tail(sent[h])[i] = sent[h][i + 1]
  BY <1>1, OwnerFacts, TailElements
<1>3. p.conn \in Conns /\ p.from \in Clients /\ p.from = user[p.conn]
  BY <1>2, OwnerFacts DEF OwnedBy, SentPart
<1> HIDE DEF p
<1>4. made' \in Nat /\ made <= made' /\ s <= made' /\ place'[s][2] = p.conn
      /\ \A t \in Sockets : t <= made => t <= made' /\ place'[t] = place[t]
  <2>0. /\ made \in Nat /\ Sockets \subseteq Nat /\ place \in [Sockets -> (Handlers \X Conns) \cup {None}]
    BY OwnerFacts DEF TypeInv, Types
  <2>1. CASE HasSession(h, p.conn)
    <3>1. s = filed[h][p.conn] /\ s # 0 /\ UNCHANGED <<made, place>>
      BY <1>1, <2>1 DEF GetOrCreate, HasSession
    <3>2. s <= made /\ place[s] = <<h, p.conn>>
      BY <1>3, <3>1, <2>0 DEF TypeInv, PlaceInv
    <3> QED BY <2>0, <3>1, <3>2
  <2>2. CASE ~HasSession(h, p.conn)
    <3>1. s = made + 1 /\ made' = s /\ place' = [place EXCEPT ![s] = <<h, p.conn>>]
      BY <1>1, <2>2 DEF GetOrCreate
    <3> QED BY <2>0, <3>1
  <2> QED BY <2>1, <2>2
<1>5. SessionPart(user)' BY <1>1, OwnerStill
<1>6. SentPart(user)'
  <2>1. sent'[h] = Tail(sent[h]) /\ \A k \in Handlers : k # h => sent'[k] = sent[k]
    BY <1>1 DEF TypeInv, Types
  <2>2. ASSUME NEW k \in Handlers, NEW i \in 1..Len(sent'[k])
        PROVE  sent'[k][i].from = user[sent'[k][i].conn]
    <3>1. CASE k = h
      <4>1. i + 1 \in 1..Len(sent[h]) /\ sent'[k][i] = sent[h][i + 1] BY <1>2, <2>1, <3>1
      <4>2. \A j \in 1..Len(sent[h]) : sent[h][j].from = user[sent[h][j].conn] BY DEF OwnedBy, SentPart
      <4> QED BY <4>1, <4>2
    <3>2. CASE k # h BY <2>1, <3>2 DEF OwnedBy, SentPart
    <3> QED BY <3>1, <3>2
  <2> QED BY <2>2 DEF SentPart
<1>7. JobsPart(user)'
  <2> DEFINE e == Job("send", s, p.from)
  <2>1. e \in Jobs /\ e.socket = s /\ e.from = p.from BY <1>3 DEF Job, Jobs
  <2> HIDE DEF e
  <2>2. /\ Len(jobs') = Len(jobs) + 1 /\ Len(jobs) \in Nat
        /\ \A i \in 1..Len(jobs) : jobs'[i] = jobs[i]
        /\ jobs'[Len(jobs) + 1] = e
    BY <1>1, <2>1, OwnerFacts, AppendElements DEF e
  <2>3. ASSUME NEW i \in 1..Len(jobs'), jobs'[i].kind = "send"
        PROVE  jobs'[i].socket <= made' /\ jobs'[i].from = user[place'[jobs'[i].socket][2]]
    <3>1. CASE i \in 1..Len(jobs)
      <4>1. /\ jobs'[i] = jobs[i] /\ jobs[i].socket \in Sockets
            /\ jobs[i].socket <= made /\ jobs[i].from = user[place[jobs[i].socket][2]]
        BY <2>2, <2>3, <3>1, OwnerFacts DEF OwnedBy, JobsPart
      <4> QED BY <1>4, <4>1
    <3>2. CASE i = Len(jobs) + 1 BY <1>3, <1>4, <2>1, <2>2, <3>2
    <3> QED BY <2>2, <3>1, <3>2
  <2> QED BY <2>3 DEF JobsPart
<1>8. CarriedPart(user)' BY <1>1, <1>4 DEF OwnedBy, CarriedPart
<1>9. DownPart'
  <2>1. \A k \in Handlers : \A i \in 1..Len(down[k]) : down[k][i].socket \in Sockets BY OwnerFacts
  <2> QED BY <1>1, <1>4, <2>1 DEF OwnedBy, DownPart
<1>10. GotPart(user)'
  <2>1. \A d \in got : d[2] \in Sockets BY DEF TypeInv, Types
  <2> QED BY <1>1, <1>4, <2>1 DEF OwnedBy, GotPart
<1> QED BY <1>5, <1>6, <1>7, <1>8, <1>9, <1>10 DEF OwnedBy

LEMMA OwnerKept == ASSUME TypeInv, OwnerInv, [Next]_vars PROVE OwnerInv'
<1>0. PICK user \in Users : OwnedBy(user) BY DEF OwnerInv
<1>1. ASSUME NEW a \in Clients, NEW c \in Conns, LocalPacket(a, c) PROVE OwnerInv'
  BY <1>0, <1>1, LocalPacketOwned
<1>2. ASSUME NEW c \in Conns, Expire(c) PROVE OwnedBy(user)'
  <2>1. session' = [session EXCEPT ![c] = None] /\ drawn' = drawn BY <1>2 DEF Expire
  <2>2. SessionPart(user)' BY <1>0, <2>1 DEF OwnedBy, SessionPart, TypeInv, Types
  <2> QED BY <1>0, <1>2, <2>2, OwnerStill DEF Expire, wireVars, socketVars, OwnedBy
<1>3. ASSUME NEW h \in Handlers, Deliver(h) PROVE OwnedBy(user)'
  <2> DEFINE e == Head(down[h])
  <2>1. /\ e = down[h][1] /\ 1 \in 1..Len(down[h])
        /\ \A i \in 1..Len(Tail(down[h])) : i + 1 \in 1..Len(down[h]) /\ Tail(down[h])[i] = down[h][i + 1]
    BY <1>3, OwnerFacts, TailElements DEF Deliver
  <2>2. /\ down' = [down EXCEPT ![h] = Tail(@)]
        /\ got' = IF session[e.conn] = None THEN got ELSE got \cup {<<session[e.conn], e.socket>>}
        /\ UNCHANGED <<session, drawn, sent, jobs, made, place, carried>>
    BY <1>3 DEF Deliver, socketVars
  <2>3. /\ e.socket <= made /\ place[e.socket][2] = e.conn
        /\ session[e.conn] # None => session[e.conn] = user[e.conn]
    BY <1>0, <2>1, OwnerFacts DEF OwnedBy, DownPart, SessionPart
  <2> HIDE DEF e
  <2>4. GotPart(user)' BY <1>0, <2>2, <2>3 DEF OwnedBy, GotPart
  <2>5. DownPart'
    <3>1. down'[h] = Tail(down[h]) /\ \A k \in Handlers : k # h => down'[k] = down[k]
      BY <2>2 DEF TypeInv, Types
    <3> QED BY <1>0, <2>1, <2>2, <3>1 DEF OwnedBy, DownPart
  <2> QED BY <1>0, <2>2, <2>4, <2>5, OwnerStill DEF OwnedBy
<1>4. ASSUME NEW h \in Handlers, Lose(h) PROVE OwnedBy(user)'
  <2>1. PICK n \in 0..Len(sent[h]) : sent' = [sent EXCEPT ![h] = SubSeq(@, 1, n)] BY <1>4 DEF Lose
  <2>2. sent[h] \in Seq(Packet) /\ n \in 0..Len(sent[h]) BY OwnerFacts
  <2>3. /\ Len(SubSeq(sent[h], 1, n)) = n
        /\ \A i \in 1..n : i \in 1..Len(sent[h]) /\ SubSeq(sent[h], 1, n)[i] = sent[h][i]
    BY <2>2
  <2>4. sent'[h] = SubSeq(sent[h], 1, n) /\ \A k \in Handlers : k # h => sent'[k] = sent[k]
    BY <2>1 DEF TypeInv, Types
  <2>5. SentPart(user)' BY <1>0, <2>3, <2>4 DEF OwnedBy, SentPart
  <2>6. down'[h] = <<>> /\ (\A k \in Handlers : k # h => down'[k] = down[k]) /\ UNCHANGED <<made, place>>
    BY <1>4 DEF Lose, TypeInv, Types, socketVars
  <2>7. DownPart'
    <3>1. Len(<<>>) = 0 OBVIOUS
    <3> QED BY <1>0, <2>6, <3>1 DEF OwnedBy, DownPart
  <2> QED BY <1>0, <1>4, <2>5, <2>7, OwnerStill DEF Lose, clientVars, socketVars, OwnedBy
<1>5. ASSUME NEW h \in Handlers, NEW s \in Sockets, HandleUdpData(h, s) PROVE OwnedBy(user)'
  BY <1>0, <1>5, HandleUdpDataOwned
<1>6. ASSUME NEW s \in Sockets, LoopReceives(s) PROVE OwnedBy(user)'
  <2> DEFINE e == Job("recv", s, None)
  <2>1. e \in Jobs /\ e.kind = "recv" BY DEF Job, Jobs
  <2>2. jobs' = Append(jobs, e) /\ UNCHANGED <<session, drawn, got, sent, down, made, place, carried>>
    BY <1>6 DEF LoopReceives, clientVars, wireVars
  <2> HIDE DEF e
  <2>3. /\ Len(jobs') = Len(jobs) + 1 /\ Len(jobs) \in Nat
        /\ \A i \in 1..Len(jobs) : jobs'[i] = jobs[i]
        /\ jobs'[Len(jobs) + 1] = e
    BY <2>1, <2>2, OwnerFacts, AppendElements
  <2>4. \A i \in 1..Len(jobs') : jobs'[i].kind = "send" => i \in 1..Len(jobs) /\ jobs'[i] = jobs[i]
    BY <2>1, <2>3
  <2>5. JobsPart(user)' BY <1>0, <2>2, <2>4 DEF OwnedBy, JobsPart
  <2> QED BY <1>0, <2>2, <2>5, OwnerStill DEF OwnedBy
<1>7. ASSUME NEW s \in Sockets, LoopForwards(s) PROVE OwnedBy(user)'
  <2> DEFINE h == place[s][1]
             e == [conn |-> place[s][2], socket |-> s]
  <2>1. s <= made /\ h \in Handlers /\ place[s][2] \in Conns
    <3>1. s <= made BY <1>7 DEF LoopForwards, TypeInv, PlaceInv
    <3> QED BY <3>1, OwnerFacts
  <2>2. e \in Answer /\ e.socket = s /\ e.conn = place[s][2] BY <2>1 DEF Answer
  <2>3. /\ down' = down \/ down' = [down EXCEPT ![h] = Append(@, e)]
        /\ UNCHANGED <<session, drawn, got, sent, jobs, made, place, carried>>
    BY <1>7 DEF LoopForwards, clientVars
  <2> HIDE DEF e, h
  <2>4. DownPart'
    <3>1. CASE down' = down BY <1>0, <2>3, <3>1, OwnerStill
    <3>2. CASE down' = [down EXCEPT ![h] = Append(@, e)]
      <4>1. down'[h] = Append(down[h], e) /\ \A k \in Handlers : k # h => down'[k] = down[k]
        BY <2>1, <3>2 DEF TypeInv, Types
      <4>2. /\ Len(down'[h]) = Len(down[h]) + 1 /\ Len(down[h]) \in Nat
            /\ \A i \in 1..Len(down[h]) : down'[h][i] = down[h][i]
            /\ down'[h][Len(down[h]) + 1] = e
        BY <2>1, <2>2, <4>1, OwnerFacts, AppendElements
      <4>3. ASSUME NEW k \in Handlers, NEW i \in 1..Len(down'[k])
            PROVE  down'[k][i].socket <= made /\ place[down'[k][i].socket][2] = down'[k][i].conn
        <5>1. CASE k # h BY <1>0, <4>1, <5>1 DEF OwnedBy, DownPart
        <5>2. CASE k = h /\ i \in 1..Len(down[h]) BY <1>0, <4>2, <5>2 DEF OwnedBy, DownPart
        <5>3. CASE k = h /\ i = Len(down[h]) + 1 BY <2>1, <2>2, <4>2, <5>3
        <5> QED BY <4>2, <5>1, <5>2, <5>3
      <4> QED BY <2>3, <4>3 DEF DownPart
    <3> QED BY <2>3, <3>1, <3>2
  <2> QED BY <1>0, <2>3, <2>4, OwnerStill DEF OwnedBy
<1>8. ASSUME TakeReceive PROVE OwnedBy(user)'
  <2>1. JobsPart(user)' BY <1>0, <1>8, JobTaken DEF TakeReceive, FreeThread, OwnedBy, socketVars
  <2> QED BY <1>0, <1>8, <2>1, OwnerStill DEF TakeReceive, clientVars, wireVars, socketVars, OwnedBy
<1>9. ASSUME SendTo PROVE OwnedBy(user)'
  <2>1. /\ jobs # <<>> /\ jobs' = Tail(jobs) /\ Head(jobs).kind = "send"
        /\ UNCHANGED <<session, drawn, got, sent, down, made, place>>
    BY <1>9 DEF SendTo, FreeThread, clientVars, wireVars
  <2>2. JobsPart(user)' BY <1>0, <2>1, JobTaken DEF OwnedBy
  <2> DEFINE s == Head(jobs).socket
             a == Head(jobs).from
  <2>3. s \in Sockets /\ s <= made /\ a = user[place[s][2]]
    <3>1. Head(jobs) = jobs[1] /\ 1 \in 1..Len(jobs) BY <2>1, OwnerFacts, TailElements
    <3> QED BY <1>0, <2>1, <3>1, OwnerFacts DEF OwnedBy, JobsPart
  <2>4. carried' = carried \/ carried' = [carried EXCEPT ![s] = @ \cup {a}] BY <1>9 DEF SendTo
  <2> HIDE DEF s, a
  <2>5. \A t \in Sockets : carried'[t] = carried[t] \/ (t = s /\ carried'[t] = carried[t] \cup {a})
    BY <2>3, <2>4 DEF TypeInv, Types
  <2>6. CarriedPart(user)' BY <1>0, <2>1, <2>3, <2>5 DEF OwnedBy, CarriedPart
  <2> QED BY <1>0, <2>1, <2>2, <2>6, OwnerStill DEF OwnedBy
<1>10. ASSUME UNCHANGED <<session, drawn, got, sent, down, jobs, made, place, carried>>
       PROVE  OwnedBy(user)'
  BY <1>0, <1>10, OwnerStill DEF OwnedBy
<1>11. ASSUME NEW h \in Handlers, OnClose(h) PROVE OwnedBy(user)'
  BY <1>10, <1>11 DEF OnClose, clientVars
<1>12. ASSUME NEW s \in Sockets, LoopEnds(s) \/ Receives(s) \/ ReceivesNothing(s) PROVE OwnedBy(user)'
  BY <1>10, <1>12 DEF LoopEnds, Receives, ReceivesNothing, clientVars, wireVars
<1>13. ASSUME UNCHANGED vars PROVE OwnedBy(user)'
  BY <1>10, <1>13 DEF vars, clientVars, wireVars, socketVars
<1>14. OwnedBy(user)' => OwnerInv' BY <1>0 DEF OwnerInv, Users
<1> QED BY <1>1, <1>2, <1>3, <1>4, <1>5, <1>6, <1>7, <1>8, <1>9, <1>11, <1>12, <1>13, <1>14 DEF Next, Loop

LEMMA InitOwner == Init => OwnerInv
<1> SUFFICES ASSUME Init PROVE OwnerInv OBVIOUS
<1> DEFINE u == [c \in Conns |-> None]
<1>1. u \in Users /\ \A c \in Conns : u[c] = None BY DEF Users
<1> HIDE DEF u
<1>2. Len(<<>>) = 0 OBVIOUS
<1>3. OwnedBy(u)
  BY <1>1, <1>2 DEF Init, OwnedBy, SessionPart, SentPart, JobsPart, CarriedPart, DownPart, GotPart
<1> QED BY <1>1, <1>3 DEF OwnerInv

LEMMA OwnerGoesHome == ASSUME TypeInv, OwnerInv PROVE AnswersGoHome
<1>1. PICK user \in Users : OwnedBy(user) BY DEF OwnerInv
<1> SUFFICES ASSUME NEW d \in got, NEW a \in carried[d[2]] PROVE a = d[1] BY DEF AnswersGoHome
<1>2. d[2] \in Sockets BY DEF TypeInv, Types
<1>3. a = user[place[d[2]][2]] BY <1>1, <1>2 DEF OwnedBy, CarriedPart
<1> QED BY <1>1, <1>3 DEF OwnedBy, GotPart

\* A local client is given only what comes back on a socket that has sent packets of
\* that client and of no other, however sessions expire on either side.
THEOREM AnswersComeHome == Spec => []AnswersGoHome
<1>1. Init => TypeInv /\ RecvInv /\ OwnerInv BY InitTypes, InitRecv, InitOwner
<1>2. TypeInv /\ RecvInv /\ OwnerInv /\ [Next]_vars => (TypeInv /\ RecvInv /\ OwnerInv)'
  BY TypesKept, RecvKept, OwnerKept
<1>3. TypeInv /\ RecvInv /\ OwnerInv => AnswersGoHome BY OwnerGoesHome
<1> QED BY <1>1, <1>2, <1>3, PTL DEF Spec
=============================================================================
