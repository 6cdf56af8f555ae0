----------------------------- MODULE WsPoolProofs -----------------------------
(***************************************************************************)
(* The safety properties of WsPool, for every pool_size and set of conn_ids *)
(* and all bounds.  IInv conjoins the types with what is true of every slot *)
(* until shutdown: who has cancelled its task, what a task that leaves has  *)
(* still to take out of the pool, and whose the sockets are that it names.  *)
(* EnoughInv counts the slots that the scale-downs leave alone.             *)
(***************************************************************************)
EXTENDS WsPool, FiniteSetTheorems, WellFoundedInduction, TLAPS

Types ==
  /\ TypeOK
  /\ \A k \in ScaleDowns :
       /\ Active(k) => 1 <= sd[k].target
       /\ sd[k].at \in {"closing", "awaiting"} => 1 <= sd[k].quota

\* Scale-down k waits for the connect task of slot i to end.
Awaits(k, i) == sd[k].at = "awaiting" /\ sd[k].i = i
Awaited(i) == \E k \in ScaleDowns : Awaits(k, i)
\* The monitor can still cancel the connect task of slot i, through the scale-down
\* it has started last.
CanCancel(i) == sdTask # None /\ Awaits(sdTask, i)

\* Only a task that runs has a cancellation to see, and only a scale-down cancels one.
CancelInv == \A i \in Slots :
  /\ i \in cancelled => Running(i)
  /\ i \in cancelled \/ task[i] \in {"leaving", "ended"} => Awaited(i)

\* A task that leaves takes its WebSocket out of the pool, unless it is cancelled
\* again before: then the monitor has no way to cancel it.
LeaveInv == \A i \in Slots :
  /\ task[i] \in {"ended", "none"} => pool[i] = None
  /\ task[i] = "leaving" /\ pool[i] # None => i \notin cancelled /\ ~CanCancel(i)
  /\ i \in cancelled /\ pool[i] # None => ~CanCancel(i)

\* A WebSocket that works has its task, its receive loop and its heartbeat.
SocketInv == \A i \in Slots :
  /\ pool[i] # None => SlotOf(pool[i]) = i
  /\ current[i] # None => SlotOf(current[i]) = i
  /\ task[i] \in {"waiting", "reaping"} => pool[i] \in {None, current[i]}
  /\ pool[i] \in live => recv[pool[i]] = "reading"
  /\ task[i] = "reaping" => pool[i] \notin live
  /\ task[i] = "waiting" /\ i \notin beat => pool[i] \notin live

Body == closing = "no" /\ CancelInv /\ LeaveInv /\ SocketInv
IInv == Types /\ (running => Body)

\* There is a connect task, and a scale-down leaves more of them alone than it
\* has still to end.
Others(k) == {i \in Slots : Running(i) /\ i # sd[k].i}
EnoughInv ==
  /\ (\A k \in ScaleDowns : ~ AtWork(k)) => \E i \in Slots : Running(i)
  /\ \A k \in ScaleDowns : AtWork(k) => Cardinality(Others(k)) >= sd[k].quota

USE PoolSizeAssumption, ConnsAssumption, PerSlotAssumption, MaxScaleDownsAssumption

-----------------------------------------------------------------------------
\* Numbers.

LEMMA SocketNumbers ==
  /\ Sockets \subseteq Nat \ {0}
  /\ \A w \in Sockets : SlotOf(w) \in Slots
<1>1. PoolSize * PerSlot \in Nat
  OBVIOUS
<1>2. Sockets \subseteq Nat \ {0}
  BY <1>1 DEF Sockets
<1>3. ASSUME NEW m \in Nat
      PROVE  m % PoolSize \in 0..(PoolSize - 1)
  OBVIOUS
<1>4. ASSUME NEW w \in Sockets
      PROVE  SlotOf(w) \in Slots
  <2>1. w - 1 \in Nat BY <1>2
  <2> QED BY <2>1, <1>3 DEF SlotOf, Slots
<1> QED BY <1>2, <1>4

LEMMA SlotsAreFinite ==
  /\ IsFiniteSet(Slots) /\ Cardinality(Slots) = PoolSize
  /\ \A S : S \subseteq Slots => IsFiniteSet(S) /\ Cardinality(S) \in 0..PoolSize
<1>1. IsFiniteSet(Slots) /\ Cardinality(Slots) = PoolSize
  BY FS_Interval DEF Slots
<1>2. ASSUME NEW S, S \subseteq Slots
      PROVE  IsFiniteSet(S) /\ Cardinality(S) \in 0..PoolSize
  <2>1. IsFiniteSet(S) /\ Cardinality(S) <= PoolSize
    BY <1>1, <1>2, FS_Subset
  <2>2. Cardinality(S) \in Nat
    BY <2>1, FS_CardinalityType
  <2> QED BY <2>1, <2>2
<1> QED BY <1>1, <1>2

\* Slots are visited from the highest one down, and closed from the lowest one up.
LEMMA HighestSlot ==
  ASSUME NEW S, S \subseteq Slots, S # {}
  PROVE  Max(S) \in S
<1> DEFINE R == OpToRel(<, Nat)
           T == {PoolSize - 1 - x : x \in S}
<1>0. \A x \in S : x \in Nat /\ PoolSize - 1 - x \in Nat
  BY DEF Slots
<1>1. T \subseteq Nat /\ T # {}
  BY <1>0
<1>2. PICK m \in T : \A y \in T : ~ (<<y, m>> \in R)
  <2> HIDE DEF T
  <2>1. IsWellFoundedOn(R, Nat)
    BY NatLessThanWellFounded
  <2> HIDE DEF R
  <2> QED BY <1>1, <2>1, WFMin
<1>3. PICK x \in S : m = PoolSize - 1 - x
  BY <1>2
<1>4. ASSUME NEW y \in S
      PROVE  x >= y
  <2>1. PoolSize - 1 - y \in T
    BY <1>4
  <2>2. PoolSize - 1 - y \in Nat /\ m \in Nat /\ x \in Nat /\ y \in Nat
    BY <1>0, <1>3, <1>4
  <2>3. ~ (PoolSize - 1 - y < m)
    BY <1>2, <2>1, <2>2 DEF OpToRel
  <2> QED BY <2>2, <2>3, <1>3
<1> QED BY <1>3, <1>4 DEF Max

LEMMA LowestSlot ==
  ASSUME NEW S, S \subseteq Slots, S # {}
  PROVE  Min(S) \in S
<1> DEFINE R == OpToRel(<, Nat)
<1>1. S \subseteq Nat
  BY DEF Slots
<1>2. IsWellFoundedOn(R, Nat)
  BY NatLessThanWellFounded
<1>3. PICK m \in S : \A y \in S : ~ (<<y, m>> \in R)
  <2> HIDE DEF R
  <2> QED BY <1>1, <1>2, WFMin
<1>4. ASSUME NEW y \in S
      PROVE  m =< y
  <2>1. m \in Nat /\ y \in Nat
    BY <1>1
  <2>2. ~ (y < m)
    BY <2>1, <1>3 DEF OpToRel
  <2> QED BY <2>1, <2>2
<1> QED BY <1>3, <1>4 DEF Min

LEMMA OfTwo ==
  ASSUME NEW m \in Nat, NEW n \in Nat
  PROVE  /\ Max({m, n}) \in {m, n} /\ Max({m, n}) >= m
         /\ Min({m, n}) \in {m, n} /\ Min({m, n}) <= n
<1>1. \E x \in {m, n} : \A y \in {m, n} : x >= y
  <2>1. CASE m >= n BY <2>1
  <2>2. CASE n >= m BY <2>2
  <2> QED BY <2>1, <2>2
<1>2. Max({m, n}) \in {m, n} /\ \A y \in {m, n} : Max({m, n}) >= y
  BY <1>1 DEF Max
<1>3. \E x \in {m, n} : \A y \in {m, n} : x =< y
  <2>1. CASE m <= n BY <2>1
  <2>2. CASE n <= m BY <2>2
  <2> QED BY <2>1, <2>2
<1>4. Min({m, n}) \in {m, n} /\ \A y \in {m, n} : Min({m, n}) =< y
  BY <1>3 DEF Min
<1> QED BY <1>2, <1>4

\* The pool always wants a WebSocket, and counts no more than it has slots.
LEMMA Counts ==
  ASSUME conns \subseteq Conns
  PROVE  Target \in 1..PoolSize /\ PoolCount \in 0..PoolSize
<1>1. Cardinality(conns) \in Nat
  BY FS_Subset, FS_CardinalityType
<1>2. Min({Cardinality(conns), PoolSize}) \in Nat /\ Min({Cardinality(conns), PoolSize}) <= PoolSize
  BY <1>1, OfTwo
<1>3. Target \in 1..PoolSize
  <2> DEFINE n == Min({Cardinality(conns), PoolSize})
  <2>1. n \in Nat /\ n <= PoolSize
    BY <1>2
  <2>2. Target = Max({1, n})
    BY DEF Target
  <2> HIDE DEF n
  <2> QED BY <2>1, <2>2, OfTwo
<1>4. PoolCount \in 0..PoolSize
  <2>1. {i \in Slots : pool[i] # None} \subseteq Slots
    OBVIOUS
  <2> QED BY <2>1, SlotsAreFinite DEF PoolCount
<1> QED BY <1>3, <1>4

-----------------------------------------------------------------------------
\* The loop of a scale-down goes on to the next slot, or ends.
LEMMA GoesOn ==
  ASSUME TypeOK, NEW k \in ScaleDowns, NEW n \in 0..(PoolSize - 1), NEW from, NEW thePool,
         GoOn(k, n, from, thePool)
  PROVE  /\ live' \subseteq live /\ sdTarget' \in {0, sdTarget}
         /\ sd' \in [ScaleDowns -> [at : {"none", "delay", "closing", "awaiting"},
                            target : 0..(PoolSize - 1), quota : 0..(PoolSize - 1), i : Slots]]
         /\ \A j \in ScaleDowns : j # k => sd'[j] = sd[j]
         /\ \/ sd'[k] = Idle
            \/ /\ n # 0 /\ sd'[k].at = "closing" /\ sd'[k].target = sd[k].target
               /\ sd'[k].quota = n
<1> DEFINE left == {i \in Slots : i < from /\ thePool[i] # None}
           i    == Max(left)
<1>0. 0 \in Slots
  BY DEF Slots
<1>1. CASE n = 0 \/ left = {}
  <2>1. ScaleDownEnds(k)
    BY <1>1 DEF GoOn
  <2> QED BY <2>1, <1>0 DEF ScaleDownEnds, TypeOK, Idle
<1>2. CASE n # 0 /\ left # {}
  <2>1. i \in Slots
    <3>1. left \subseteq Slots OBVIOUS
    <3> HIDE DEF left
    <3> QED BY <1>2, <3>1, HighestSlot
  <2>2. /\ sd' = [sd EXCEPT ![k].at = "closing", ![k].quota = n, ![k].i = i]
        /\ live' = live \ {thePool[i]} /\ sdTarget' = sdTarget
    BY <1>2 DEF GoOn
  <2> HIDE DEF i, left
  <2> DEFINE State == [at : {"none", "delay", "closing", "awaiting"},
                       target : 0..(PoolSize - 1), quota : 0..(PoolSize - 1), i : Slots]
  <2>3. sd \in [ScaleDowns -> State]
    BY DEF TypeOK
  <2>4. ASSUME NEW r \in State
        PROVE  LET t == [r EXCEPT !.at = "closing", !.quota = n, !.i = i]
               IN  t \in State /\ t.at = "closing" /\ t.target = r.target /\ t.quota = n
    BY <2>1
  <2> HIDE DEF State
  <2>5. sd' = [sd EXCEPT ![k] = [sd[k] EXCEPT !.at = "closing", !.quota = n, !.i = i]]
    BY <2>2, <2>3
  <2>6. sd' \in [ScaleDowns -> State] /\ \A j \in ScaleDowns : j # k => sd'[j] = sd[j]
    BY <2>3, <2>4, <2>5
  <2>7. sd'[k].at = "closing" /\ sd'[k].target = sd[k].target /\ sd'[k].quota = n
    BY <2>3, <2>4, <2>5
  <2> QED BY <1>2, <2>2, <2>6, <2>7 DEF State
<1> QED BY <1>1, <1>2

-----------------------------------------------------------------------------
\* Types.

ScaleState == [at : {"none", "delay", "closing", "awaiting"},
               target : 0..(PoolSize - 1), quota : 0..(PoolSize - 1), i : Slots]

SdTypes ==
  /\ sd \in [ScaleDowns -> ScaleState]
  /\ \A k \in ScaleDowns :
       /\ Active(k) => 1 <= sd[k].target
       /\ AtWork(k) => 1 <= sd[k].quota

LEMMA InitTypes ==
  Init => Types
<1> SUFFICES ASSUME Init PROVE Types
  OBVIOUS
<1>1. 0 \in Slots
  BY DEF Slots
<1>2. sd = [k \in ScaleDowns |-> Idle] /\ Idle \in ScaleState
  BY <1>1 DEF Init, Idle, ScaleState
<1>3. /\ task \in [Slots -> {"none", "dialing"}]
  BY DEF Init
<1> QED BY <1>1, <1>2, <1>3 DEF Init, Types, TypeOK, ScaleState, Active, Idle

\* A step of a connect task.
LEMMA ConnectTypes ==
  ASSUME Types, NEW i \in Slots, ConnectTask(i) \/ BeatEnds(i)
  PROVE  Types'
<1> USE DEF Types, TypeOK, Active, Set, NextRound, Without, Sweep
<1>1. CASE DialOk(i)
  BY <1>1 DEF DialOk, scaleVars
<1>2. CASE DialFails(i)
  BY <1>2 DEF DialFails, scaleVars, socketVars
<1>3. CASE FailureSwept(i)
  BY <1>3 DEF FailureSwept, scaleVars, socketVars
<1>4. CASE Redial(i)
  BY <1>4 DEF Redial, scaleVars, socketVars
<1>5. CASE ChildEnds(i)
  BY <1>5 DEF ChildEnds, scaleVars, socketVars
<1>6. CASE Reaped(i)
  BY <1>6 DEF Reaped, scaleVars
<1>7. CASE CancelSeen(i)
  BY <1>7 DEF CancelSeen, scaleVars
<1>8. CASE CancelSwallowed(i)
  BY <1>8 DEF CancelSwallowed, scaleVars, socketVars
<1>9. CASE Left(i)
  BY <1>9 DEF Left, scaleVars, socketVars
<1>10. CASE LeftInAHurry(i)
  BY <1>10 DEF LeftInAHurry, scaleVars, socketVars
<1>11. CASE BeatEnds(i)
  BY <1>11 DEF BeatEnds, scaleVars
<1> QED BY <1>1, <1>2, <1>3, <1>4, <1>5, <1>6, <1>7, <1>8, <1>9, <1>10, <1>11
        DEF ConnectTask, Connect, Leaving

\* A step of a receive loop, of the network or of a connection of the client.
LEMMA TrafficTypes ==
  ASSUME Types,
         \/ \E w \in Sockets : Receive(w) \/ WsLost(w)
         \/ \E c \in Conns : Open(c) \/ Send(c) \/ Close(c)
  PROVE  Types'
<1> USE DEF Types, TypeOK, Active, Without, Sweep
<1>0. ASSUME NEW w \in Sockets, CloseSlot(w)
      PROVE  /\ pool' \in [Slots -> Sockets \cup {None}] /\ live' \subseteq Sockets
             /\ recv' \in [Sockets -> {"none", "reading", "sweeping", "closing"}]
  BY <1>0 DEF CloseSlot
<1>1. ASSUME NEW w \in Sockets, RecvEnds(w)
      PROVE  Types'
  BY <1>1 DEF RecvEnds, scaleVars
<1>2. ASSUME NEW w \in Sockets, RecvRaises(w)
      PROVE  Types'
  <2>1. CASE NothingToSweep(SlotOf(w))
    BY <1>0, <1>2, <2>1 DEF RecvRaises, scaleVars
  <2>2. CASE ~ NothingToSweep(SlotOf(w))
    BY <1>2, <2>2 DEF RecvRaises, scaleVars
  <2> QED BY <2>1, <2>2
<1>3. ASSUME NEW w \in Sockets, RecvSwept(w)
      PROVE  Types'
  BY <1>0, <1>3 DEF RecvSwept, scaleVars
<1>4. ASSUME NEW w \in Sockets, RecvCloses(w)
      PROVE  Types'
  BY <1>4 DEF RecvCloses, scaleVars
<1>5. ASSUME NEW w \in Sockets, WsLost(w)
      PROVE  Types'
  BY <1>5 DEF WsLost, scaleVars
<1>6. ASSUME NEW c \in Conns, Open(c)
      PROVE  Types'
  BY <1>6 DEF Open, DropFailed, scaleVars, socketVars
<1>7. ASSUME NEW c \in Conns, Send(c)
      PROVE  Types'
  BY <1>7 DEF Send, DropFailed, scaleVars, socketVars
<1>8. ASSUME NEW c \in Conns, Close(c)
      PROVE  Types'
  BY <1>8 DEF Close, scaleVars, socketVars
<1> QED BY <1>1, <1>2, <1>3, <1>4, <1>5, <1>6, <1>7, <1>8 DEF Receive

\* What a scale-down does when it goes on to the next WebSocket or ends.
Goes(k) == DelayEnds(k) \/ (SocketClosed(k) /\ ~ Running(sd[k].i)) \/ TaskGone(k)
StillToClose(k) == IF sd[k].at = "delay" THEN PoolCount - sd[k].target ELSE sd[k].quota - 1

LEMMA Advances ==
  ASSUME Types, NEW k \in ScaleDowns, Goes(k)
  PROVE  /\ sd' \in [ScaleDowns -> ScaleState] /\ sd[k].i \in Slots
         /\ live' \subseteq live /\ sdTarget' \in {0, sdTarget}
         /\ \A j \in ScaleDowns : j # k => sd'[j] = sd[j]
         /\ \/ sd'[k] = Idle
            \/ /\ sd'[k].at = "closing" /\ sd'[k].target = sd[k].target
               /\ sd'[k].quota = StillToClose(k) /\ 1 <= StillToClose(k)
<1> USE DEF AtWork
<1>1. TypeOK /\ SdTypes
  BY DEF Types, TypeOK, SdTypes, ScaleState
<1>2. sd[k] \in ScaleState /\ Active(k)
  BY <1>1 DEF SdTypes, Goes, DelayEnds, SocketClosed, TaskGone, Active
<1>3. sd[k].i \in Slots /\ sd[k].target \in 1..(PoolSize - 1) /\ sd[k].quota \in 0..(PoolSize - 1)
  <2>1. 1 <= sd[k].target
    BY <1>1, <1>2 DEF SdTypes
  <2> QED BY <1>2, <2>1 DEF ScaleState
<1>4. ASSUME NEW n \in 0..(PoolSize - 1), NEW from, NEW thePool,
             GoOn(k, n, from, thePool), n = StillToClose(k)
      PROVE  /\ sd' \in [ScaleDowns -> ScaleState]
             /\ live' \subseteq live /\ sdTarget' \in {0, sdTarget}
             /\ \A j \in ScaleDowns : j # k => sd'[j] = sd[j]
             /\ \/ sd'[k] = Idle
                \/ /\ sd'[k].at = "closing" /\ sd'[k].target = sd[k].target
                   /\ sd'[k].quota = StillToClose(k) /\ 1 <= StillToClose(k)
  <2>1. n # 0 => 1 <= n
    OBVIOUS
  <2> QED BY <1>1, <1>4, <2>1, GoesOn DEF ScaleState
<1>5. CASE DelayEnds(k)
  <2>1. CASE PoolCount <= sd[k].target \/ Target > sd[k].target
    <3>1. ScaleDownEnds(k)
      BY <1>5, <2>1 DEF DelayEnds
    <3>2. Idle \in ScaleState
      BY DEF Idle, ScaleState, Slots
    <3> QED BY <1>1, <1>3, <3>1, <3>2 DEF ScaleDownEnds, SdTypes
  <2>2. CASE ~ (PoolCount <= sd[k].target \/ Target > sd[k].target)
    <3>1. PoolCount \in 0..PoolSize
      BY Counts DEF Types, TypeOK
    <3>2. PoolCount - sd[k].target \in 0..(PoolSize - 1)
      BY <1>3, <2>2, <3>1
    <3>3. GoOn(k, PoolCount - sd[k].target, PoolSize, pool)
      BY <1>5, <2>2 DEF DelayEnds
    <3>4. PoolCount - sd[k].target = StillToClose(k)
      BY <1>5 DEF DelayEnds, StillToClose
    <3> QED BY <1>3, <1>4, <3>2, <3>3, <3>4
  <2> QED BY <2>1, <2>2
<1>6. CASE (SocketClosed(k) /\ ~ Running(sd[k].i)) \/ TaskGone(k)
  <2>1. AtWork(k) /\ sd[k].at # "delay"
    BY <1>6 DEF SocketClosed, TaskGone
  <2>2. sd[k].quota - 1 \in 0..(PoolSize - 1) /\ sd[k].quota - 1 = StillToClose(k)
    <3>1. 1 <= sd[k].quota
      BY <1>1, <2>1 DEF SdTypes
    <3> QED BY <1>3, <2>1, <3>1 DEF StillToClose
  <2>3. PICK thePool : GoOn(k, sd[k].quota - 1, sd[k].i, thePool)
    BY <1>6 DEF SocketClosed, TaskGone
  <2> QED BY <1>3, <1>4, <2>2, <2>3
<1> QED BY <1>5, <1>6 DEF Goes

\* A step of the monitor or of a scale-down.
LEMMA ScaleTypes ==
  ASSUME Types, ScaleUp \/ ScheduleScaleDown \/ \E k \in ScaleDowns : ScaleDown(k)
  PROVE  Types'
<1> USE DEF AtWork
<1>1. Types = (TypeOK /\ SdTypes) /\ Types' = (TypeOK /\ SdTypes)'
  BY DEF Types, TypeOK, SdTypes, ScaleState
<1>2. Idle \in ScaleState /\ Idle.at = "none"
  BY DEF Idle, ScaleState, Slots
<1>3. Target \in 1..PoolSize /\ PoolCount \in 0..PoolSize
  BY Counts DEF Types, TypeOK
<1>4. ASSUME CancelScaleDown
      PROVE  cancelled' \subseteq Slots
  BY <1>4 DEF CancelScaleDown, Types, TypeOK
<1>5. CASE ScaleUp
  <2>1. /\ task' = [i \in Slots |-> IF task'[i] = "dialing" THEN "dialing" ELSE task[i]]
        /\ cancelled' \subseteq Slots
        /\ sdTask' \in {sdTask, None} /\ sdTarget' \in {sdTarget, 0}
        /\ UNCHANGED <<running, pool, current, socketVars, conns, closing, awaited>>
    BY <1>4, <1>5 DEF ScaleUp, scaleVars
  <2>2. /\ sd' \in [ScaleDowns -> ScaleState]
        /\ \A k \in ScaleDowns : sd'[k] \in {sd[k], Idle}
    <3>1. CASE sd' = sd
      BY <1>1, <3>1 DEF SdTypes
    <3>2. CASE sdTask # None /\ sd' = [sd EXCEPT ![sdTask] = Cancelled(sdTask)]
      BY <1>1, <1>2, <3>2 DEF SdTypes, Cancelled
    <3> QED BY <1>5, <3>1, <3>2 DEF ScaleUp, scaleVars
  <2>3. SdTypes'
    BY <1>1, <1>2, <2>2 DEF SdTypes, Active
  <2>4. TypeOK'
    BY <2>1, <2>2 DEF Types, TypeOK, ScaleState, socketVars
  <2> QED BY <1>1, <2>3, <2>4
<1>6. CASE ScheduleScaleDown
  <2>1. PICK k \in ScaleDowns :
          /\ sd' = [j \in ScaleDowns |->
                   IF j = k THEN [Idle EXCEPT !.at = "delay", !.target = Target]
                   ELSE IF j = sdTask THEN Cancelled(j) ELSE sd[j]]
          /\ sdTask' = k
    BY <1>6 DEF ScheduleScaleDown
  <2>2. Target \in 1..(PoolSize - 1)
    <3>1. Target < PoolCount
      BY <1>6 DEF ScheduleScaleDown
    <3> QED BY <1>3, <3>1
  <2> DEFINE new == [Idle EXCEPT !.at = "delay", !.target = Target]
  <2>3. new \in ScaleState /\ new.at = "delay" /\ new.target = Target
    <3>1. ASSUME NEW r \in ScaleState, NEW t \in 0..(PoolSize - 1)
          PROVE  LET s == [r EXCEPT !.at = "delay", !.target = t]
                 IN  s \in ScaleState /\ s.at = "delay" /\ s.target = t
      BY DEF ScaleState
    <3>2. Target \in 0..(PoolSize - 1)
      BY <2>2
    <3> QED BY <1>2, <3>1, <3>2
  <2>4. \A j \in ScaleDowns : sd'[j] \in {sd[j], Idle, new}
    BY <2>1 DEF Cancelled
  <2>5. sd' \in [ScaleDowns -> ScaleState]
    <3> HIDE DEF new
    <3>1. sd' = [j \in ScaleDowns |-> sd'[j]]
      BY <2>1
    <3>2. \A j \in ScaleDowns : sd'[j] \in ScaleState
      BY <1>1, <1>2, <2>3, <2>4 DEF SdTypes
    <3> QED BY <3>1, <3>2
  <2>6. SdTypes'
    <3> SUFFICES ASSUME NEW j \in ScaleDowns
                 PROVE  /\ Active(j)' => 1 <= sd'[j].target
                        /\ AtWork(j)' => 1 <= sd'[j].quota
      BY <2>5 DEF SdTypes
    <3> HIDE DEF new
    <3>1. CASE sd'[j] = sd[j]
      BY <1>1, <3>1 DEF SdTypes, Active
    <3>2. CASE sd'[j] = Idle
      BY <1>2, <3>2 DEF Active
    <3>3. CASE sd'[j] = new
      BY <2>2, <2>3, <3>3
    <3> QED BY <2>4, <3>1, <3>2, <3>3
  <2>7. /\ cancelled' \subseteq Slots /\ sdTarget' = Target
        /\ UNCHANGED <<running, pool, task, current, socketVars, conns, closing, awaited>>
    BY <1>4, <1>6 DEF ScheduleScaleDown
  <2>8. TypeOK'
    BY <2>1, <2>2, <2>5, <2>7 DEF Types, TypeOK, ScaleState, socketVars
  <2> QED BY <1>1, <2>6, <2>8
<1>7. ASSUME NEW k \in ScaleDowns, Goes(k)
      PROVE  SdTypes' /\ live' \subseteq live /\ sdTarget' \in {0, sdTarget}
  <2>1. Active(k)
    BY <1>7 DEF Goes, DelayEnds, SocketClosed, TaskGone, Active
  <2>2. ASSUME NEW j \in ScaleDowns
        PROVE  /\ Active(j)' => 1 <= sd'[j].target
               /\ AtWork(j)' => 1 <= sd'[j].quota
    <3>1. CASE j # k
      BY <1>1, <1>7, <3>1, Advances DEF SdTypes, Active
    <3>2. CASE j = k
      <4>1. CASE sd'[k] = Idle
        BY <1>2, <3>2, <4>1 DEF Active
      <4>2. CASE sd'[k] # Idle
        <5>1. /\ sd'[k].target = sd[k].target
              /\ sd'[k].quota = StillToClose(k) /\ 1 <= StillToClose(k)
          BY <1>7, <4>2, Advances
        <5>2. 1 <= sd[k].target
          BY <1>1, <2>1 DEF SdTypes
        <5> QED BY <3>2, <5>1, <5>2
      <4> QED BY <4>1, <4>2
    <3> QED BY <3>1, <3>2
  <2> QED BY <1>7, <2>2, Advances DEF SdTypes
<1>8. ASSUME NEW k \in ScaleDowns, DelayEnds(k)
      PROVE  Types'
  <2>1. SdTypes' /\ live' \subseteq live /\ sdTarget' \in {0, sdTarget}
    BY <1>7, <1>8 DEF Goes
  <2>2. UNCHANGED <<running, pool, task, cancelled, current, recv, beat, conns, sdTask, closing, awaited>>
    BY <1>8 DEF DelayEnds
  <2>3. TypeOK'
    BY <2>1, <2>2 DEF Types, TypeOK, SdTypes, ScaleState
  <2> QED BY <1>1, <2>1, <2>3
<1>9. ASSUME NEW k \in ScaleDowns, SocketClosed(k)
       PROVE  Types'
  <2>1. Active(k) /\ AtWork(k) /\ sd[k].i \in Slots
    BY <1>1, <1>9 DEF SocketClosed, Active, SdTypes, ScaleState
  <2>2. SdTypes' /\ live' \subseteq live /\ sdTarget' \in {0, sdTarget}
    <3>1. CASE Running(sd[k].i)
      <4>1. sd' = [sd EXCEPT ![k].at = "awaiting"] /\ live' = live /\ sdTarget' = sdTarget
        BY <1>9, <3>1 DEF SocketClosed
      <4>2. sd' \in [ScaleDowns -> ScaleState]
        BY <1>1, <4>1 DEF SdTypes, ScaleState
      <4>3. /\ \A j \in ScaleDowns : j # k => sd'[j] = sd[j]
            /\ sd'[k].quota = sd[k].quota /\ sd'[k].target = sd[k].target
        BY <1>1, <4>1 DEF SdTypes, ScaleState
      <4> QED BY <1>1, <2>1, <4>1, <4>2, <4>3 DEF SdTypes, Active
    <3>2. CASE ~ Running(sd[k].i)
      BY <1>7, <1>9, <3>2 DEF Goes
    <3> QED BY <3>1, <3>2
  <2>3. /\ pool' = [pool EXCEPT ![sd[k].i] = None]
        /\ task' = task \/ task' = [task EXCEPT ![sd[k].i] = "none"]
        /\ cancelled' = cancelled \/ cancelled' = cancelled \cup {sd[k].i}
        /\ UNCHANGED <<running, current, recv, beat, conns, sdTask, closing, awaited>>
    BY <1>9 DEF SocketClosed, Set
  <2>4. TypeOK'
    BY <2>1, <2>2, <2>3 DEF Types, TypeOK, SdTypes, ScaleState
  <2> QED BY <1>1, <2>2, <2>4
<1>10. ASSUME NEW k \in ScaleDowns, TaskGone(k)
       PROVE  Types'
  <2>1. Active(k) /\ AtWork(k) /\ sd[k].i \in Slots
    BY <1>1, <1>10 DEF TaskGone, Active, SdTypes, ScaleState
  <2>2. SdTypes' /\ live' \subseteq live /\ sdTarget' \in {0, sdTarget}
    BY <1>7, <1>10 DEF Goes
  <2>3. /\ task' = [task EXCEPT ![sd[k].i] = "none"]
        /\ UNCHANGED <<running, pool, cancelled, current, recv, beat, conns, sdTask, closing, awaited>>
    BY <1>10 DEF TaskGone, Set
  <2>4. TypeOK'
    BY <2>1, <2>2, <2>3 DEF Types, TypeOK, SdTypes, ScaleState
  <2> QED BY <1>1, <2>2, <2>4
<1> QED BY <1>5, <1>6, <1>8, <1>9, <1>10 DEF ScaleDown

\* A step of close().
LEMMA ShutDownTypes ==
  ASSUME Types, ShutDown \/ ShutDownGoesOn
  PROVE  Types'
<1>1. ASSUME NEW i \in Nat, CancelFrom(i)
      PROVE  /\ closing' \in {"tasks", "done"} /\ awaited' \in Slots
             /\ live' \subseteq live /\ cancelled' \subseteq Slots
  <2> DEFINE left == {j \in Slots : j >= i /\ Running(j)}
  <2>1. CASE left = {}
    BY <1>1, <2>1 DEF CancelFrom, Types, TypeOK
  <2>2. CASE left # {}
    <3>1. Min(left) \in Slots
      <4>1. left \subseteq Slots OBVIOUS
      <4> HIDE DEF left
      <4> QED BY <2>2, <4>1, LowestSlot
    <3>2. /\ closing' = "tasks" /\ awaited' = Min(left)
          /\ cancelled' = cancelled \cup {Min(left)} /\ live' = live
      BY <1>1, <2>2 DEF CancelFrom
    <3> HIDE DEF left
    <3> QED BY <3>1, <3>2 DEF Types, TypeOK
  <2> QED BY <2>1, <2>2
<1>2. CASE ShutDown
  <2>1. \A k \in ScaleDowns : sd'[k] \in {sd[k], Idle}
    BY <1>2 DEF ShutDown, Cancelled
  <2>2. sd' \in [ScaleDowns -> ScaleState]
    <3>1. sd' = [k \in ScaleDowns |-> sd'[k]]
      BY <1>2 DEF ShutDown
    <3>2. \A k \in ScaleDowns : sd'[k] \in ScaleState
      <4>1. Idle \in ScaleState
        BY DEF Idle, ScaleState, Slots
      <4>2. \A k \in ScaleDowns : sd[k] \in ScaleState
        BY DEF Types, TypeOK, ScaleState
      <4> QED BY <2>1, <4>1, <4>2
    <3> QED BY <3>1, <3>2
  <2>3. cancelled' \subseteq Slots
    BY <1>2 DEF ShutDown, CancelScaleDown, Types, TypeOK
  <2>4. TypeOK'
    BY <1>2, <2>2, <2>3 DEF ShutDown, Types, TypeOK, ScaleState, socketVars
  <2>5. \A k \in ScaleDowns :
          /\ Active(k)' => 1 <= sd'[k].target
          /\ sd'[k].at \in {"closing", "awaiting"} => 1 <= sd'[k].quota
    BY <2>1 DEF Types, Active, Idle
  <2> QED BY <2>4, <2>5 DEF Types
<1>3. CASE ScaleDownGone
  <2>1. CancelFrom(0)
    BY <1>3 DEF ScaleDownGone
  <2> QED BY <1>1, <1>3, <2>1 DEF ScaleDownGone, Types, TypeOK, Active, scaleVars
<1>4. CASE ConnectTaskGone
  <2>1. awaited + 1 \in Nat
    BY DEF Types, TypeOK, Slots
  <2>2. CancelFrom(awaited + 1)
    BY <1>4 DEF ConnectTaskGone
  <2> QED BY <1>1, <1>4, <2>1, <2>2 DEF ConnectTaskGone, Types, TypeOK, Active, scaleVars
<1> QED BY <1>2, <1>3, <1>4 DEF ShutDownGoesOn

LEMMA TypesStep ==
  Types /\ [Next]_vars => Types'
<1> SUFFICES ASSUME Types, [Next]_vars PROVE Types'
  OBVIOUS
<1>1. CASE Next
  BY <1>1, ConnectTypes, TrafficTypes, ScaleTypes, ShutDownTypes DEF Next
<1>2. CASE UNCHANGED vars
  BY <1>2 DEF vars, socketVars, scaleVars, Types, TypeOK, Active
<1> QED BY <1>1, <1>2

\* Cancellations: a step of a connect task.
LEMMA ConnectCancel ==
  ASSUME Types, running, CancelInv, NEW i \in Slots, ConnectTask(i) \/ BeatEnds(i)
  PROVE  CancelInv'
<1> USE DEF Types, TypeOK, Set, NextRound, Running, Uncancelled, scaleVars, socketVars,
           CancelInv, Awaited, Awaits
<1>1. CASE DialOk(i)
  BY <1>1 DEF DialOk
<1>2. CASE DialFails(i)
  BY <1>2 DEF DialFails
<1>3. CASE FailureSwept(i)
  BY <1>3 DEF FailureSwept
<1>4. CASE Redial(i)
  BY <1>4 DEF Redial
<1>5. CASE ChildEnds(i)
  BY <1>5 DEF ChildEnds
<1>6. CASE Reaped(i)
  BY <1>6 DEF Reaped
<1>7. CASE CancelSeen(i)
  BY <1>7 DEF CancelSeen
<1>8. CASE CancelSwallowed(i)
  BY <1>8 DEF CancelSwallowed
<1>9. CASE Left(i)
  BY <1>9 DEF Left
<1>10. CASE LeftInAHurry(i)
  BY <1>10 DEF LeftInAHurry
<1>11. CASE BeatEnds(i)
  BY <1>11 DEF BeatEnds
<1> QED BY <1>1, <1>2, <1>3, <1>4, <1>5, <1>6, <1>7, <1>8, <1>9, <1>10, <1>11
        DEF ConnectTask, Connect, Leaving

\* Cancellations: a step of a receive loop, of the network or of a connection.
LEMMA TrafficCancel ==
  ASSUME Types, running, CancelInv,
         \/ \E w \in Sockets : Receive(w) \/ WsLost(w)
         \/ \E c \in Conns : Open(c) \/ Send(c) \/ Close(c)
  PROVE  CancelInv'
<1> USE DEF Running, scaleVars, socketVars,
           CancelInv, Awaited, Awaits
<1>1. ASSUME NEW w \in Sockets, RecvEnds(w)
      PROVE  CancelInv'
  BY <1>1 DEF RecvEnds
<1>2. ASSUME NEW w \in Sockets, RecvRaises(w)
      PROVE  CancelInv'
  BY <1>2 DEF RecvRaises, CloseSlot
<1>3. ASSUME NEW w \in Sockets, RecvSwept(w)
      PROVE  CancelInv'
  BY <1>3 DEF RecvSwept, CloseSlot
<1>4. ASSUME NEW w \in Sockets, RecvCloses(w)
      PROVE  CancelInv'
  BY <1>4 DEF RecvCloses
<1>5. ASSUME NEW w \in Sockets, WsLost(w)
      PROVE  CancelInv'
  BY <1>5 DEF WsLost
<1>6. ASSUME NEW c \in Conns, Open(c)
      PROVE  CancelInv'
  BY <1>6 DEF Open, DropFailed
<1>7. ASSUME NEW c \in Conns, Send(c)
      PROVE  CancelInv'
  BY <1>7 DEF Send, DropFailed
<1>8. ASSUME NEW c \in Conns, Close(c)
      PROVE  CancelInv'
  BY <1>8 DEF Close
<1> QED BY <1>1, <1>2, <1>3, <1>4, <1>5, <1>6, <1>7, <1>8 DEF Receive

\* Leaving: a step of a connect task.
LEMMA ConnectLeave ==
  ASSUME Types, running, CancelInv, LeaveInv, NEW i \in Slots, ConnectTask(i) \/ BeatEnds(i)
  PROVE  LeaveInv'
<1> USE DEF Types, TypeOK, Set, NextRound, Running, Uncancelled, scaleVars, socketVars,
           CancelInv, LeaveInv, CanCancel, Awaits
<1>1. CASE DialOk(i)
  BY <1>1 DEF DialOk
<1>2. CASE DialFails(i)
  BY <1>2 DEF DialFails
<1>3. CASE FailureSwept(i)
  BY <1>3 DEF FailureSwept
<1>4. CASE Redial(i)
  BY <1>4 DEF Redial
<1>5. CASE ChildEnds(i)
  BY <1>5 DEF ChildEnds
<1>6. CASE Reaped(i)
  BY <1>6 DEF Reaped
<1>7. CASE CancelSeen(i)
  BY <1>7 DEF CancelSeen
<1>8. CASE CancelSwallowed(i)
  BY <1>8 DEF CancelSwallowed
<1>9. CASE Left(i)
  BY <1>9 DEF Left
<1>10. CASE LeftInAHurry(i)
  BY <1>10 DEF LeftInAHurry
<1>11. CASE BeatEnds(i)
  BY <1>11 DEF BeatEnds
<1> QED BY <1>1, <1>2, <1>3, <1>4, <1>5, <1>6, <1>7, <1>8, <1>9, <1>10, <1>11
        DEF ConnectTask, Connect, Leaving

\* Leaving: a step of a receive loop, of the network or of a connection.
LEMMA TrafficLeave ==
  ASSUME Types, running, LeaveInv,
         \/ \E w \in Sockets : Receive(w) \/ WsLost(w)
         \/ \E c \in Conns : Open(c) \/ Send(c) \/ Close(c)
  PROVE  LeaveInv'
<1> USE SocketNumbers DEF Types, TypeOK, scaleVars, socketVars,
           LeaveInv, CanCancel, Awaits
<1>1. ASSUME NEW w \in Sockets, RecvEnds(w)
      PROVE  LeaveInv'
  BY <1>1 DEF RecvEnds
<1>2. ASSUME NEW w \in Sockets, RecvRaises(w)
      PROVE  LeaveInv'
  BY <1>2 DEF RecvRaises, CloseSlot
<1>3. ASSUME NEW w \in Sockets, RecvSwept(w)
      PROVE  LeaveInv'
  BY <1>3 DEF RecvSwept, CloseSlot
<1>4. ASSUME NEW w \in Sockets, RecvCloses(w)
      PROVE  LeaveInv'
  BY <1>4 DEF RecvCloses
<1>5. ASSUME NEW w \in Sockets, WsLost(w)
      PROVE  LeaveInv'
  BY <1>5 DEF WsLost
<1>6. ASSUME NEW c \in Conns, Open(c)
      PROVE  LeaveInv'
  BY <1>6 DEF Open, DropFailed
<1>7. ASSUME NEW c \in Conns, Send(c)
      PROVE  LeaveInv'
  BY <1>7 DEF Send, DropFailed
<1>8. ASSUME NEW c \in Conns, Close(c)
      PROVE  LeaveInv'
  BY <1>8 DEF Close
<1> QED BY <1>1, <1>2, <1>3, <1>4, <1>5, <1>6, <1>7, <1>8 DEF Receive

\* WebSockets: a step of a connect task.
LEMMA ConnectSocket ==
  ASSUME Types, running, SocketInv, NEW i \in Slots, ConnectTask(i) \/ BeatEnds(i)
  PROVE  SocketInv'
<1> USE SocketNumbers DEF Types, TypeOK, Set, NextRound, Running, Uncancelled, scaleVars, socketVars, SocketInv, Free, None
<1>1. CASE DialOk(i)
  BY <1>1 DEF DialOk
<1>2. CASE DialFails(i)
  BY <1>2 DEF DialFails
<1>3. CASE FailureSwept(i)
  BY <1>3 DEF FailureSwept
<1>4. CASE Redial(i)
  BY <1>4 DEF Redial
<1>5. CASE ChildEnds(i)
  BY <1>5 DEF ChildEnds
<1>6. CASE Reaped(i)
  BY <1>6 DEF Reaped
<1>7. CASE CancelSeen(i)
  BY <1>7 DEF CancelSeen
<1>8. CASE CancelSwallowed(i)
  BY <1>8 DEF CancelSwallowed
<1>9. CASE Left(i)
  BY <1>9 DEF Left
<1>10. CASE LeftInAHurry(i)
  BY <1>10 DEF LeftInAHurry
<1>11. CASE BeatEnds(i)
  BY <1>11 DEF BeatEnds
<1> QED BY <1>1, <1>2, <1>3, <1>4, <1>5, <1>6, <1>7, <1>8, <1>9, <1>10, <1>11
        DEF ConnectTask, Connect, Leaving

\* A receive loop that ends closes what it finds in the pool.
LEMMA ClosesSlot ==
  ASSUME Types, SocketInv, NEW w \in Sockets, CloseSlot(w), w \notin live \/ recv[w] # "reading",
         UNCHANGED <<task, current, beat>>
  PROVE  SocketInv'
<1>1. SlotOf(w) \in Slots
  BY SocketNumbers
<1>2. \A i \in Slots : pool'[i] \in {pool[i], None}
  BY <1>1 DEF CloseSlot, Types, TypeOK
<1>3. \A v \in Sockets : v # w => recv'[v] = recv[v]
  BY DEF CloseSlot, Types, TypeOK
<1>4. live' \subseteq live /\ live \subseteq Sockets /\ None \notin Sockets
  BY SocketNumbers DEF CloseSlot, Types, TypeOK, None
<1>5. \A i \in Slots : pool[i] \in live => pool[i] # w
  BY DEF SocketInv
<1>6. ASSUME NEW i \in Slots, pool'[i] \in live'
      PROVE  pool'[i] = pool[i] /\ pool[i] \in live /\ recv'[pool[i]] = "reading"
  BY <1>2, <1>3, <1>4, <1>5, <1>6 DEF SocketInv
<1> QED BY <1>2, <1>6 DEF SocketInv

\* WebSockets: a step of a receive loop, of the network or of a connection.
LEMMA TrafficSocket ==
  ASSUME Types, running, SocketInv,
         \/ \E w \in Sockets : Receive(w) \/ WsLost(w)
         \/ \E c \in Conns : Open(c) \/ Send(c) \/ Close(c)
  PROVE  SocketInv'
<1> USE SocketNumbers DEF Types, TypeOK, scaleVars, socketVars, SocketInv, None
<1>1. ASSUME NEW w \in Sockets, RecvEnds(w)
      PROVE  SocketInv'
  BY <1>1 DEF RecvEnds
<1>2. ASSUME NEW w \in Sockets, RecvRaises(w)
      PROVE  SocketInv'
  <2>1. CASE NothingToSweep(SlotOf(w))
    BY <1>2, <2>1, ClosesSlot DEF RecvRaises
  <2>2. CASE ~ NothingToSweep(SlotOf(w))
    <3>1. /\ UNCHANGED <<pool, task, current, live, beat>>
          /\ recv' = [recv EXCEPT ![w] = "sweeping"] /\ w \notin live
      BY <1>2, <2>2 DEF RecvRaises
    <3>2. \A i \in Slots : pool[i] \in live => recv'[pool[i]] = recv[pool[i]]
      BY <3>1
    <3> QED BY <3>1, <3>2
  <2> QED BY <2>1, <2>2
<1>3. ASSUME NEW w \in Sockets, RecvSwept(w)
      PROVE  SocketInv'
  BY <1>3, ClosesSlot DEF RecvSwept
<1>4. ASSUME NEW w \in Sockets, RecvCloses(w)
      PROVE  SocketInv'
  BY <1>4 DEF RecvCloses
<1>5. ASSUME NEW w \in Sockets, WsLost(w)
      PROVE  SocketInv'
  BY <1>5 DEF WsLost
<1>6. ASSUME NEW c \in Conns, Open(c)
      PROVE  SocketInv'
  BY <1>6 DEF Open, DropFailed
<1>7. ASSUME NEW c \in Conns, Send(c)
      PROVE  SocketInv'
  BY <1>7 DEF Send, DropFailed
<1>8. ASSUME NEW c \in Conns, Close(c)
      PROVE  SocketInv'
  BY <1>8 DEF Close
<1> QED BY <1>1, <1>2, <1>3, <1>4, <1>5, <1>6, <1>7, <1>8 DEF Receive

-----------------------------------------------------------------------------
\* The monitor and the scale-downs.

\* The monitor cancels a connect task through the scale-down that awaits it, and
\* gives that scale-down up: it cannot cancel the task again.
LEMMA MonitorSteps ==
  ASSUME Types, ScaleUp \/ ScheduleScaleDown
  PROVE  /\ \A k \in ScaleDowns, i \in Slots : Awaits(k, i)' <=> Awaits(k, i)
         /\ \A i \in Slots : ~ CanCancel(i)'
         /\ cancelled' = cancelled \cup {i \in Slots : Running(i) /\ CanCancel(i)}
         /\ \A i \in Slots : \/ task'[i] = task[i]
                             \/ /\ task[i] = "none" /\ pool[i] = None
                                /\ task'[i] = "dialing"
         /\ UNCHANGED <<running, pool, current, live, recv, beat, closing>>
<1>1. cancelled' = cancelled \cup {i \in Slots : Running(i) /\ CanCancel(i)}
  BY DEF ScaleUp, ScheduleScaleDown, CancelScaleDown, CanCancel, Awaits
<1>2. UNCHANGED <<running, pool, current, live, recv, beat, closing>>
  BY DEF ScaleUp, ScheduleScaleDown, socketVars
<1>3. \A i \in Slots : \/ task'[i] = task[i]
                       \/ /\ task[i] = "none" /\ pool[i] = None
                          /\ task'[i] = "dialing"
  BY DEF ScaleUp, ScheduleScaleDown
<1>4. sd \in [ScaleDowns -> ScaleState] /\ sdTask \in ScaleDowns \cup {None} /\ Idle.at = "none"
  BY DEF Types, TypeOK, ScaleState, Idle
<1>5. CASE ScaleUp
  <2>1. CASE sdTask # None /\ Active(sdTask)
    <3>1. sd' = [sd EXCEPT ![sdTask] = Cancelled(sdTask)] /\ sdTask' = None
      BY <1>5, <2>1 DEF ScaleUp
    <3>2. \A k \in ScaleDowns, i \in Slots : Awaits(k, i)' <=> Awaits(k, i)
      BY <1>4, <2>1, <3>1 DEF Awaits, Cancelled
    <3> QED BY <1>1, <1>2, <1>3, <3>1, <3>2 DEF CanCancel
  <2>2. CASE ~ (sdTask # None /\ Active(sdTask))
    <3>1. sd' = sd /\ sdTask' = sdTask
      BY <1>5, <2>2 DEF ScaleUp, scaleVars
    <3>2. \A i \in Slots : ~ CanCancel(i)'
      BY <2>2, <3>1 DEF CanCancel, Awaits, Active
    <3> QED BY <1>1, <1>2, <1>3, <3>1, <3>2 DEF Awaits
  <2> QED BY <2>1, <2>2
<1>6. CASE ScheduleScaleDown
  <2>1. PICK k \in ScaleDowns :
          /\ k = sdTask => Cancelled(k) = Idle
          /\ k # sdTask => ~Active(k)
          /\ sd' = [j \in ScaleDowns |->
                   IF j = k THEN [Idle EXCEPT !.at = "delay", !.target = Target]
                   ELSE IF j = sdTask THEN Cancelled(j) ELSE sd[j]]
          /\ sdTask' = k
    BY <1>6 DEF ScheduleScaleDown
  <2>2. sd'[k].at = "delay"
    BY <2>1 DEF Idle
  <2>3. sd[k].at # "awaiting"
    BY <1>4, <2>1 DEF Cancelled, Active
  <2>4. ASSUME NEW j \in ScaleDowns, NEW i \in Slots
        PROVE  Awaits(j, i)' <=> Awaits(j, i)
    <3>1. CASE j = k
      BY <2>2, <2>3, <3>1 DEF Awaits
    <3>2. CASE j # k
      BY <1>4, <2>1, <3>2 DEF Awaits, Cancelled
    <3> QED BY <3>1, <3>2
  <2>5. \A i \in Slots : ~ CanCancel(i)'
    BY <2>1, <2>2 DEF CanCancel, Awaits
  <2> QED BY <1>1, <1>2, <1>3, <2>4, <2>5
<1> QED BY <1>5, <1>6

LEMMA MonitorBody ==
  ASSUME Types, Body, ScaleUp \/ ScheduleScaleDown
  PROVE  Body'
<1>1. /\ \A k \in ScaleDowns, i \in Slots : Awaits(k, i)' <=> Awaits(k, i)
      /\ \A i \in Slots : ~ CanCancel(i)'
      /\ cancelled' = cancelled \cup {i \in Slots : Running(i) /\ CanCancel(i)}
      /\ \A i \in Slots : \/ task'[i] = task[i]
                          \/ /\ task[i] = "none" /\ pool[i] = None
                             /\ task'[i] = "dialing"
      /\ UNCHANGED <<running, pool, current, live, recv, beat, closing>>
  BY MonitorSteps
<1>2. \A i \in Slots : Awaited(i)' <=> Awaited(i)
  BY <1>1 DEF Awaited
<1>3. \A i \in Slots : CanCancel(i) => Awaited(i)
  BY DEF CanCancel, Awaited, Types, TypeOK
<1>4. CancelInv'
  BY <1>1, <1>2, <1>3 DEF Body, CancelInv, Running
<1>5. LeaveInv'
  BY <1>1 DEF Body, LeaveInv
<1>6. SocketInv'
  BY <1>1 DEF Body, SocketInv
<1> QED BY <1>1, <1>4, <1>5, <1>6 DEF Body

\* A scale-down that closes a WebSocket and cancels its task.
LEMMA CancelsTask ==
  ASSUME Types, Body, NEW k \in ScaleDowns, SocketClosed(k), Running(sd[k].i)
  PROVE  Body'
<1> DEFINE i == sd[k].i
<1>1. /\ i \in Slots /\ sd \in [ScaleDowns -> ScaleState]
      /\ pool \in [Slots -> Sockets \cup {None}] /\ live \subseteq Sockets /\ None \notin Sockets
      /\ sdTask \in ScaleDowns \cup {None}
  BY SocketNumbers DEF Types, TypeOK, ScaleState, None
<1>2. /\ pool' = [pool EXCEPT ![i] = None]
      /\ cancelled' = cancelled \cup {i}
      /\ sd' = [sd EXCEPT ![k].at = "awaiting"]
      /\ UNCHANGED <<running, task, live, current, recv, beat, sdTask, closing>>
  BY DEF SocketClosed
<1>3. sd[k].at = "closing"
  BY DEF SocketClosed
<1>4. \A j \in Slots : pool'[j] = IF j = i THEN None ELSE pool[j]
  BY <1>1, <1>2
<1>5. \A h \in ScaleDowns, j \in Slots : Awaits(h, j)' <=> Awaits(h, j) \/ (h = k /\ j = i)
  <2> SUFFICES ASSUME NEW h \in ScaleDowns, NEW j \in Slots
               PROVE  Awaits(h, j)' <=> Awaits(h, j) \/ (h = k /\ j = i)
    OBVIOUS
  <2>1. CASE h = k
    BY <1>1, <1>2, <1>3, <2>1 DEF Awaits, ScaleState
  <2>2. CASE h # k
    BY <1>1, <1>2, <2>2 DEF Awaits
  <2> QED BY <2>1, <2>2
<1> HIDE DEF i
<1>6. \A j \in Slots : Awaited(j) \/ j = i => Awaited(j)'
  BY <1>5 DEF Awaited
<1>7. \A j \in Slots : j # i => (CanCancel(j)' <=> CanCancel(j))
  BY <1>1, <1>2, <1>5 DEF CanCancel
<1>8. CancelInv'
  BY <1>2, <1>6 DEF Body, CancelInv, Running, i
<1>9. LeaveInv'
  BY <1>2, <1>4, <1>7 DEF Body, LeaveInv
<1>10. SocketInv'
  BY <1>1, <1>2, <1>4 DEF Body, SocketInv
<1> QED BY <1>2, <1>8, <1>9, <1>10 DEF Body

\* A scale-down that goes on leaves the slot it was at without a task.
LEMMA AdvanceBody ==
  ASSUME Types, Body, NEW k \in ScaleDowns, Goes(k)
  PROVE  Body'
<1> DEFINE i == sd[k].i
<1>1. /\ i \in Slots /\ live' \subseteq live
      /\ \A j \in ScaleDowns : j # k => sd'[j] = sd[j]
      /\ sd'[k] = Idle \/ sd'[k].at = "closing"
  BY Advances
<1>2. /\ pool \in [Slots -> Sockets \cup {None}] /\ live \subseteq Sockets /\ None \notin Sockets
      /\ task \in [Slots -> {"none", "dialing", "waiting", "reaping", "failing", "backoff", "leaving", "ended"}]
      /\ sdTask \in ScaleDowns \cup {None}
  BY SocketNumbers DEF Types, TypeOK, None
<1>3. UNCHANGED <<running, cancelled, current, recv, beat, sdTask, closing>>
  BY DEF Goes, DelayEnds, SocketClosed, TaskGone
<1>4. \/ task' = task /\ pool' = pool /\ sd[k].at = "delay"
      \/ /\ task' = [task EXCEPT ![i] = "none"] /\ ~ Running(i)
         /\ pool' = [pool EXCEPT ![i] = None] \/ (pool' = pool /\ pool[i] = None)
  BY <1>1 DEF Goes, DelayEnds, SocketClosed, TaskGone, Set, Running, Body, LeaveInv
<1>5. /\ \A j \in Slots : \/ task'[j] = task[j] /\ pool'[j] = pool[j] /\ (sd[k].at # "delay" => j # i)
                          \/ task'[j] = "none" /\ ~ Running(j) /\ pool'[j] = None
  BY <1>1, <1>2, <1>4
<1>6. \A h \in ScaleDowns, j \in Slots : Awaits(h, j)' <=> Awaits(h, j) /\ h # k
  BY <1>1 DEF Awaits, Idle
<1>7. \A j \in Slots : Awaited(j) /\ (sd[k].at # "delay" => j # i) => Awaited(j)'
  BY <1>6 DEF Awaited, Awaits
<1>8. \A j \in Slots : CanCancel(j)' => CanCancel(j)
  BY <1>2, <1>3, <1>6 DEF CanCancel
<1> HIDE DEF i
<1>9. CancelInv'
  BY <1>3, <1>5, <1>7 DEF Body, CancelInv, Running
<1>10. LeaveInv'
  BY <1>3, <1>5, <1>8 DEF Body, LeaveInv
<1>11. SocketInv'
  BY <1>1, <1>2, <1>3, <1>5 DEF Body, SocketInv
<1> QED BY <1>3, <1>9, <1>10, <1>11 DEF Body

LEMMA InitBody ==
  Init => Body
BY SocketNumbers DEF Init, Body, CancelInv, LeaveInv, SocketInv, Running, CanCancel, None

LEMMA BodyStep ==
  ASSUME IInv, Next
  PROVE  running' => Body'
<1> SUFFICES ASSUME running' PROVE Body'
  OBVIOUS
<1>1. CASE \E i \in Slots : ConnectTask(i) \/ BeatEnds(i)
  <2>1. UNCHANGED <<running, closing>>
    BY <1>1 DEF ConnectTask, Connect, Leaving, DialOk, DialFails, FailureSwept, Redial, ChildEnds,
                Reaped, CancelSeen, CancelSwallowed, Left, LeftInAHurry, BeatEnds
  <2> QED BY <1>1, <2>1, ConnectCancel, ConnectLeave, ConnectSocket DEF IInv, Body
<1>2. CASE \/ \E w \in Sockets : Receive(w) \/ WsLost(w)
           \/ \E c \in Conns : Open(c) \/ Send(c) \/ Close(c)
  <2>1. UNCHANGED <<running, closing>>
    BY <1>2 DEF Receive, RecvEnds, RecvRaises, RecvSwept, RecvCloses, WsLost, Open, Send, Close
  <2> QED BY <1>2, <2>1, TrafficCancel, TrafficLeave, TrafficSocket DEF IInv, Body
<1>3. CASE ScaleUp \/ ScheduleScaleDown
  <2>1. UNCHANGED running
    BY <1>3, MonitorSteps DEF IInv
  <2> QED BY <1>3, <2>1, MonitorBody DEF IInv
<1>4. CASE \E k \in ScaleDowns : ScaleDown(k)
  <2>1. PICK k \in ScaleDowns : Goes(k) \/ (SocketClosed(k) /\ Running(sd[k].i))
    BY <1>4 DEF ScaleDown, Goes
  <2>2. UNCHANGED running
    BY <1>4 DEF ScaleDown, DelayEnds, SocketClosed, TaskGone
  <2> QED BY <2>1, <2>2, AdvanceBody, CancelsTask DEF IInv
<1>5. CASE ShutDown \/ ShutDownGoesOn
  <2>1. ~ running'
    BY <1>5 DEF ShutDown, ShutDownGoesOn, ScaleDownGone, ConnectTaskGone, IInv, Body
  <2> QED BY <2>1
<1> QED BY <1>1, <1>2, <1>3, <1>4, <1>5 DEF Next

-----------------------------------------------------------------------------
\* Theorems.

\* Whatever breaks, is scaled or shut down, the bookkeeping of the pool agrees: a
\* cancelled task is one a scale-down awaits, it takes its WebSocket out of the
\* pool before it ends, and a WebSocket that works has all its tasks.
THEOREM Invariant ==
  Spec => []IInv
<1>1. Init => IInv
  BY InitTypes, InitBody DEF IInv
<1>2. IInv /\ [Next]_vars => IInv'
  <2> SUFFICES ASSUME IInv, [Next]_vars PROVE IInv'
    OBVIOUS
  <2>1. Types'
    BY TypesStep DEF IInv
  <2>2. CASE Next
    BY <2>1, <2>2, BodyStep DEF IInv
  <2>3. CASE UNCHANGED vars
    <3>1. running => Body'
      BY <2>3 DEF vars, socketVars, scaleVars, IInv, Body, CancelInv, LeaveInv, SocketInv,
                  Awaited, Awaits, CanCancel, Running
    <3> QED BY <2>1, <2>3, <3>1 DEF IInv, vars
  <2> QED BY <2>2, <2>3
<1> QED BY <1>1, <1>2, PTL DEF Spec

\* The state of the pool is well-typed; a scale-down always has a target of at
\* least one WebSocket and less than all of them to close.
THEOREM TypeCorrect ==
  Spec => []TypeOK
<1>1. IInv => TypeOK
  BY DEF IInv, Types
<1> QED BY <1>1, Invariant, PTL

\* A slot that the scale-up does not find free has a task that goes on dialling or
\* a scale-down that will free it.
THEOREM SlotsAreKept ==
  Spec => []NoDeadSlot
<1>1. IInv => NoDeadSlot
  BY DEF IInv, Body, CancelInv, LeaveInv, NoDeadSlot, Awaited, Awaits
<1> QED BY <1>1, Invariant, PTL

\* What comes in on a WebSocket that messages are sent on is read.
THEOREM ReadersStay ==
  Spec => []ReaderAttached
<1>1. IInv => ReaderAttached
  BY DEF IInv, Body, SocketInv, ReaderAttached
<1> QED BY <1>1, Invariant, PTL

-----------------------------------------------------------------------------
\* The pool does not die as long as one scale-down at a time closes WebSockets.

LEMMA SomeOther ==
  ASSUME Types, EnoughInv, NEW k \in ScaleDowns, AtWork(k)
  PROVE  \E i \in Slots : Running(i) /\ i # sd[k].i
<1>1. Others(k) \subseteq Slots
  BY DEF Others
<1>2. IsFiniteSet(Others(k))
  BY <1>1, SlotsAreFinite
<1>3. sd[k].quota \in Nat /\ 1 <= sd[k].quota
  <2>1. sd[k] \in ScaleState
    BY DEF Types, TypeOK, ScaleState
  <2> QED BY <2>1 DEF Types, ScaleState, AtWork
<1>4. Cardinality(Others(k)) # 0
  <2>1. Cardinality(Others(k)) >= sd[k].quota
    BY DEF EnoughInv
  <2> QED BY <1>3, <2>1
<1>5. Others(k) # {}
  BY <1>2, <1>4, FS_EmptySet
<1> QED BY <1>5 DEF Others

\* Every step but the choice of the next WebSocket to close: a task is lost only
\* to the scale-down that awaits it.
LEMMA KeepsEnough ==
  ASSUME Types, EnoughInv, OneAtWork,
         \A k \in ScaleDowns : AtWork(k)' =>
           AtWork(k) /\ sd'[k].i = sd[k].i /\ sd'[k].quota = sd[k].quota,
         \A i \in Slots : Running(i) /\ ~ Awaited(i) => Running(i)'
  PROVE  EnoughInv'
<1>1. ASSUME NEW k \in ScaleDowns, AtWork(k), NEW i \in Slots, i # sd[k].i, Running(i)
      PROVE  Running(i)'
  <2>1. \A h \in ScaleDowns : Awaits(h, i) => h = k
    BY <1>1 DEF OneAtWork, AtWork, Awaits
  <2>2. ~ Awaited(i)
    BY <1>1, <2>1 DEF Awaited, Awaits
  <2> QED BY <1>1, <2>2
<1>2. ASSUME NEW k \in ScaleDowns, AtWork(k)'
      PROVE  Cardinality(Others(k)') >= sd'[k].quota
  <2>1. AtWork(k) /\ sd'[k].i = sd[k].i /\ sd'[k].quota = sd[k].quota
    BY <1>2
  <2>2. Others(k) \subseteq Others(k)' /\ Others(k) \subseteq Slots /\ Others(k)' \subseteq Slots
    BY <1>1, <2>1 DEF Others
  <2>3. IsFiniteSet(Others(k)') /\ Cardinality(Others(k)') \in Nat /\ Cardinality(Others(k)) \in Nat
    BY <2>2, SlotsAreFinite
  <2>4. Cardinality(Others(k)) <= Cardinality(Others(k)')
    BY <2>2, <2>3, FS_Subset
  <2>5. Cardinality(Others(k)) >= sd[k].quota
    BY <2>1 DEF EnoughInv
  <2>6. sd[k].quota \in Nat
    BY DEF Types, TypeOK
  <2> QED BY <2>1, <2>3, <2>4, <2>5, <2>6
<1>3. ASSUME \A k \in ScaleDowns : ~ AtWork(k)'
      PROVE  \E i \in Slots : Running(i)'
  <2>1. CASE \A k \in ScaleDowns : ~ AtWork(k)
    <3>1. \A i \in Slots : ~ Awaited(i)
      BY <2>1 DEF Awaited, Awaits, AtWork
    <3> QED BY <2>1, <3>1 DEF EnoughInv
  <2>2. ASSUME NEW k \in ScaleDowns, AtWork(k)
        PROVE  \E i \in Slots : Running(i)'
    <3>1. PICK i \in Slots : Running(i) /\ i # sd[k].i
      BY <2>2, SomeOther
    <3> QED BY <1>1, <2>2, <3>1
  <2> QED BY <2>1, <2>2
<1> QED BY <1>2, <1>3 DEF EnoughInv

\* Every WebSocket of the pool has its task, so that those beyond the target are
\* fewer than the tasks.
LEMMA ClosesNoneTooMany ==
  ASSUME Types, Body, EnoughInv, NEW k \in ScaleDowns, Goes(k)
  PROVE  /\ StillToClose(k) \in Int
         /\ StillToClose(k) <= Cardinality({i \in Slots : Running(i)}) - 1
<1> DEFINE R == {i \in Slots : Running(i)}
<1>1. IsFiniteSet(R) /\ Cardinality(R) \in Nat
  <2>1. R \subseteq Slots OBVIOUS
  <2> HIDE DEF R
  <2> QED BY <2>1, SlotsAreFinite
<1>2. \A S : S \subseteq R => Cardinality(S) \in Nat /\ Cardinality(S) <= Cardinality(R)
  <2> SUFFICES ASSUME NEW S, S \subseteq R
               PROVE  Cardinality(S) \in Nat /\ Cardinality(S) <= Cardinality(R)
    OBVIOUS
  <2> HIDE DEF R
  <2>1. IsFiniteSet(S) /\ Cardinality(S) <= Cardinality(R)
    BY <1>1, FS_Subset
  <2> QED BY <2>1, FS_CardinalityType
<1>3. sd[k] \in ScaleState /\ Active(k)
  BY DEF Types, TypeOK, ScaleState, Goes, DelayEnds, SocketClosed, TaskGone, Active
<1>4. sd[k].target \in Nat /\ 1 <= sd[k].target /\ sd[k].quota \in Nat
  BY <1>3 DEF Types, ScaleState
<1>5. CASE sd[k].at = "delay"
  <2>1. {i \in Slots : pool[i] # None} \subseteq R
    BY DEF Body, LeaveInv, Running
  <2>2. PoolCount \in Nat /\ PoolCount <= Cardinality(R)
    BY <1>2, <2>1 DEF PoolCount
  <2>3. StillToClose(k) = PoolCount - sd[k].target
    BY <1>5 DEF StillToClose
  <2> QED BY <1>1, <1>4, <2>2, <2>3
<1>6. CASE sd[k].at # "delay"
  <2>1. AtWork(k)
    BY <1>6 DEF Goes, DelayEnds, SocketClosed, TaskGone, AtWork
  <2>2. Others(k) \subseteq R
    BY DEF Others
  <2>3. Cardinality(Others(k)) \in Nat /\ Cardinality(Others(k)) <= Cardinality(R)
    BY <1>2, <2>2
  <2>4. Cardinality(Others(k)) >= sd[k].quota
    BY <2>1 DEF EnoughInv
  <2>5. StillToClose(k) = sd[k].quota - 1
    BY <1>6 DEF StillToClose
  <2> QED BY <1>1, <1>4, <2>3, <2>4, <2>5
<1> QED BY <1>5, <1>6

LEMMA AdvanceEnough ==
  ASSUME Types, Body, EnoughInv, OneAtWork, OneAtWork', NEW k \in ScaleDowns, Goes(k)
  PROVE  EnoughInv'
<1> DEFINE R == {i \in Slots : Running(i)}
<1>1. /\ sd[k].i \in Slots /\ sd' \in [ScaleDowns -> ScaleState]
      /\ \A j \in ScaleDowns : j # k => sd'[j] = sd[j]
  BY Advances
<1>2. \A i \in Slots : Running(i) <=> Running(i)'
  BY <1>1 DEF Goes, DelayEnds, SocketClosed, TaskGone, Set, Running, Types, TypeOK
<1>3. CASE sd'[k] = Idle
  <2>1. \A j \in ScaleDowns : AtWork(j)' => sd'[j] = sd[j]
    BY <1>1, <1>3 DEF AtWork, Idle
  <2>2. \A j \in ScaleDowns : AtWork(j)' =>
           AtWork(j) /\ sd'[j].i = sd[j].i /\ sd'[j].quota = sd[j].quota
    BY <2>1 DEF AtWork
  <2> QED BY <1>2, <2>2, KeepsEnough
<1>4. CASE sd'[k] # Idle
  <2>1. sd'[k].at = "closing" /\ sd'[k].quota = StillToClose(k)
    BY <1>4, Advances
  <2>2. AtWork(k)' /\ \A j \in ScaleDowns : AtWork(j)' => j = k
    BY <2>1 DEF AtWork, OneAtWork
  <2>3. IsFiniteSet(R) /\ Cardinality(R) \in Nat
    <3>1. R \subseteq Slots OBVIOUS
    <3> HIDE DEF R
    <3> QED BY <3>1, SlotsAreFinite
  <2>4. Others(k)' = R \ {sd'[k].i}
    BY <1>2 DEF Others
  <2>5. StillToClose(k) \in Int /\ StillToClose(k) <= Cardinality(R) - 1
    BY ClosesNoneTooMany
  <2> HIDE DEF R
  <2>6. Cardinality(Others(k)') \in {Cardinality(R), Cardinality(R) - 1}
    BY <2>3, <2>4, FS_RemoveElement
  <2>7. Cardinality(Others(k)') >= sd'[k].quota
    BY <2>1, <2>3, <2>5, <2>6
  <2> QED BY <2>2, <2>7 DEF EnoughInv
<1> QED BY <1>3, <1>4

LEMMA EnoughStep ==
  ASSUME IInv, IInv', OneAtWork, OneAtWork', running => EnoughInv, Next
  PROVE  running' => EnoughInv'
<1> SUFFICES ASSUME running' PROVE EnoughInv'
  OBVIOUS
<1>1. CASE \E i \in Slots : ConnectTask(i) \/ BeatEnds(i)
  <2>1. PICK i \in Slots : ConnectTask(i) \/ BeatEnds(i)
    BY <1>1
  <2>2. running /\ sd' = sd
    BY <2>1 DEF ConnectTask, Connect, Leaving, DialOk, DialFails, FailureSwept, Redial, ChildEnds,
                Reaped, CancelSeen, CancelSwallowed, Left, LeftInAHurry, BeatEnds, scaleVars
  <2>3. \A j \in Slots : Running(j) /\ j \notin cancelled /\ task[j] # "leaving" => Running(j)'
    <3> USE <2>2 DEF Running, Set, NextRound, IInv, Types, TypeOK
    <3>1. CASE DialOk(i) \/ DialFails(i) \/ FailureSwept(i) \/ Redial(i)
      BY <3>1 DEF DialOk, DialFails, FailureSwept, Redial
    <3>2. CASE ChildEnds(i) \/ Reaped(i) \/ BeatEnds(i)
      BY <3>2 DEF ChildEnds, Reaped, BeatEnds
    <3>3. CASE CancelSeen(i) \/ CancelSwallowed(i) \/ Left(i) \/ LeftInAHurry(i)
      BY <3>3 DEF CancelSeen, CancelSwallowed, Left, LeftInAHurry
    <3> QED BY <2>1, <3>1, <3>2, <3>3 DEF ConnectTask, Connect, Leaving
  <2>4. \A j \in Slots : Running(j) /\ ~ Awaited(j) => Running(j)'
    BY <2>2, <2>3 DEF IInv, Body, CancelInv
  <2> QED BY <2>2, <2>4, KeepsEnough DEF IInv, AtWork
<1>2. CASE \/ \E w \in Sockets : Receive(w) \/ WsLost(w)
           \/ \E c \in Conns : Open(c) \/ Send(c) \/ Close(c)
  <2>1. running /\ sd' = sd /\ task' = task
    BY <1>2 DEF Receive, RecvEnds, RecvRaises, RecvSwept, RecvCloses, WsLost, Open, Send, Close, scaleVars
  <2> QED BY <2>1, KeepsEnough DEF IInv, AtWork, Running
<1>3. CASE ScaleUp \/ ScheduleScaleDown
  <2>1. /\ running
        /\ \A i \in Slots : Running(i) => Running(i)'
    BY <1>3, MonitorSteps DEF IInv, Running
  <2>2. sd \in [ScaleDowns -> ScaleState] /\ sdTask \in ScaleDowns \cup {None}
    BY DEF IInv, Types, TypeOK, ScaleState
  <2>3. \A k \in ScaleDowns : AtWork(k)' => sd'[k] = sd[k]
    <3>0. Idle.at = "none" /\ [Idle EXCEPT !.at = "delay", !.target = Target].at = "delay"
      BY DEF Idle
    <3>1. CASE ScaleUp
      BY <2>2, <3>0, <3>1 DEF ScaleUp, AtWork, Cancelled, scaleVars
    <3>2. CASE ScheduleScaleDown
      <4>1. \A k \in ScaleDowns :
              \/ sd'[k] = [Idle EXCEPT !.at = "delay", !.target = Target]
              \/ sd'[k] \in {sd[k], Idle}
        BY <3>2 DEF ScheduleScaleDown, Cancelled
      <4> QED BY <3>0, <4>1 DEF AtWork
    <3> QED BY <1>3, <3>1, <3>2
  <2>4. \A k \in ScaleDowns : AtWork(k)' =>
           AtWork(k) /\ sd'[k].i = sd[k].i /\ sd'[k].quota = sd[k].quota
    BY <2>3 DEF AtWork
  <2> QED BY <2>1, <2>4, KeepsEnough DEF IInv
<1>4. CASE \E k \in ScaleDowns : ScaleDown(k)
  <2>1. PICK k \in ScaleDowns : Goes(k) \/ (SocketClosed(k) /\ Running(sd[k].i))
    BY <1>4 DEF ScaleDown, Goes
  <2>2. running
    BY <1>4 DEF ScaleDown, DelayEnds, SocketClosed, TaskGone
  <2>3. CASE Goes(k)
    BY <2>2, <2>3, AdvanceEnough DEF IInv
  <2>4. CASE SocketClosed(k) /\ Running(sd[k].i)
    <3>1. sd' = [sd EXCEPT ![k].at = "awaiting"] /\ task' = task /\ sd[k].at = "closing"
      BY <2>4 DEF SocketClosed
    <3>2. sd \in [ScaleDowns -> ScaleState]
      BY DEF IInv, Types, TypeOK, ScaleState
    <3>3. \A j \in ScaleDowns : AtWork(j)' =>
             AtWork(j) /\ sd'[j].i = sd[j].i /\ sd'[j].quota = sd[j].quota
      BY <3>1, <3>2 DEF AtWork, ScaleState
    <3> QED BY <2>2, <3>1, <3>3, KeepsEnough DEF IInv, Running
  <2> QED BY <2>1, <2>3, <2>4
<1>5. CASE ShutDown \/ ShutDownGoesOn
  BY <1>5 DEF ShutDown, ShutDownGoesOn, ScaleDownGone, ConnectTaskGone, IInv, Body
<1> QED BY <1>1, <1>2, <1>3, <1>4, <1>5 DEF Next

\* As long as no two scale-downs close WebSockets at once, scaling down leaves the
\* pool a connect task that goes on, whatever breaks and whoever is cancelled.
THEOREM PoolSurvives ==
  Spec => PoolNeverDies
<1>1. Init => EnoughInv
  <2> SUFFICES ASSUME Init PROVE EnoughInv
    OBVIOUS
  <2>1. InitialCount >= 1 /\ InitialCount \in Nat
    <3>1. PoolSize \div 2 \in Nat
      OBVIOUS
    <3>2. Max({1, PoolSize \div 2}) \in Nat /\ Max({1, PoolSize \div 2}) >= 1
      BY <3>1, OfTwo
    <3> DEFINE n == Max({1, PoolSize \div 2})
    <3> HIDE DEF n
    <3>3. Min({2, n}) \in {2, n}
      BY <3>2, OfTwo DEF n
    <3>4. InitialCount = Min({2, n})
      BY DEF InitialCount, n
    <3> QED BY <3>2, <3>3, <3>4 DEF n
  <2>2. 0 \in Slots /\ task[0] = "dialing"
    BY <2>1 DEF Init, Slots
  <2>3. \A k \in ScaleDowns : ~ AtWork(k)
    BY DEF Init, AtWork, Idle
  <2> QED BY <2>2, <2>3 DEF EnoughInv, Running
<1>2. /\ IInv /\ IInv' /\ OneAtWork /\ OneAtWork' /\ [Next]_vars
      /\ (running => EnoughInv)
      => (running' => EnoughInv')
  <2> SUFFICES ASSUME IInv, IInv', OneAtWork, OneAtWork', [Next]_vars, running => EnoughInv
               PROVE  running' => EnoughInv'
    OBVIOUS
  <2>1. CASE UNCHANGED vars
    BY <2>1 DEF vars, scaleVars, EnoughInv, Others, Running, AtWork
  <2> QED BY <2>1, EnoughStep
<1>3. IInv /\ OneAtWork /\ (running => EnoughInv) => SlotLives
  <2> SUFFICES ASSUME IInv, OneAtWork, EnoughInv, running
               PROVE  \E i \in Slots : Running(i) /\ ~ Awaited(i)
    BY DEF SlotLives, IInv, Body, CancelInv
  <2>1. CASE \A k \in ScaleDowns : ~ AtWork(k)
    BY <2>1 DEF EnoughInv, Awaited, Awaits, AtWork
  <2>2. ASSUME NEW k \in ScaleDowns, AtWork(k)
        PROVE  \E i \in Slots : Running(i) /\ ~ Awaited(i)
    <3>1. PICK i \in Slots : Running(i) /\ i # sd[k].i
      BY <2>2, SomeOther DEF IInv
    <3>2. ~ Awaited(i)
      BY <2>2, <3>1 DEF OneAtWork, AtWork, Awaited, Awaits
    <3> QED BY <3>1, <3>2
  <2> QED BY <2>1, <2>2
<1> QED BY <1>1, <1>2, <1>3, Invariant, PTL DEF Spec, PoolNeverDies
====
