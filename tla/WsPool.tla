-------------------------------- MODULE WsPool --------------------------------
(***************************************************************************)
(* WebSocketClient, the pool of WebSockets of the client: the connect task *)
(* of each slot with the receive loop and the heartbeat of its WebSocket,  *)
(* the scaling of the pool, the routing of messages, and close().          *)
(*                                                                         *)
(* All of it runs on one asyncio loop; an action is the code between two   *)
(* awaits that can suspend.  A task that is cancelled sees it at the await *)
(* it is suspended in, and what it does there is part of the model.        *)
(***************************************************************************)
EXTENDS Naturals, FiniteSets, FiniteSetsExt

CONSTANTS
  PoolSize,  \* pool_size, 8 by default
  Conns,     \* conn_ids, as the numbers the code hashes
  PerSlot,   \* bound: WebSockets of a slot that something still refers to
  MaxScaleDowns \* bound: scale-down tasks, with those that outlive a cancellation

ASSUME PoolSizeAssumption == PoolSize \in Nat \ {0}
ASSUME ConnsAssumption == Conns \subseteq Nat /\ IsFiniteSet(Conns)
ASSUME PerSlotAssumption == PerSlot \in Nat \ {0}
ASSUME MaxScaleDownsAssumption == MaxScaleDowns \in Nat

Slots   == 0..(PoolSize - 1)
Sockets == 1..(PoolSize * PerSlot)
SlotOf(w) == (w - 1) % PoolSize   \* the index a WebSocket was made for
None    == 0
ScaleDowns == 1..MaxScaleDowns

VARIABLES
  running,
  pool,       \* ws_pool
  task,       \* ws_tasks: where the connect task of a slot is suspended
  cancelled,  \* slots whose task has a cancellation to see
  current,    \* the WebSocket a connect task waits for
  live,       \* the WebSockets on which send() works
  recv,       \* its _receive_loop
  beat,       \* slots whose task has a running _heartbeat_loop; one that is left
              \* behind only sends, and ends when that fails
  conns,      \* the open connections of the client
  sd,         \* the _scale_down_delayed tasks
  sdTask,     \* scale_down_task
  sdTarget,   \* scale_down_target
  closing,    \* close(): "no", "scaleDown", "tasks", "done"
  awaited     \* the slot whose task close() awaits

socketVars == <<live, recv, beat>>
scaleVars  == <<sd, sdTask, sdTarget>>
vars == <<running, pool, task, cancelled, current, socketVars, conns, scaleVars, closing, awaited>>

Idle == [at |-> "none", target |-> 0, quota |-> 0, i |-> 0]

TypeOK ==
  /\ running \in BOOLEAN /\ pool \in [Slots -> Sockets \cup {None}]
  /\ task \in [Slots -> {"none", "dialing", "waiting", "reaping", "failing", "backoff", "leaving", "ended"}]
  /\ cancelled \subseteq Slots /\ current \in [Slots -> Sockets \cup {None}]
  /\ live \subseteq Sockets
  /\ recv \in [Sockets -> {"none", "reading", "sweeping", "closing"}]
  /\ beat \subseteq Slots
  /\ conns \subseteq Conns
  /\ sd \in [ScaleDowns -> [at : {"none", "delay", "closing", "awaiting"},
                            target : 0..(PoolSize - 1), quota : 0..(PoolSize - 1), i : Slots]]
  /\ sdTask \in ScaleDowns \cup {None} /\ sdTarget \in 0..(PoolSize - 1)
  /\ closing \in {"no", "scaleDown", "tasks", "done"} /\ awaited \in Slots

InitialCount == Min({2, Max({1, PoolSize \div 2})})

Init ==
  /\ running = TRUE /\ pool = [i \in Slots |-> None]
  /\ task = [i \in Slots |-> IF i < InitialCount THEN "dialing" ELSE "none"]
  /\ cancelled = {} /\ current = [i \in Slots |-> None]
  /\ live = {}
  /\ recv = [w \in Sockets |-> "none"] /\ beat = {}
  /\ conns = {}
  /\ sd = [k \in ScaleDowns |-> Idle] /\ sdTask = None /\ sdTarget = 0
  /\ closing = "no" /\ awaited = 0

Home(c)   == c % PoolSize
Running(i) == task[i] \notin {"none", "ended"}
PoolCount == Cardinality({i \in Slots : pool[i] # None})

\* A WebSocket nothing refers to any more: its number can be used again.
Free(w) ==
  /\ w \notin live /\ recv[w] = "none"
  /\ \A i \in Slots : w \notin {pool[i], current[i]}

\* _cleanup_connections_for_ws closes the connections that hash to the slot.
Without(C, S) == conns' = {c \in C : Home(c) \notin S}
Sweep(i) == Without(conns, {i})
NothingToSweep(i) == \A c \in conns : Home(c) # i   \* then it does not suspend

-----------------------------------------------------------------------------
\* _connect_single.

Set(i, state) == task' = [task EXCEPT ![i] = state]
Uncancelled(i) == i \notin cancelled

\* Mutant of NextRound: the loop does not look at running.
NextRoundAlways == "dialing"

NextRound == IF running THEN "dialing" ELSE "ended"

DialOk(i) ==
  /\ task[i] = "dialing" /\ Uncancelled(i)
  /\ \E w \in Sockets :
       /\ SlotOf(w) = i /\ Free(w)
       /\ \A v \in Sockets : SlotOf(v) = i /\ Free(v) => w <= v
       /\ pool' = [pool EXCEPT ![i] = w]
       /\ current' = [current EXCEPT ![i] = w]
       /\ live' = live \cup {w}
       /\ recv' = [recv EXCEPT ![w] = "reading"]
       /\ beat' = beat \cup {i}
  /\ Set(i, "waiting")
  /\ UNCHANGED <<running, cancelled, conns, scaleVars, closing, awaited>>

DialFails(i) ==
  /\ task[i] = "dialing" /\ Uncancelled(i)
  /\ Sweep(i)
  /\ IF NothingToSweep(i)
     THEN pool' = [pool EXCEPT ![i] = None] /\ Set(i, "backoff")
     ELSE Set(i, "failing") /\ UNCHANGED pool
  /\ UNCHANGED <<running, cancelled, current, socketVars, scaleVars, closing, awaited>>

FailureSwept(i) ==
  /\ task[i] = "failing" /\ Uncancelled(i)
  /\ pool' = [pool EXCEPT ![i] = None]
  /\ Set(i, "backoff")
  /\ UNCHANGED <<running, cancelled, current, socketVars, conns, scaleVars, closing, awaited>>

\* Mutant of Redial: the connect task gives up after a failure.
RedialGivesUp(i) ==
  /\ task[i] = "backoff" /\ Uncancelled(i)
  /\ Set(i, "ended")
  /\ UNCHANGED <<running, pool, cancelled, current, socketVars, conns, scaleVars, closing, awaited>>

Redial(i) ==
  /\ task[i] = "backoff" /\ Uncancelled(i)
  /\ Set(i, NextRound)
  /\ UNCHANGED <<running, pool, cancelled, current, socketVars, conns, scaleVars, closing, awaited>>

\* asyncio.wait returns: the task that is left is cancelled and awaited.
ChildEnds(i) ==
  LET w == current[i] IN
  /\ task[i] = "waiting" /\ Uncancelled(i)
  /\ recv[w] = "none" \/ i \notin beat
  /\ IF recv[w] = "none" /\ i \notin beat
     THEN Set(i, NextRound) /\ current' = [current EXCEPT ![i] = None]
     ELSE Set(i, "reaping") /\ UNCHANGED current
  /\ UNCHANGED <<running, pool, cancelled, socketVars, conns, scaleVars, closing, awaited>>

\* The child ends where it was suspended.  A cancellation of the connect task is
\* lost here: "except asyncio.CancelledError: pass" takes it for the child's.
Reaped(i) ==
  LET w == current[i] IN
  /\ task[i] = "reaping"
  /\ recv' = [recv EXCEPT ![w] = "none"]
  /\ beat' = beat \ {i}
  /\ cancelled' = cancelled \ {i}
  /\ current' = [current EXCEPT ![i] = None]
  /\ Set(i, NextRound)
  /\ UNCHANGED <<running, pool, live, conns, scaleVars, closing, awaited>>

\* Mutant of CancelSeen: the cancelled task leaves its WebSocket in the pool.
CancelSeenKeepsSocket(i) ==
  /\ i \in cancelled /\ task[i] \in {"dialing", "waiting", "failing", "backoff"}
  /\ cancelled' = cancelled \ {i}
  /\ current' = [current EXCEPT ![i] = None]
  /\ beat' = beat \ {i}
  /\ Sweep(i)
  /\ Set(i, "ended")
  /\ UNCHANGED <<running, pool, live, recv, scaleVars, closing, awaited>>

\* The children of a cancelled task go on.
CancelSeen(i) ==
  /\ i \in cancelled /\ task[i] \in {"dialing", "waiting", "failing", "backoff"}
  /\ cancelled' = cancelled \ {i}
  /\ current' = [current EXCEPT ![i] = None]
  /\ beat' = beat \ {i}
  /\ Sweep(i)
  /\ IF NothingToSweep(i)
     THEN pool' = [pool EXCEPT ![i] = None] /\ Set(i, "ended")
     ELSE Set(i, "leaving") /\ UNCHANGED pool
  /\ UNCHANGED <<running, live, recv, scaleVars, closing, awaited>>

\* close() of a swept connection swallows the cancellation of its caller.
CancelSwallowed(i) ==
  /\ i \in cancelled /\ task[i] \in {"failing", "leaving"}
  /\ cancelled' = cancelled \ {i}
  /\ UNCHANGED <<running, pool, task, current, socketVars, conns, scaleVars, closing, awaited>>

Left(i) ==
  /\ task[i] = "leaving" /\ Uncancelled(i)
  /\ pool' = [pool EXCEPT ![i] = None]
  /\ Set(i, "ended")
  /\ UNCHANGED <<running, cancelled, current, socketVars, conns, scaleVars, closing, awaited>>

\* A second cancellation ends the clean-up.
LeftInAHurry(i) ==
  /\ task[i] = "leaving" /\ i \in cancelled
  /\ cancelled' = cancelled \ {i}
  /\ Set(i, "ended")
  /\ UNCHANGED <<running, pool, current, socketVars, conns, scaleVars, closing, awaited>>

-----------------------------------------------------------------------------
\* _receive_loop and _heartbeat_loop.

\* The iterator ends: after a closing handshake, or with a threaded adapter.
RecvEnds(w) ==
  /\ recv[w] = "reading" /\ w \notin live
  /\ recv' = [recv EXCEPT ![w] = "none"]
  /\ UNCHANGED <<running, pool, task, cancelled, current, live, beat, conns, scaleVars, closing, awaited>>

\* It closes what is in the pool by now, which takes time when that still works.
CloseSlot(w) ==
  /\ IF pool[SlotOf(w)] \in live
     THEN recv' = [recv EXCEPT ![w] = "closing"] /\ UNCHANGED pool
     ELSE recv' = [recv EXCEPT ![w] = "none"] /\ pool' = [pool EXCEPT ![SlotOf(w)] = None]
  /\ live' = live \ {pool[SlotOf(w)]}

RecvRaises(w) ==
  /\ recv[w] = "reading" /\ w \notin live
  /\ Sweep(SlotOf(w))
  /\ IF NothingToSweep(SlotOf(w))
     THEN CloseSlot(w)
     ELSE recv' = [recv EXCEPT ![w] = "sweeping"] /\ UNCHANGED <<pool, live>>
  /\ UNCHANGED <<running, task, cancelled, current, beat, scaleVars, closing, awaited>>

RecvSwept(w) ==
  /\ recv[w] = "sweeping"
  /\ CloseSlot(w)
  /\ UNCHANGED <<running, task, cancelled, current, beat, conns, scaleVars, closing, awaited>>

RecvCloses(w) ==
  /\ recv[w] = "closing"
  /\ recv' = [recv EXCEPT ![w] = "none"]
  /\ pool' = [pool EXCEPT ![SlotOf(w)] = None]
  /\ UNCHANGED <<running, task, cancelled, current, live, beat, conns, scaleVars, closing, awaited>>

\* Mutant of BeatEnds: recent activity ends the heartbeat where it should skip one.
BeatEndsOnActivity(i) ==
  /\ i \in beat
  /\ beat' = beat \ {i}
  /\ UNCHANGED <<running, pool, task, cancelled, current, live, recv, conns, scaleVars, closing, awaited>>

BeatEnds(i) ==
  /\ i \in beat /\ (current[i] \notin live \/ pool[i] = None \/ ~running)
  /\ beat' = beat \ {i}
  /\ UNCHANGED <<running, pool, task, cancelled, current, live, recv, conns, scaleVars, closing, awaited>>

WsLost(w) ==
  /\ w \in live
  /\ live' = live \ {w}
  /\ UNCHANGED <<running, pool, task, cancelled, current, recv, beat, conns, scaleVars, closing, awaited>>

-----------------------------------------------------------------------------
\* send_message: the WebSocket of the home slot, or the next one that works.

Attempt(c, n) == (Home(c) + n) % PoolSize
Working(c) == {n \in Slots : pool[Attempt(c, n)] \in live}
Attempts(c) == IF Working(c) = {} THEN PoolSize ELSE Min(Working(c))
Route(c) == pool[Attempt(c, Attempts(c))]

\* A WebSocket on which send() raises leaves the pool, and its slot is swept.
Failed(c) == {i \in {Attempt(c, n) : n \in 0..(Attempts(c) - 1)} : pool[i] # None}
DropFailed(c) == pool' = [i \in Slots |-> IF i \in Failed(c) THEN None ELSE pool[i]]

\* An accepted connection sends CONNECT; when it cannot, it ends.
Open(c) ==
  /\ running /\ c \notin conns
  /\ DropFailed(c)
  /\ IF Working(c) = {}
     THEN Without(conns, Failed(c))
     ELSE Without(conns \cup {c}, Failed(c))
  /\ UNCHANGED <<running, task, cancelled, current, socketVars, scaleVars, closing, awaited>>

\* An open connection sends DATA; when it cannot, its upload ends.
Send(c) ==
  /\ running /\ c \in conns
  /\ DropFailed(c)
  /\ Without(conns, Failed(c))
  /\ UNCHANGED <<running, task, cancelled, current, socketVars, scaleVars, closing, awaited>>

Close(c) ==
  /\ c \in conns
  /\ conns' = conns \ {c}
  /\ UNCHANGED <<running, pool, task, cancelled, current, socketVars, scaleVars, closing, awaited>>

-----------------------------------------------------------------------------
\* _scale_pool, every ten seconds.

\* Mutant of Target: no WebSocket is kept when there are no connections.
TargetWithoutMinimum == Min({Cardinality(conns), PoolSize})

Target == Max({1, Min({Cardinality(conns), PoolSize})})   \* _calculate_target_ws
Active(k) == sd[k].at # "none"

\* scale_down_task.cancel(): in the delay and in ws.close() it ends the task; in
\* "await self.ws_tasks[i]" it reaches the connect task and is swallowed.
Cancelled(k) == IF sd[k].at = "awaiting" THEN sd[k] ELSE Idle
CancelScaleDown ==
  cancelled' = cancelled \cup {i \in Slots : Running(i) /\ sdTask # None
                                              /\ sd[sdTask].at = "awaiting" /\ sd[sdTask].i = i}

\* The loop runs the tasks it has woken before the timer of the monitor.
Tick == running /\ \A k \in ScaleDowns : sd[k].at = "awaiting" => Running(sd[k].i)

ScaleUp ==
  LET free   == {i \in Slots : pool[i] = None /\ task[i] = "none"}
      lowest == {i \in free : Cardinality({j \in free : j < i}) < Target - PoolCount}
  IN
  /\ Tick /\ Target > PoolCount
  /\ task' = [i \in Slots |-> IF i \in lowest THEN "dialing" ELSE task[i]]
  /\ CancelScaleDown
  /\ IF sdTask # None /\ Active(sdTask)
     THEN sd' = [sd EXCEPT ![sdTask] = Cancelled(sdTask)] /\ sdTask' = None /\ sdTarget' = 0
     ELSE UNCHANGED scaleVars
  /\ UNCHANGED <<running, pool, current, socketVars, conns, closing, awaited>>

ScheduleScaleDown ==
  /\ Tick /\ Target < PoolCount
  /\ ~(sdTask # None /\ Active(sdTask) /\ sdTarget = Target)
  /\ CancelScaleDown
  /\ \E k \in ScaleDowns :
       /\ k = sdTask => Cancelled(k) = Idle
       /\ k # sdTask => ~Active(k)
       /\ sd' = [j \in ScaleDowns |->
                   IF j = k THEN [Idle EXCEPT !.at = "delay", !.target = Target]
                   ELSE IF j = sdTask THEN Cancelled(j) ELSE sd[j]]
       /\ sdTask' = k
  /\ sdTarget' = Target
  /\ UNCHANGED <<running, pool, task, current, socketVars, conns, closing, awaited>>

-----------------------------------------------------------------------------
\* _scale_down_delayed.

ScaleDownEnds(k) ==
  /\ sd' = [sd EXCEPT ![k] = Idle]
  /\ sdTarget' = IF sdTarget = sd[k].target THEN 0 ELSE sdTarget
  /\ UNCHANGED live

\* The loop over the slots below `from', with n more WebSockets to close.
GoOn(k, n, from, thePool) ==
  LET left == {i \in Slots : i < from /\ thePool[i] # None}
      i    == Max(left)
  IN IF n = 0 \/ left = {}
     THEN ScaleDownEnds(k)
     ELSE /\ sd' = [sd EXCEPT ![k].at = "closing", ![k].quota = n, ![k].i = i]
          /\ live' = live \ {thePool[i]}
          /\ UNCHANGED sdTarget

DelayEnds(k) ==
  /\ sd[k].at = "delay"
  /\ IF PoolCount <= sd[k].target \/ Target > sd[k].target
     THEN ScaleDownEnds(k)
     ELSE GoOn(k, PoolCount - sd[k].target, PoolSize, pool)
  /\ UNCHANGED <<running, pool, task, cancelled, current, recv, beat, conns, sdTask, closing, awaited>>

SocketClosed(k) ==
  LET i == sd[k].i IN
  /\ sd[k].at = "closing"
  /\ pool' = [pool EXCEPT ![i] = None]
  /\ IF Running(i)
     THEN /\ cancelled' = cancelled \cup {i}
          /\ sd' = [sd EXCEPT ![k].at = "awaiting"]
          /\ UNCHANGED <<task, live, sdTarget>>
     ELSE /\ Set(i, "none")
          /\ GoOn(k, sd[k].quota - 1, i, pool')
          /\ UNCHANGED cancelled
  /\ UNCHANGED <<running, current, recv, beat, conns, sdTask, closing, awaited>>

\* Mutant of TaskGone: the ended task stays in ws_tasks.
TaskGoneKeepsTask(k) ==
  /\ sd[k].at = "awaiting" /\ ~Running(sd[k].i)
  /\ GoOn(k, sd[k].quota - 1, sd[k].i, pool)
  /\ UNCHANGED <<running, pool, task, cancelled, current, recv, beat, conns, sdTask, closing, awaited>>

TaskGone(k) ==
  LET i == sd[k].i IN
  /\ sd[k].at = "awaiting" /\ ~Running(i)
  /\ Set(i, "none")
  /\ GoOn(k, sd[k].quota - 1, i, pool)
  /\ UNCHANGED <<running, pool, cancelled, current, recv, beat, conns, sdTask, closing, awaited>>

-----------------------------------------------------------------------------
\* close().

\* The tasks are cancelled and awaited in order; then what is left in the pool is closed.
CancelFrom(i) ==
  LET left == {j \in Slots : j >= i /\ Running(j)} IN
  IF left = {}
  THEN /\ closing' = "done"
       /\ live' = live \ {pool[j] : j \in Slots}
       /\ UNCHANGED <<cancelled, awaited>>
  ELSE /\ closing' = "tasks" /\ awaited' = Min(left)
       /\ cancelled' = cancelled \cup {Min(left)}
       /\ UNCHANGED live

ShutDown ==
  /\ closing = "no"
  /\ running' = FALSE
  /\ closing' = "scaleDown"
  /\ CancelScaleDown
  /\ sd' = [k \in ScaleDowns |-> IF k = sdTask THEN Cancelled(k) ELSE sd[k]]
  /\ UNCHANGED <<pool, task, current, socketVars, conns, sdTask, sdTarget, awaited>>

ScaleDownGone ==
  /\ closing = "scaleDown" /\ (sdTask # None => ~Active(sdTask))
  /\ CancelFrom(0)
  /\ UNCHANGED <<running, pool, task, current, recv, beat, conns, scaleVars>>

ConnectTaskGone ==
  /\ closing = "tasks" /\ ~Running(awaited)
  /\ CancelFrom(awaited + 1)
  /\ UNCHANGED <<running, pool, task, current, recv, beat, conns, scaleVars>>

-----------------------------------------------------------------------------
Leaving(i) == CancelSeen(i) \/ CancelSwallowed(i) \/ Left(i) \/ LeftInAHurry(i)
Connect(i) == DialOk(i) \/ DialFails(i) \/ FailureSwept(i) \/ Redial(i) \/ ChildEnds(i) \/ Reaped(i)
ConnectTask(i) == Connect(i) \/ Leaving(i)
Receive(w) == RecvEnds(w) \/ RecvRaises(w) \/ RecvSwept(w) \/ RecvCloses(w)
ScaleDown(k) == DelayEnds(k) \/ SocketClosed(k) \/ TaskGone(k)
ShutDownGoesOn == ScaleDownGone \/ ConnectTaskGone

Next ==
  \/ \E i \in Slots : ConnectTask(i) \/ BeatEnds(i)
  \/ \E w \in Sockets : Receive(w) \/ WsLost(w)
  \/ \E c \in Conns : Open(c) \/ Send(c) \/ Close(c)
  \/ ScaleUp \/ ScheduleScaleDown
  \/ \E k \in ScaleDowns : ScaleDown(k)
  \/ ShutDown \/ ShutDownGoesOn

Spec == Init /\ [][Next]_vars

\* Ready tasks run and timers expire.  A dial that is tried again and again
\* succeeds some time.
Fairness ==
  /\ \A i \in Slots : WF_vars(ConnectTask(i) \/ BeatEnds(i)) /\ SF_vars(DialOk(i))
  /\ \A w \in Sockets : WF_vars(Receive(w))
  /\ \A k \in ScaleDowns : WF_vars(ScaleDown(k))
  /\ WF_vars(ShutDownGoesOn)

FairSpec == Spec /\ Fairness

-----------------------------------------------------------------------------
\* Properties.

\* No slot is lost for a later scale-up: one whose task has ended is being retired,
\* and one without a task has no WebSocket.
NoDeadSlot == running => \A i \in Slots :
  /\ task[i] = "ended" => \E k \in ScaleDowns : sd[k].at = "awaiting" /\ sd[k].i = i
  /\ task[i] = "none" => pool[i] = None

\* As long as one scale-down at a time closes WebSockets, it leaves the pool a
\* slot whose task goes on, whatever breaks meanwhile.  (Each counts once what it
\* has to close: two at once may take the last slot together.)
AtWork(k) == sd[k].at \in {"closing", "awaiting"}
OneAtWork == \A j, k \in ScaleDowns : AtWork(j) /\ AtWork(k) => j = k
SlotLives == running => \E i \in Slots : Running(i) /\ task[i] # "leaving" /\ i \notin cancelled
PoolNeverDies == []OneAtWork => []SlotLives

\* A WebSocket that messages are sent on has its receive loop.
ReaderAttached == running => \A i \in Slots : pool[i] \in live => recv[pool[i]] = "reading"

\* No slot stays without a connection for ever: its task comes back to waiting on a
\* WebSocket again and again (which may have been lost meanwhile), or is retired
\* (or the bound on sockets is reached, which takes a socket that was left open).
OutOfSockets(i) == \A w \in Sockets : SlotOf(w) = i => ~Free(w)
SelfHeals ==
  \A i \in Slots : []<>(task[i] \in {"waiting", "none"} \/ ~running \/ OutOfSockets(i))

\* Shutting down comes to its end, whatever cancellation is swallowed.
ShutDownEnds == []<>(running \/ closing = "done")

\* "Make sure that the messages of a connection use one WebSocket": while the one
\* that they take works, an open connection keeps to it.
SameSocket ==
  [][\A c \in conns \cap conns' : Route(c) \in live \cap live' => Route(c)' = Route(c)]_vars
===============================================================================
