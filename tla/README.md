# A TLA+ verification of wsocks

wsocks tunnels SOCKS5 and HTTP CONNECT connections over a pool of WebSockets.
The client (`src/wsocks/client`) accepts local connections, gives each a random
4-byte `conn_id` and multiplexes them; the server (`src/wsocks/server`, a tornado
WebSocket handler) opens one TCP connection to the target per `conn_id`.  Both
run on one asyncio loop.  The messages are CONNECT, CONNECT_SUCCESS,
CONNECT_FAILED, DATA, CLOSE, HEARTBEAT and UDP_DATA; there is no acknowledgement,
no sequence number and no half-close, so the order of the steps is all that
keeps the streams intact.  The repository has no tests of this logic.

## Inventory

| Component | State | Operations | What makes it correct |
|---|---|---|---|
| `TargetConnection` (server/tcp_client.py) | `running`, `_closing`, `_connected`, early buffer, send queue of 8, two tasks, the writer | `connect`, `read_loop`, `send_loop`, `send_data`, `close(drain_queue)` | both streams in order and complete, close runs once and to its end, nothing is left behind |
| `WebSocketHandler` (server/ws_handler.py) | `connections`, `conn_send_locks`, `udp_sessions` | `on_message` and one handler per message, `send_data`, `close_connection`, `on_close` | the answer comes before DATA, no DATA after CLOSE, dictionary and locks emptied |
| `SOCKS5Connection`, `HTTPConnectConnection` (client/socks5_server.py) | `running`, `connect_event`, send queue of 4096, send and monitor task, local socket | handshake, reply, `forward_data`, `_send_loop`, `_monitor_connect_result`, `send_to_client`, `close` | upload and download in order, one reply before the data, the server learns of the end, complete close |
| `SOCKS5Server` | `connections` | `_handle_connection` and the handlers it calls | a finished connection leaves the dictionary |
| `WebSocketClient` (client/ws_client.py) | `ws_pool`, `ws_tasks`, `scale_down_task`, time stamps | `connect`, `_connect_single`, `_receive_loop`, `_heartbeat_loop`, `send_message`, `_scale_pool`, `_scale_down_delayed`, `close` | slots reconnect, none is lost, scaling keeps one, messages of a connection keep to a WebSocket, shutdown ends |
| Adapters (client/ws_adapter*.py) | send and receive queue, `_running`, `_closed_conn_ids`, one or two threads, calls in the executor | `connect`, `send`, `recv`, `mark_connection_closed`, `close` | no message lost or reordered while open, the end is reported, the threads end |
| `UDPRelayServer` (client/socks5_server.py 610-830) | `udp_sessions` by `conn_id`, with time stamps | `_receive_loop`, `send_to_client`, `_cleanup_sessions` | an answer reaches the client that asked |
| UDP sessions of `WebSocketHandler` (ws_handler.py 240-391) | `udp_sessions`, a socket and a receive loop for each, calls in the executor | `handle_udp_data`, `_udp_receive_loop`, `on_close` | one open socket per session, sessions end, nothing is forgotten |
| Direct mode (socks5_server.py 24-97) | one writer, a transport buffer | two copying coroutines | the upload complete, the download until the client ends its stream; the writer is closed, it ends |
| `Router` (client/router.py) | rule groups | loading, `decide` | the first matching rule decides |
| Protocol, Crypto, event loop, logger, command lines | - | pure functions, start-up | - |

How they interact.  A local connection calls `send_message`, which picks a WebSocket
by `conn_id % pool_size` or the next that works.  The server's `on_message`
starts a handler coroutine per message with `ensure_future`; a handler runs in
the order of the messages up to its first suspension and freely after that.
The server's loops write frames through the handler; the client's receive loop
awaits `handle_message`, which writes to the local socket, so one slow local
client holds up a WebSocket.  `close()` of either side can be called by every
task, and cancels and awaits some of them.  When a WebSocket is lost, the server closes
every connection of it in `on_close`; the client does so in the error branch of
its receive loop.

What is hard here: interleavings of coroutines at every `await`; cancellation (a
task sees it at its await, may swallow it, may be cancelled by itself);
bounded queues with blocking `put` in `finally` blocks; threads that share queues and a
flag with the coroutines; blocking calls that share one thread pool; loss of a WebSocket at
any moment; timeouts racing the answer; flags that are tested before an await and
used after it.  `PROJECT.json` lists these hazards line by line.

## How the models read the code

* An action is the code between two awaits that can really suspend.  `Queue.put` on
  a queue with room, a lock nobody holds and an adapter call without an inner
  await do not suspend, and the code around them is one step.
* A task is a variable that says where it is suspended ("reading", "putting", ...).
  `task.cancel()` is delivered at that await: the model has, per location, what the
  `except` and `finally` clauses then do.  A task that never ran when it is cancelled
  ends without running its `finally` block.
* Payloads are numbers: the n-th chunk is n.  The sentinel `None` is 0.
* A `conn_id` is used once, as the random ids of the code intend.
* `asyncio` keeps only weak references to tasks.  The models assume that a
  suspended task is not collected.

## Modules

| Module | Stands for |
|---|---|
| `RelayStream` | What the server promises a client about one tunnelled connection: one answer, then packets in order, then silence. |
| `TargetConnection` | `TargetConnection` with the methods of `WebSocketHandler` that create it, feed it and announce its end, for one `conn_id` on one WebSocket. |
| `TargetConnectionInv` | Its inductive invariant `IInv`, in named parts. |
| `TargetConnectionProofs` | The proofs of the safety properties. |
| `TargetConnectionRefines` | The proof of the action property and of the refinement of `RelayStream`. |
| `ClientConnection` | One proxied TCP connection of the client with the coroutines of `SOCKS5Server` that run it and the messages of its `conn_id` in `WebSocketClient`. |
| `ClientConnectionProofs` | Its inductive invariant and the proofs of its seven safety properties. |
| `WsPool` | `WebSocketClient` as a pool: connect tasks, receive loops, heartbeats, scaling, routing, shutdown. |
| `WsPoolProofs` | Proofs that no slot is lost, that WebSockets in use are read and that scaling down leaves a slot. |
| `ThreadedAdapter` | The three threaded adapters: threads, queues, flag, executor calls, `connect` to `close`. |
| `ThreadedAdapterProofs` | Proofs that both directions keep their order, of what is missing at the end, and that closed connections send nothing more. |
| `UdpRelay` | `UDPRelayServer` of the client with the UDP sessions of several server handlers and the server's executor. |
| `UdpRelayProofs` | Proofs about the server's UDP sessions and the way of an answer. |
| `Router` | Loading of routing rules and `decide`, with the reference definition `FirstMatch`. |
| `DirectConnection` | A request from its routing decision to the end of a direct connection; extends `Router`. |
| `DirectConnectionProofs` | The proofs that its writer is closed, and of how much of its streams is passed on. |
| `MCDirectConnection` | Hosts, rules and configurations for the run. |

The modules contain variants of definitions ("Faulty variant", "Mutant of"): each changes
one of them the way a bug would, and shows that the property it is paired with in
`PROJECT.json` notices.

### TargetConnection

`hc`, `rl` and `sl` are the suspension points of `handle_connect`, `read_loop` and
`send_loop`; `cl` is the one `close()` call that got past the `_closing` guard and
`closer` the task that runs it.  `Close(who, q)` is `close()` up to its first suspension,
`CloseReadDone` ... `CloseNotified` the rest, `close_connection` included.
`handle_connect` is `RecvConnect`, `DialOk`/`DialFail`, `FlushNext`/`FlushFail`, with
the flags set where `connect()` sets them: before the flush.  Three details carry
the results: the read loop's `finally` block puts a sentinel and may block
(`ReadFinally`, `ReadCancelled`); a send loop that closes the connection awaits
itself, which asyncio turns into a `CancelledError` that is swallowed; and `on_close`
only schedules the `close()` calls (`SweepClose`).  The lock is modelled by its
dictionary entry; that it is never contended is `LockIsFree`.
The target and the network are free: packets, end of stream, errors, stalled reading.

### ClientConnection

`h` is the handler of the accepted socket from the handshake to the removal from
`connections`, `sl` the send loop, `m` the monitor of the optimistic mode, `r` the
receive loop of the WebSocket, `cu` a `close()` of the clean-up.  `mode` chooses
between the optimistic SOCKS5 reply and the reply after the server's answer (SOCKS5
without the option, and HTTP CONNECT).  `filters` says whether the adapter drops
messages of closed `conn_id`s (the three threaded adapters) or not (websockets).
Both are chosen in `Init`.  With `filters` a message goes through `adapterQ` and the send thread.
The pool is reduced to the WebSocket that carries the `conn_id`: once it is lost a
message raises or goes to a server that does not know the `conn_id`
(`WsSendFails`).  The server is any one that `RelayStream` allows, which is what
`TargetConnection` is proved to implement.

Abstractions to know: the handshake is one step with its outcomes; the check and the
write of the send thread are one step; `close()` waits 0.05 s after `shutdown`, and
the model lets that wait end only after the tasks the shutdown woke have run;
a cancellation of the receive loop while it writes to the local socket is left out;
`websockets`' `send` always suspends in the model, which adds behaviours.
`RecvAnswer` and the rest of `handle_message` run in the receive loop, so `r`
must be idle.

### WsPool

A slot has the state of its connect task (`task`), its entry in `ws_pool` and the
WebSocket its task waits for (`current`); `recv` is the receive loop of each
WebSocket ever made, `beat` the heartbeats that a connect task waits for.
`cancelled` holds the slots whose task has an undelivered cancellation: the model
shows where it is seen (`CancelSeen`), where it is lost (`Reaped`: the
`except CancelledError` meant for the child; `CancelSwallowed`: the same in
`close()` of a connection) and where a second one cuts the clean-up short.
A cancelled connect task leaves its receive loop running, which then closes
whatever is in the slot (`CloseSlot`).  `_scale_down_delayed` is a record in `sd`;
one that is cancelled while it awaits a connect task goes on, so several can run.
Delays (reconnect, ten-second monitor, 3-5 minutes before scaling down) are untimed;
the monitor only waits for tasks the loop has already woken.  A sweep removes
its connections at its start, in one step; a dial that is cancelled leaves no WebSocket.
`Conns` counts open connections; that direct ones count as well is left out.

### ThreadedAdapter

`kind`, chosen in `Init`, is the adapter: `v1` has one IO thread that sends and receives in
turn, `v2` and `v3` have a thread for each direction; `v3` differs where its library does
(`receive()` looks at no flag).  `running` is the flag that both sides reset; the threads are
`sendThread` and `recvThread` (the IO thread of `v1` is the latter) with their
places, `sender[c]` is the `send()` of a connection, `receiver` is `recv()`.  `waiting` holds
the `put()` calls that wait in the executor: when its `send()` is cancelled the call stays.
`connect()` and its handshake thread race (`ConnectTimesOut`, `DialOk`); `close()` joins the
threads on the event loop.  `recvBuffer` is what the receive thread has read and not yet put.
In `v1` it is filled by a whole round of reading before anything is put (`IoReads`, `IoHasRead`,
then `PutMessage` or `DropMessage`); an error in the round drops it (`IoFails`).  `inHand` is then
`current_data`: `IoTakes` takes it from the queue, and it goes out in as many rounds as the
socket makes of it (`IoWaits`, and `IoWrites` for the last).  In `v2`, `CheckRunning` drops a message
that came in while the flag was reset.  The network (`link`) may break, go silent, or get stuck: the peer
then still sends, but no longer reads.  A write may go through while nobody reads (buffers), but need not.

### UdpRelay

`session` is the client's dictionary, `filed` those of the server's handlers, one per
WebSocket; a WebSocket that is dialled again is a new handler.  `loop` is the receive loop of each
socket ever opened, `jobs` and `busy` are the default executor: `recvfrom()` keeps a
thread until a datagram or the time-out, `sendto()` is one step of it.  `carried` and `got` record
whose packets a socket has sent and who was given its answers.  Tasks for messages that
`on_message` saw run even after `on_close` (`HandleUdpData` is not guarded by
`link`), which is how a session can be made that nothing but its own time-out ends.
`LoopEnds` is the `finally` block: it takes out of the dictionary whatever its `conn_id` has
there.  Sessions expire at any time (60 s is untimed).

### Router and DirectConnection

A host is the sequence of its labels; the operators follow `_load_rules`,
`_load_ruleset_file` and `decide`.  `DirectConnection` starts with the routing step; `handler` is the
handler of the accepted socket, `upTask` and `downTask` the two coroutines, `writer` the
stream writer with `buffered` chunks in its transport.  `gather` waits for both coroutines; only
`client_to_target` closes the writer, in its `finally` block (77-81), for both directions;
`wait_closed()` and `close()` follow.  A reply that fails is only logged by the
callbacks (179-182, 479-482), so that `Answer` goes on to the forwarding in any case.  The local client may
half-close (`ended`) or leave, and either peer may stop reading for good (`stalled`).  Chunks of the
target are `sent`, then `received` by the stream reader, then `delivered`.
`FirstMatch`, the reference for `decide`, follows the repository's README.md (lines 362-365): declared
order, but for addresses the networks first.  The docstring in router.py:46 has the
declared order only, and is coarser: for an address, a keyword rule that is declared before an `ip_cidr`
rule does not win.
A request that goes to
the proxy, which is every action but "direct" and "block", ends here (`proxied`): `ClientConnection` has the rest.

## Runs

| Run | Checks | Bounds |
|---|---|---|
| `target_connection` | 13 properties of the server's connection, the refinement of `RelayStream` among them; 161,532 states | queue 2, 3 DATA up, 4 packets down |
| `upstream_in_order` | DATA can overtake the early buffer | queue 1, 3 up |
| `client_connection` | 8 properties in both modes and with both kinds of adapter; 308,823 states | queue 1, 3 chunks up, 2 messages down |
| `close_is_delivered` | an adapter that filters drops the CLOSE | 1 up, 1 down |
| `loss_closes_connection` | a lost WebSocket whose iterator just ends leaves its connections open | 1 up, 1 down |
| `ws_pool` | safety of the slots; 1,584,898 states | 2 slots, 2 connections, 2 WebSockets per slot, 1 scale-down task |
| `ws_pool_liveness` | scaling down leaves a slot, a failed slot recovers, shutting down ends; 281,011 states | 1 WebSocket per slot, 2 scale-down tasks |
| `same_socket` | messages of one connection change the WebSocket | as `ws_pool` |
| `udp_relay` | answers, sessions, sockets and their end; 511,351 states | 2 clients, 2 WebSockets, 1 thread, 2 sessions, packets, sockets and datagrams |
| `threaded_adapter` | order, completeness and end, for all three adapters; 591,812 states | 1 connection, queues of 1, 3 messages out, 2 in |
| `silence_is_noticed` | a silent connection is never given up | `v2`, 1 message each way |
| `direct_connection` | routing and the direct connection; 19,721 states | every list of up to two rules with 4 hosts, 3 chunks up, 2 down, buffer 1 |

What the passing runs show.

* *Server*: `DownstreamInOrder`, `CloseIsLast`, `AnswerBeforeData`, `DrainedBeforeClose`,
  `UpstreamComplete` on the streams; `LockIsFree`, `NothingLeftBehind`,
  `SilentWhenUnregistered` on the shared dictionaries; `OpenTargetIsOwned`: an open target
  is registered or being closed; `WedgedOnlyAfterLoss` and `CloseFinishes` on
  termination.
* *Client connection*: `UploadInOrder`, `CloseEndsUpload`, `DownloadInOrder` on the streams;
  `ServerLearnsOfEnd`, `SendLoopAlive`, `NoSendLoopLeft`, and `EndsOnceClosed`: a connection that
  starts to close is closed and forgotten unless its reader is stuck on a full queue
  nobody empties, which the code allows.
* *Pool*: `NoDeadSlot` (a scale-up can use every slot that is not in use), `ReaderAttached`,
  `PoolNeverDies` (scaling down leaves a slot as long as one scale-down at a time closes
  WebSockets), `SelfHeals`, `ShutDownEnds`.
* *Adapters*: `SentInOrder` and `StaleIsNotSent` on the way out, `ReceivedIsComplete` on the
  way in: a message is missing only if it found the queue full or was in the hands of the receive
  thread when that ended.  `ReceiverLearnsOfEnd`, `ThreadsEnd` and `SenderGetsRoom` on termination.
* *UDP*: `AnswersGoHome` across both programs; `OpenSocketIsFiled` and `SessionIsServed` on
  the server's dictionary; `SilentSessionsEnd`, with one thread for two receive loops.
* *Direct mode*: `RouteIsFirstMatch`; `StreamsAreComplete`: the upload is passed on whole, the
  download until the local client ends its stream; `NoWriterLeft`, with no exception; `EndsOnceClientLeaves`.

Each module states its `TypeOK`.  Those of `TargetConnection` and `ClientConnection` are
listed in a run; those of `TargetConnection`, `ClientConnection`, `ThreadedAdapter` and `WsPool`
are theorems, and most of that of `UdpRelay` is proved as `Types` in `UdpRelayProofs`.  Those of
`Router` and `DirectConnection` document the variables.

Why the bounds are enough.  Queues of one or two elements are full, empty and partly
filled in combination with every task location; with more packets than the
queue holds the reader blocks, and the interesting orders need two packets of a kind
and one in another place, so three or four suffice.  Two slots are the smallest
pool with a home and a fallback; two WebSockets per slot let an old receive loop meet the
next WebSocket; two scale-down tasks are one that outlived its cancellation and
its successor.  One thread and two sockets make a packet wait behind another session's
`recvfrom()`; two sockets are what one `conn_id` needs for a session that is made again, and two
clients what an answer needs to go astray.  Three messages of a connection are one being
written, one queued and one waiting for room.  A transport buffer of one is
below and above its limit with three chunks.  A queue of 8 or 4096 has no states of
another kind, and for the server the proofs cover every size.

Deadlock is not checked: a connection ends, a pool may be shut down, and packets cease.

## What the code does not do

Five statements in the repository's comments are refuted by runs; `PROJECT.json`
quotes them under "findings".

* `upstream_in_order`: "keeps the order of the messages" (ws_client.py:324-325), but
  `_connected` is set before the early buffer is flushed (tcp_client.py:42).
* `close_is_delivered`: "make sure ... the server is notified" (socks5_server.py:1055), but
  the `conn_id` is marked as closed first, and the adapter then drops the CLOSE.
* `loss_closes_connection`: "the client has to clean up" (ws_client.py:356-357), but only an
  exception in the receive loop does.
* `same_socket`: one WebSocket per connection (ws_client.py:324-325), but the fallback is
  chosen message by message.
* `silence_is_noticed`: "after every select `_running` and read_timeout are checked"
  (ws_adapter_threaded_v2.py:175-176), but the time-out is looked at only before the wait for a
  message starts.

`PoolNeverDies` holds under a condition that the code does not enforce.  A scale-down counts
once what it has to close (ws_client.py:492).  The monitor cancels the one before it starts
another, but in `await self.ws_tasks[i]` (507-511) the cancellation only reaches the connect task
and is swallowed, and the cancelled scale-down goes on with its count.  If the next one starts to close before it
is done, the two may close every WebSocket: with three slots, three connections and two scale-down
tasks TLC finds this in 21 steps, in a state space too large for a run.  The pool then has no connect task until
the monitor scales it up at its next tick, ten seconds later at most.  With two slots it cannot happen.

Passing properties name the exceptions the code makes to what one would expect:

* `OpenTargetIsOwned`: a `close()` during the dial uses up the `_closing` guard and cleans
  up nothing (tcp_client.py:170), and a failed flush of the early buffer leaves the writer open
  (tcp_client.py:56).
* `WedgedOnlyAfterLoss` and `CloseFinishes`: `put(None)` in a `finally` block
  (tcp_client.py:104) can block for ever, and `close()` with it, but only after the WebSocket is
  lost; a target that stops reading holds up `wait_closed()`.
* `DownloadInOrder`: data may reach the local client before the reply to its request, since the
  receive loop does not wait for the handler (ws_client.py:277).
* `OpenSocketIsFiled`: a packet that is handled after `on_close` makes a session, which the receive
  loop of the session before it takes out of the dictionary, leaving its socket open
  (ws_handler.py:373).
* `ThreadsEnd`: a handshake of the third adapter that succeeds just when `connect()` gives up
  leaves a receive thread that waits for the peer; a send thread stays in a write to a peer that does not
  read (`LeftInWrite`).
* `SenderGetsRoom`: a `send()` that waits for room when the thread ends waits for ever.  So it does
  while the peer does not read or the network is silent: `ws.send()` (ws_adapter_threaded_v2.py:279,
  ws_adapter_cycletls.py:272) does not return then, and the first adapter gets AGAIN
  (ws_adapter_threaded.py:190-191).  The thread is alive all the time.
* `ReceivedIsComplete`: besides what finds the queue full, the first adapter loses what it has read in the
  round in which the connection breaks, since it parses its buffer only after the round
  (ws_adapter_threaded.py:216-238), complete messages that came with the close included; the second throws a
  message away if the flag was reset while it came in (ws_adapter_threaded_v2.py:202-203).
* `StreamsAreComplete`: a local client that half-closes loses the download that has not been received by
  then, because `client_to_target` closes the writer for both directions (socks5_server.py:77-81).
* `EndsOnceClientLeaves`: the end of the target alone does not end a direct connection
  (socks5_server.py:93), and `drain()`, `sock_sendall()` and `wait_closed()` have no time-out (74, 89, 95):
  with a target that stops reading while the upload is buffered, or a half-closed client that stops reading the
  download, it does not end at all.

Seen while modelling and stated by no property: a scale-down whose `close()` takes longer than
the redial drops the new WebSocket unclosed (ws_client.py:498-502); on shutdown a
connect task sets its slot to `None` (line 151) before `close()` gets to close the
WebSocket (577-583); the UDP session does not end with the TCP connection of its
UDP ASSOCIATE (socks5_server.py:1084), only by its time-out.

## Fairness

Weak fairness says that a ready task of the loop runs, that a thread that can go on does, that a
timeout expires and that a wait with a timeout ends.  *Server*: the dial, the flush and
`drain()` end because of their 30 s limits, a frame write because tornado flushes it or finds the
WebSocket lost; nothing is assumed of the target, the client and the network.
*Client connection*: nothing is assumed of the local client before its socket is shut
down; after that pending reads and writes return.  *Pool*: the connect task and its
heartbeat share one condition, because a heartbeat that is about to fail is woken by its
interval at the latest; strong fairness of `DialOk` is the assumption that a
server which is dialled again and again is reached some time.  *UDP*: a `recvfrom()` returns
after 5 s at the latest (`settimeout`), and a free thread takes the next call.
*Adapters*: `connect()` ends after 15 s, a `put()` with a time-out ends, and each thread takes its next step,
but for a write: it returns if the peer reads or the network is broken (`PeerReads`), and nothing is said of it
otherwise.  For the first adapter that is strong fairness, for its `select()` loop comes by the socket again and again
and finds it ready some time if the peer reads.  Nothing makes the peer send or the network break.
*Direct mode*: the dial ends after 30 s, ready coroutines run, and the transport empties its buffer
while the target reads; nothing is assumed of a stalled peer, nor of what the local client and the target send.  The safety properties do not depend on any of it.

## Proofs

The server's connection is proved, for every `QueueSize >= 1`, `MaxUp` and `MaxDown`:
`TypeCorrect`, `InOrder`, `CloseLast`, `AnswerFirst`, `DrainBeforeClose`,
`UpstreamMissesNothing`, `LockUncontended`, `CleanAfterClose`, `TargetIsOwned` and
`NoDeadlockWhileOpen` in `TargetConnectionProofs`, `SilentAfterUnregister` and `ConnectionImplementsStream` in
`TargetConnectionRefines`.  The assumptions are `QueueSizeAssumption` and
`BoundsAssumption`.

None of the properties is inductive: each depends on which task can still
run when another is at some place.  `IInv` adds that, in parts:

* `PhaseInv`, `FlagsInv`, `ReaderInv`, `SenderInv` (together `ControlInv`) relate the control
  locations: what exists at each stage of `handle_connect`, that `closer` and
  `cl` describe one call, that a cancellation is pending only while `close()` awaits the
  read task, that the send task ends with an open WebSocket only after the reader said goodbye.
* `SentinelInv`: a sentinel is in the queue only when the read loop is over or closing.
* `QueueInv`: while the client can be reached, the queue is exactly the
  packets `sent+1, sent+2, ...` followed by sentinels.
* `QuietInv`: once the writer is closed, the send loop has nothing left to send.
* `FramesInv`: `frames` contains exactly the packets up to `sent`, and no CLOSE before `cl` says so.
* `UpstreamInv`: each DATA message is in `written` or in `early`, once.
* `OwnedInv`: who holds the open writer.

The proof has one step per action and below it one per part of the invariant that the action
can disturb; helpers that several actions share (`Close`, `CloseFromSend`,
`ReadFinally`) have lemmas.  The safety theorems follow from `IInv` and one PTL step.
The refinement maps `reply`, `delivered` and `shut` to what the frames say and `source` to
`got`; each step is shown to be a step of `RelayStream` or to change nothing of it,
by lemmas on what `Emit` does to "told" and on which actions emit.

The server's UDP sessions are proved for all sets of clients and WebSockets, every number of
threads and all bounds (`UdpAssumption`): `SessionsAreServed` and `SocketsAreFiled` in
`UdpRelayProofs`.  The invariant is `SocketInv`.  `TypeInv` says that sockets are numbered as
they are made and that the socket in the dictionary was made for its handler and `conn_id`;
`RecvInv`, that a receive loop has one `recvfrom()` pending and no other loop's result can reach it;
`RunningInv` is the strengthening that the exception of `OpenSocketIsFiled` needs: a
receive loop that goes on without its session belongs to a closed handler, and a
session in its place is a later one.  `SocketsUntouched` covers the actions that leave
the dictionary alone.

`AnswersComeHome` follows an answer through both programs: a packet of a client, its `conn_id`, the
socket, `recvfrom()`, the answer, the client's dictionary.  What a step looks up by `conn_id` was
put there under the same `conn_id` for one client, but sessions expire, so that the dictionary
itself does not say for which.  `OwnerInv` does: there is a function `user` from `conn_id`s to
clients (a `conn_id` is drawn once) with which everything on the way agrees, in parts: sessions,
packets sent, executor calls, `carried`, answers, `got`.  A step keeps the same
`user`, or extends it when a `conn_id` is drawn.

`DirectConnectionProofs`, for every configuration, host and bound.  `WriterIsNotLeft`:
`WriterInv` says that there is no writer before the dial has succeeded (`NoWriterYet`) and that a handler that
has a writer comes to close only with the writer closed (`ClosedAtLast`); there is no exception.
`StreamsComplete` needs in addition which coroutine runs at which place of the handler (`TasksInv`)
and where each chunk is: those of the upload have arrived or are buffered, and a closed transport has
emptied its buffer (`UploadInv`); those of the download are on their way, unread or delivered, the end of the
target arrives after its last chunk, and `target_to_client` ends with nothing unread, unless the local
client is gone or the target resets (`DownloadInv`).  While the client's stream is open nobody has closed the
writer, which makes its download complete; a client that has half-closed gets only what was received.

`ClientConnectionProofs`, for every `QueueSize`, number of chunks and of messages, both reply modes
and both kinds of adapter: `TypeCorrect`, `UploadOrdered`, `NothingAfterClose`, `DownloadOrdered`,
`ServerIsTold`, `UploadAlive` and `SendLoopEnded`.  The parts of `IInv`:

* `CloseInv`: `cl`, `closer`, the four tasks that may call `close()`, the flags and the local
  socket describe one call.
* `StageInv`: which tasks and which queue entries exist at each place of the handler; the sentinel is
  the last thing in the queue.
* `WireInv`, `PipeInv`, `QueueInv`: what is on the WebSocket, in the adapter and in the queue is one
  stream, CONNECT and then the chunks, as long as a message will still be sent.  A lost WebSocket
  or a marked `conn_id` cuts it off, and the part before the cut is all that the properties need.
* `KnowInv`: how the server learns of the end, depending on who called `close()` with which
  `notify_server`.
* `DownInv`: the handler replies once, and data are numbered as they came.

`ThreadedAdapterProofs`, for every set of connections and all queue sizes, all three
adapters: `TypeCorrect`, `SendsInOrder`, `ReceivesAll` and the action property `ClosedIsNotSent`.  A
message is on the WebSocket, in the hands of the send thread, in the queue, or in a `put()` that
waits in the executor, which may be all that is left of a cancelled `send()`.  `Ordered` says that
each of these places holds later messages than those after it; it needs
`StepInv`, that a connection has one waiting `put()` at most, that its coroutine sends nothing while
it waits, and that the thread that writes holds a message.  `Handed`, `Held` and `Counted` say the same of the
way in and account for every number up to `received`: what `recv()` has returned, the queue and the receive
thread's buffer are, in order, all that was received but what was dropped, the buffer going on where the others
end.  `HoldInv` says at which places of the thread there is something in the buffer, and so what can be left in it
at last; `EndInv`, that nothing is put after the end.
`ClosedIsNotSent` says that what is on the WebSocket or in hand of a closed connection grows no more.

`WsPoolProofs`, for every `pool_size`, set of connections and number of WebSockets and scale-downs:
`TypeCorrect`, `SlotsAreKept`, `ReadersStay` and `PoolSurvives`.

* `CancelInv`: only a task that a scale-down awaits is cancelled, and a task that has ended is still awaited.
* `LeaveInv`: a task that ends has taken its WebSocket out of the pool.  A scale-down empties the
  slot before it cancels the task; if that cancellation is lost and the task dials again, the
  next one comes from the monitor, through the scale-down that it gives up at the same time, so that
  nobody is left to send a third, which would cut the clean-up short (`CanCancel`).
* `SocketInv`: a WebSocket that works is the one its connect task waits for, with receive loop
  and heartbeat; one whose connect task reaps a child is lost already.
* `EnoughInv`, for `PoolSurvives`: the slots that a scale-down at work leaves alone are at least as many as
  it has still to close, and one more before it starts.  Every WebSocket in the pool has a connect task
  (`LeaveInv`), so the count over `ws_pool` bounds the tasks; a task is lost only to the
  scale-down that awaits it.

All but the last hold until `close()`, when the tasks end together.  `Types` does not depend on it.

Only model-checked: `CloseFinishes` and every other liveness property (they need fairness, which
is out of the prover's reach), and the router: what `LoadRules` makes of a list of rules is
defined by recursion over the list (in `FlattenSeq`), which needs induction over data.  Its operators are checked
against `FirstMatch` on the configurations of the run.  What the passing runs check besides, every
invariant and action property and the refinement, is proved.

## Not modelled, and why

* Protocol and crypto encode one message at a time and keep no state that the properties
  could tell apart.  Event loop, logger and command lines are start-up code; the loop
  itself is the interleaving of the models.
* The connection limit over several `conn_id`s: a model has one, and may be refused at any time.
* The accept loop, and the TCP connection of UDP ASSOCIATE, which only waits for its own end.
* `UDPRelayServer.stop()`, which nothing but the end of the program calls, and the headers of
  datagrams.
* In the adapters, the fragments of a message in the second and third one (a message is received or
  written in one step there), and the limit of the executor that all adapters share.  The adapter over `websockets` only passes calls on.
* In the router, keywords that are part of a label, letter case, and masks that end within a label.
* The heartbeat's time stamps only decide when a heartbeat may be skipped; the model lets a
  heartbeat end when its send would fail.

## Plan

Done, in this order: `TargetConnection` with its proofs and `RelayStream`; `ClientConnection`;
`WsPool`; `ThreadedAdapter`; `UdpRelay`; `Router` and `DirectConnection`; the proofs about the
last two, `ClientConnection`, `ThreadedAdapter` and `WsPool`.  Next:

1. Proofs: what `decide` does with the groups of rules it is given, apart from how they are made.
2. A handler with several `conn_id`s on one WebSocket, for the connection limit and `on_close`.
3. Several adapters with the executor they share.
