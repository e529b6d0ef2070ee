# Verification of the HFT server and its clients

TLA+ models of the C++ programs in this repository, TLC runs that check them on
small instances, and TLAPS proofs of the properties that matter most. Paths
below are relative to the repository.

## 1. The system

| part | code | state | operations |
|---|---|---|---|
| HFTServer | `src/hft_server.cpp`, `inc/hft_server.h` | `running_`, listening socket, epoll instance, `connections_` (descriptor -> owned `Connection`), services, statistics, one receive and one send buffer | `initialize`, `start`, `stop`; on N worker threads: `worker_thread`, `accept_connections`, `handle_client_events`, `close_connection`, `process_client_message`; on the main thread `get_stats` |
| server process | `src/main.cpp` | `g_server` | command line, handlers for SIGINT and SIGTERM, start-up, report every 5 s |
| services | `src/hft_server.cpp:444-533` | none that is read | `OrderService`, `MarketDataService`: log the message |
| message protocol | `inc/message.h` | structs copied to the wire as they lie in memory: `Message` 1064 bytes, `OrderMessage` 1120, `MarketDataMessage` 1152 | `is_valid` (no caller), timestamps |
| HFTTCPClient | `src/hft_tcp_client.cpp`, `inc/hft_tcp_client.h` | connection state, socket, send queue, statistics, handlers | `connect`, `disconnect`, `send_*`, `start`, `stop`; threads: receive, send, heartbeat, epoll |
| client test program | `src/hft_tcp_client_test.cpp` | a global client pointer | a sequence of calls; a signal handler that stops the client |
| LatencyTestClient | `src/latency_client.cpp`, `src/latency_test_main.cpp` | send times, latencies, `stop_receiver_` | `connect`, `run_latency_test`, `run_burst_test`, `run_sustained_test`, `disconnect` (also from SIGINT); thread: `receive_responses` |
| simple client | `src/hft_tcp_client_simple.cpp` | connection state, statistics without a lock | `connect`, `send_order`, `disconnect`; thread: `receive_messages` |
| 100k test, simple latency test | `src/hft_latency_test_100k.cpp`, `src/simple_latency_test.cpp` | a socket, send times | send all, then wait for as many replies; send one, wait for its reply |

**How they interact.** Clients and server share nothing but TCP connections.
Inside the server all workers wait on one epoll instance. The listening socket
is registered level-triggered with a null pointer, every client edge-triggered
with the address of its `Connection`. Whoever takes an event accepts a client,
or looks the descriptor up in `connections_` under `connections_mutex_`,
releases the mutex and reads the socket. The main thread touches the workers
through `running_`, through the join loop of `stop()` and through
`stats_mutex_`; `stop()` runs inside the signal handler.

**What is hard here.** The list with lines is `hazards` in `PROJECT.json`. In
short:

* *Concurrency in the server.* A `Connection` has three names (descriptor, map
  key, pointer in epoll), made and unmade in several steps without a common
  lock; descriptors and heap addresses are reused at once; an edge-triggered
  event that is taken and not acted on never comes back.
* *Shutdown.* `stop()` frees what the workers use, protected only by the join
  loop; it runs in a signal handler on a thread that may hold a lock; the test
  and the store of `running_` are two steps.
* *Shared buffers and statistics.* One `recv_buffer_` for all workers,
  statistics written under one mutex and read under another.
* *Framing.* A `recv()` can return part of a message or several messages.
* *The client.* Two threads read one socket; `stop()` can miss a sleeping send
  thread; reconnection recurses without looking at `running_`; a message
  taken from the queue is lost when the send fails.
* *Latency clients.* They wait for replies the server never sends
  (`send_response` has no caller), match times by position while two threads
  store and take them, take part of a message for all of it, and disconnect in
  a signal handler.

**What makes each part correct.** Server: every `Connection` has one owner,
nothing freed is read, the map agrees with the descriptor table, no edge is
missed, only clients that ended are closed, `stop()` returns and leaves nothing
behind. Process: every failure of start-up closes what it opened, a signal
stops the server. Client: what `send_message()` accepted reaches the server in
order and once, or an error is counted; `stop()` returns; a closed socket is
not used. Receive loops: a message is handled once, in order, from the bytes of
one connection, and every byte is counted. Latency clients: each latency is the
difference of the two times of one message; the program ends.

## 2. Modules

| module | models | notes |
|---|---|---|
| `Sockets` | the kernel: TCP connections, accept queue, descriptor table, one epoll instance | external: written from the calls the server makes and the flags it passes |
| `HFTServer` | the workers, the connection map, the heap, the thread in `stop()` | EXTENDS `Sockets`; holds the properties and the refinement mapping |
| `ClientSessions` | what a client may expect of the server, with no thread or descriptor | abstract specification of `HFTServer` with one worker |
| `HFTServerProofs` | theorems for any number of workers | EXTENDS `HFTServer`, TLAPS |
| `HFTServerSoloProofs` | theorems for one worker, the refinement of `ClientSessions` among them | EXTENDS `HFTServerProofs` |
| `ServerMain` | `main()`, `initialize()`, `start()`, the signal handler running `stop()` | workers reduced to what they share with `main()` |
| `ServerMainProofs` | theorems for any number of workers and SIGINTs | EXTENDS `ServerMain`, TLAPS |
| `HFTTCPClient` | the client's connection state, socket, send queue and threads, driven as its test program drives it | holds the properties and the refinement mapping |
| `LossyFifo` | what `send_message()` promises once it has returned true | abstract specification of the send queue |
| `HFTTCPClientProofs` | theorems for any messages and descriptors | EXTENDS `HFTTCPClient`, TLAPS |
| `Stream` | a TCP connection as a receiver sees it: bytes without message boundaries, an end | external |
| `SharedBuffer` | one `recv_buffer_` that several threads receive into, and the other end that writes | EXTENDS `Stream` |
| `ServerReceive` | `handle_client_events` from `recv()` on, `process_client_message`, the services | EXTENDS `SharedBuffer` |
| `ClientReceive` | `receive_thread_func`, `epoll_thread_func`, `process_received_data` | EXTENDS `SharedBuffer` |
| `RoundTrip` | what the four programs that send and wait for replies share; a server that may answer | EXTENDS `Stream` |
| `LatencyClient` | `latency_test`: three tests, receiver thread, SIGINT | EXTENDS `RoundTrip` |
| `LatencyTests` | the 100k test ("burst") and the simple latency test ("ping") | EXTENDS `RoundTrip` |
| `SimpleClient` | `HFTTCPClientSimple` and its `main()` | EXTENDS `RoundTrip` |
| `Receivers` | the six programs over one `Stream` | composes the modules above, holds their properties |
| `SharedBufferProofs` | theorems about server and client, for any number of peers, workers and messages and any size of the buffer | EXTENDS `Receivers`, TLAPS |
| `RoundTripProofs`, `RoundTripExactProofs` | which reply is matched with which send time, for any number of messages and any size of the buffers | the first EXTENDS `Receivers`, the second the first |
| `ReceiversProofs` | the types and the counters of all six programs; descriptor and error counter of the clients | EXTENDS `SharedBufferProofs` and `RoundTripExactProofs` |
| `MCHFTServer`, `MCServerMain`, `MCHFTTCPClient`, `MCReceivers` | instances for TLC | sets of descriptors, symmetry, message types |

### HFTServer and Sockets

A step is what one thread does between two points at which another thread can
tell: a system call, a section under `connections_mutex_`, a read of `running_`
or of a `Connection`.

| state | code |
|---|---|
| `peer`, `unread`, `sent`, `backlog`, `listening` | the TCP connections as the server's kernel sees them |
| `fdTable`, `interest`, `ready` | descriptor table, epoll registrations (`data.ptr`), epoll's ready list |
| `connections`, `live`, `connFd` | `connections_`, the allocated `Connection` objects, `Connection::fd` |
| `total`, `peak` | `stats_.total_connections`, `stats_.peak_connections` |
| `wpc`, `batch`, `wfd`, `wconn` | per worker: where it is, the events it still has to handle, `client_fd`, `conn` |
| `running`, `spc` | `running_`, where `stop()` is |

| actions | code |
|---|---|
| `ReadRunning`, `WaitEvents`, `TakeClient` | `worker_thread` |
| `Accept`, `AcceptFails`, `AddToEpoll`, `AddToEpollFails`, `StoreConnection` | `accept_connections` |
| `Lookup`, `LookupFails`, `RecvData`, `RecvAgain`, `RecvFails`, `RecvEof` | `handle_client_events` |
| `CloseDel`, `CloseFd`, `CloseErase` | `close_connection`, which reads `conn.fd` three times |
| `StopBegins` ... `StopClosesConnections` | `stop()` |
| `ClientStep` | connect, send, close, reset by the clients |

Reading a freed `Connection` is undefined. `FdThrough` gives the outcomes a
build produces: the old descriptor, or what the allocator wrote there, which is
no descriptor. A freed address can be allocated again. `accept()` hands out the
lowest free descriptor.

What a `recv()` returned is not looked at: dispatch and statistics come after
the step and change nothing this module has. `Init` is the state in which
`start()` returns; a worker that has not been scheduled cannot be told from one
that has not been created.

Definitions whose comment begins with "Fault" are not part of the
specification. Each is the definition after it with a plausible bug, kept to
show that some property catches it (`mutants` in `PROJECT.json`).

### ServerMain

`mpc` is where `main()` is (through `initialize()` and `start()`), `hpc[t]`
where the signal handler is on thread `t`, `wpc[w]` where a worker is, `holder`
who holds `stats_mutex_` and stdout's lock (glibc's, taken by every
`std::cout` line). A signal goes to the main thread unless that thread is in
the handler, which blocks the signal for it; then to any worker. The
interrupted thread keeps its locks and goes on when the handler returns.
`stop()` is one action per step, with the test and the store of `running_`
apart. `worker_threads_.emplace_back` is two: `SpawnWorker` starts the thread,
which is `newborn` until `StoreWorker` has it in the vector, so SIGINT can find
a worker that nobody joins (`interrupted` remembers which). Two calls of
`stop()` that join at once (`JoinTwice`), or a worker that joins itself
(`JoinSelf`), end the process with an exception.

Not modelled: a signal inside `malloc`; a signal while the vector reallocates,
when the threads already moved may not be joined either; what `emplace_back`
makes of a vector that the handler has cleared in the middle of it, which here
holds the new worker alone; the handler's own output. The prints of
`initialize()` take stdout's lock too, but nobody waits for it: there is no
worker yet, and a handler finds `running_` false.

### HFTTCPClient

`pc[t]` is where the application thread or the receive, send or heartbeat
thread is. A step is an access to `connection_state_`, `running_` or
`socket_fd_`, a system call, or a section under `send_queue_mutex_`. The send
thread's test of the predicate (`TestPredicate`) and its sleep (`FallAsleep`)
are two steps under the mutex, because a notification sent without it can fall
between them.

| state | code |
|---|---|
| `state`, `fd`, `running`, `auto` | `connection_state_`, `socket_fd_`, `running_`, `auto_reconnect_` |
| `queue`, `msg` | `send_queue_`; the message a thread is pushing or sending |
| `link` | the TCP connection behind each descriptor |
| `wire`, `lost` | what the kernel took, what was popped and not sent |

| actions | code |
|---|---|
| `ConnectBegins` ... `ConnectReturns` | `connect()`, called by the application and by `attempt_reconnection()` |
| `TestState` ... `TestAuto` | `handle_disconnection()`, called by the receive and the send thread |
| `ReceiverLoop`, `ReceiverConnected`, `Receive`, `ReceiveFails` | `receive_thread_func`; `running_` and the state are read one after the other |
| `SenderLoop` ... `SendFails` | `send_thread_func`, `send_data()` |
| `SendMessage`, `Push`, `NotifyQueued` | `send_message()`, on the application's and the heartbeat thread |
| `Start`, `StopCalled` ... `ClearSocketFd` | `start()`, `stop()`, `disconnect()` as the test program calls them |
| `EndConnection` | the server or the network |

Several threads can be in `connect()` and `handle_disconnection()` at once and
share `socket_fd_`; every system call there acts on the descriptor of that
moment, as in the code. A refused connection, a timeout and an error from
`getsockopt()` are one action (`ConnectFails`); what `socket_fd_ = -1` does to
`FD_SET` is undefined and taken as a failure. An address that `inet_pton`
rejects, statistics, handlers and the signal handler of the test program are
left out; what is received, and the epoll thread, are in `ClientReceive`.

### Receivers and the modules it composes

Six programs read messages from a stream: the server, `HFTTCPClient`,
`latency_test`, the 100k test, the simple latency test and the simple client.
`Init` chooses one (`program`) and the other end of the connection is free to
do what any of the others does, and worse: it splits a message, writes several
before one is read, answers or does not, closes, or loses the connection. The
programs never run side by side in this model, because all one learns of
another is the stream; one model of the stream and one run serve them all.

**Stream.** Every client writes `sizeof(Message)` = 1064 bytes, of orders and
market data too, so a message is two halves, `<<writer, number, 1 or 2>>`.
Sizes are counted in halves: the server demands 1120 bytes of an order and 1152
of market data, which is "more than one message", three halves. `taken` and
`split` are history.

| state | code |
|---|---|
| `buffer`, `got[t]`, `offset[t]` | `recv_buffer_`; `bytes_received` and `offset` on the stack of thread `t` |
| `edge` | the event that `epoll_thread_func` has not yet been given |
| `count`, `bytes` | `total_messages_processed` or `messages_received`; `bytes_received` of the statistics |
| `conn`, `service` | the worker's connection, the service `services_.find()` returned |
| `fd`, `connected`, `stop`, `lock` | `socket_fd_`, `connected_` (or the state), `stop_receiver_`, `latency_mutex_` |
| `times`, `replies`, `errors` | the send times still stored, `messages_received`, `errors_` |
| `seen[t]` | what thread `t` has read of `stats_.errors` |
| `handled`, `overlap`, `pairs`, `failed`, `ignored`, `early` | history |

| actions | code |
|---|---|
| `TakeEvent` ... `ServerRecvEof`, `Frame` | `handle_client_events`, lines 212-281 |
| `FindService`, `Serve`, `UpdateStats` | `process_client_message` (three overloads that differ in their log) and `process_message` of a service |
| `EpollWait`, `EpollRecvNothing`, `EpollRecvFails` | `epoll_thread_func` |
| `ReceiveEof`, `ReceiveFails` | `receive_thread_func` |
| `ClientRecv`, `CountBytes`, `Deliver`, `DeliverNoMore`, `Tally` | both, with `process_received_data` |
| `LatencyConnect` ... `Percentiles` | `connect`, `run_latency_test`, `run_burst_test`, `run_sustained_test`, `send_message` |
| `StartReceiver`, `AssignReceiver` | `receiver_thread_ = std::thread(...)`: the thread runs before the assignment |
| `LatencyReset`, `LatencyLock`, `ClearTimes` | `reset_stats`, with its `latency_mutex_` |
| `Interrupt`, `ClearFlags`, `JoinReceiver`, `JoinTwice`, `CloseSocket`, `ForgetSocket` | SIGINT, `disconnect` from `main()` and from the handler |
| `TestStop` ... `MatchNoMore` | `receive_responses` |
| `Burst...`, `Ping...` | the 100k test; the simple latency test |
| `Simple...`, `TestState`, `ReadErrors`, `WriteErrors` | the simple client; its unprotected `errors++` is a read and a write |

The threads read `recv_buffer_` again at each step, as the code does, so that
what another thread receives in between changes what they see: `message_type`
is read up to three times (`TypeRead`), and a type read from the middle of a
message may be any. Once two threads have been in the buffer at once
(`overlap`) `handled` records no more; nothing is promised from there on.

`ServerReceive` gives any idle worker any connection that has something to
read: which worker gets which event, and that an event can be lost, is the
subject of `HFTServer`, and everything `HFTServer` allows is allowed here.
`ClientReceive` has one connection and a client that keeps running, while
`HFTTCPClient` models reconnection and `stop()`.

In `latency_test` the signal handler runs on the main thread: while
`pc["handler"]` is not `"none"`, `main()` does not move, and it keeps its lock.
`create_test_message` may stop the program (`CreateMessageAborts`): whether the
`memcpy` past the end of the payload is noticed depends on the build.

## 3. Runs

| run | instance | shows |
|---|---|---|
| `ServerShared` | 2 workers, 2 clients, 2 descriptors, 4 addresses | `TypeOK`, `OneOwner`, `StopFreesAll`, `PeakBound` under every interleaving of accept, close and stop |
| `ServerAlone` | 1 worker, 3 clients, 2 descriptors, 3 addresses | `NoDangling`, `TableAgrees`, `NoMissedEdge`, `StopClosesAll`, `OnlyDisconnectedClosed`; the server implements `ClientSessions` |
| `ServerAloneFair` | 1 worker, 2 clients, 2 units of data each | `DataIsRead`, `EofIsNoticed`, `StopReturns` |
| `ServerMain` | 2 workers, up to 2 SIGINTs | `TypeOK`, `FailureCleansUp`, `EpollOutlivesWaiters`, `StopCompletes` |
| `DataLost` | 2 workers, 1 client | *violation* of `DataIsRead` |
| `WrongClient` | 2 workers, 2 clients | *violation* of `OnlyDisconnectedClosed` |
| `SigintDeadlock` | 2 workers, 1 SIGINT | *violation* of `SigintStops` |
| `ClientQueue` | 2 messages, 2 descriptors, 1 connection ended, 1 attempt refused | `SleeperIsWoken`, `DoneIsClean`; the queue implements `LossyFifo` |
| `ClientLive` | the same with 1 message | `QueueDrains`, `StopReturnsAwake` |
| `Receivers` | the six programs; 2 workers and 2 clients of the server; 2 to 3 messages | `TypeOK`, `InOrderUnlessShared`, `CountsWhatArrived`, `BytesConserved`, `NeverTooShort`, `ExactWhenClean`, `ReceiverBeforeClose`, `ErrorsShow`, `PeerEndNoticed`, `LatencyTestEnds`, `ReplyTestsEnd`, `SimpleEnds` |
| `OrderDropped` | the server of `Receivers` | *violation* of `WholeMessageProcessed` |
| `ClientStop` | nothing goes wrong on the network | *violation* of `StopReturns` |

**Bounds.** The hazards of the server need a client that ends, one that takes
over its descriptor, and two workers: two clients, two workers. Two descriptors
let an event of the first be pending while the second is in use; with three
clients and two descriptors both reuse and exhaustion (`AcceptFails`) happen.
Four heap addresses are what two workers and two descriptors can hold at once.
One unit of data before the end of stream is enough to tell a handler that
stops too early (`RecvOnce`) from one that does not; the liveness run has two.
`MAX_EVENTS` (1024) is never reached, so `epoll_wait()` returns everything.

In the client two messages are the fewest that can be out of order; the
application and the heartbeat thread can each have one in hand. One ended
connection (`MaxEnds`) is found by both the receive and the send thread, and a
second descriptor lets one of them reconnect while the other is still closing.
One refused attempt (`MaxRefusals`) makes `attempt_reconnection()` call itself.
The safety runs use symmetry where values cannot be told apart: clients, heap
addresses, workers and messages, but not descriptors, which the kernel hands
out in order.

In `Receivers` two halves are what the size tests of all six programs tell
apart: nothing, part of a message, exactly one, one and a part of the next, two.
`BufferHalves` is 4 and `ReplyHalves` is 5. In the code the `recv_buffer_` of
the server has 4096 bytes (3 messages and a part) and that of `HFTTCPClient`
65536 (61 and a part), the buffers for replies 4096 in `latency_test` and 65536
in the 100k test. What matters is that two messages fit, so that one `recv()` can
return a message and more, and, for replies, that the buffer ends inside a
message; a `recv()` into `recv_buffer_` ends inside one when only a part has
arrived. One client writes an order and a quote, so
that an order can arrive alone, with part of the quote or with all of it; the
other a heartbeat, the type that no service takes and whose size is not
tested. One connection ends, once: after that the programs do nothing that a
second end could disturb. Three messages let a shifted reply be followed by
another one; two suffice for `latency_test`, whose threads interleave most.
SIGINT is sent once, at any step of `latency_test`. `connect()` of these four
programs is one step up to the point where it has a connection: no other thread
of theirs exists yet, and a handler that runs before that point makes it fail.

**Fairness.** `FairSpec` is weak fairness for every thread: the operating
system schedules them, `epoll_wait()` has a timeout of 1 ms. Clients owe nothing
and nobody has to call `stop()`. `ServerMain` adds strong fairness for taking a
lock that is free again and again. Data is finite (`MaxData`), so a client that
sends for ever as fast as the worker reads is not a behaviour of the model: it
would keep the worker in the receive loop, which does not test `running_`.
In the client every thread is scheduled, including one inside `connect()`,
whose `select()` has a timeout; the application need neither send nor stop. No
property with auto-reconnection asks for progress of `stop()`: two threads can
keep replacing each other's socket. In `Receivers` every thread of a client is
weakly fair, and so are the second half of a message and a server that reads
what it is sent (and answers or not). The server never has to end a connection,
nobody has to send SIGINT, and the workers need no fairness, since no property
asks for their progress there.

**Deadlock** is checked except in the two runs of `ServerMain` (`ServerMain`,
`SigintDeadlock`), where the deadlock that `SigintDeadlock` shows is reachable,
and in the two of `Receivers` (`Receivers`, `OrderDropped`), whose programs end.
The receive and heartbeat threads of
the client never block, so the hang of `stop()` is no deadlock of the model but
a violation of liveness.

### What the violations show

* `DataLost`: `accept_connections` registers the client with epoll (line 169)
  before it stores it in the map (178). Another worker takes the only event in
  between, finds no entry (218) and drops it.
* `WrongClient`: two workers both read the end of a stream and both call
  `close_connection`; the second closes the descriptor of a newer client. The
  same overlap breaks the other properties that `ServerAlone` checks for one
  worker: the model also has the worker that reads `conn->fd` of an object the
  other one has freed (206, 221; `NoDangling`), and the `erase` (406) that takes
  the entry of a newer client, accepted after the `close` (402), whose socket
  `stop()` then leaves open (`StopClosesAll`).
* `SigintDeadlock`: SIGINT while `main()` is in `get_stats()` or printing; the
  handler joins a worker that waits for the lock.
* `ClientStop`: `stop()` clears `running_` (line 234) and calls `notify_all()`
  (237) without the mutex. The send thread has just tested the predicate and
  goes to sleep after it; `join()` never returns. The heartbeat thread may put
  one more message in the queue and so wake the sender, but need not.
  `StopReturnsAwake` shows that, without auto-reconnection, this
  window is the only cause.
* `OrderDropped`: the server wants 1120 bytes for an order, clients write 1064.
  `HFT_TCP_CLIENT_TEST_RESULTS.md` line 86 has "Server processes messages
  correctly", of orders sent one at a time. An order that arrives with part of
  the next message is logged and counted, with its end (symbol, price, quantity)
  taken from the first bytes of that message.

Behaviours of the model that no run is spent on, because no line of the
repository speaks of them or a run above shows the same cause:

* SIGINT inside `emplace_back` (97): the new thread runs and `worker_threads_`
  does not hold it, so `stop()` joins the others and goes on to close the epoll
  instance and free the connections. `EpollOutlivesWaiters` names this worker as
  its exception, and says there is no other.
* A second SIGINT goes to a worker, because the first handler is still on the
  main thread; both are past the test of `running_` (104) and join the same
  thread (`JoinTwice`), or a worker joins itself (`JoinSelf`). `join()` throws and
  the process is terminated. `StopCompletes` and `SigintStops` excuse it.
* With auto-reconnection, the receive thread of the client notices the end of
  the connection and is delayed before it tests the state
  (`hft_tcp_client.cpp:499`); the send thread notices too, closes, reconnects;
  the receive thread then finds "connected" and closes the new connection.
* The receive loop of the server processes one message of each `recv()` and
  drops what follows it (`hft_server.cpp:248`).
* A worker that has measured a message passes a reference into `recv_buffer_` to
  the service; another worker's `recv()` puts its own client's message there
  first (230).
* SIGINT finds `main()` of `latency_test` in the `join()` of its own
  `disconnect()`, and the second `join()` throws (`latency_client.cpp:92`).

Too plain for a property: SIGTERM is caught and does
nothing; `main()` never leaves its loop, since nothing makes `g_server` null;
"Active Connections" prints a counter that only grows; a connection whose reset
is reported by `recv()` stays open until `stop()`.

### What `Receivers` shows

* *Order, once, unmixed* (`InOrderUnlessShared`): the receive loops lose this
  in two ways only, a `recv()` into the shared buffer while another thread is
  not done with it, and a `recv()` that ends inside a message.
* *Every byte counted* (`BytesConserved`, `CountsWhatArrived`): the client's
  counters agree with what both of its threads received.
* *Latencies* (`NeverTooShort`, `ExactWhenClean`): replies are matched in order
  and by no number, so a reply that is missing, split, or faster than the
  storing of its send time gives every later latency the wrong start. The error
  has one direction, too long, but for the simple latency test, where half a
  reply can be left over for the next turn. Against this server no reply comes.
* *Ending* (`LatencyTestEnds`, `ReplyTestsEnd`, `SimpleEnds`, `PeerEndNoticed`):
  `latency_test` hangs only when SIGINT finds `main()` with `latency_mutex_`
  (the handler joins a receiver that waits for it). The 100k test and the simple
  latency test wait for ever for a reply that does not come, and so always when
  they talk to this server. The simple client always ends. `HFTTCPClient`
  notices the end of its connection although its epoll thread throws errors
  away, because the end of the stream is still there after the error.
  An end by an exception counts as an end.
* *Closing* (`ReceiverBeforeClose`): the receiver is through with the descriptor
  before `disconnect()` closes it, but for one window. `connect()` starts the
  thread (`latency_client.cpp:81`) before `receiver_thread_` holds it; SIGINT in
  between finds nothing joinable and closes the descriptor under a receiver that
  may be about to call `recv()`. SIGINT earlier in `connect()` lets it start a
  receiver, and a test, that have no descriptor at all: every `send()` fails, the
  receiver ends at once, and the report has only errors.

Seen on the way, deterministic and therefore no property: in
`calculate_percentiles` the send times that got a reply have been erased, so
the percentiles are those of the times without one (`latency_client.cpp:316`);
`HFTTCPClient` divides the sum of n latencies by n - 1, and leaves the first one
alone (`hft_tcp_client.cpp:553`); a rate of 0 divides by zero
(`latency_client.cpp:214`); an `OrderMessage` of 1120 bytes is copied into a
payload of 1024 (`latency_client.cpp:350`, `hft_tcp_client.cpp:167`); after a
failed `connect()` the latency clients close `socket_fd_` twice; the simple
client counts the `EBADF` of its own `disconnect()` as an error.

## 4. Proofs

All for arbitrary constants, under the assumptions the modules state of them:
finitely many descriptors, the threads' names distinct from the workers',
`NumMessages`, `BufferHalves` and `ReplyHalves` natural numbers, `Remote` one of
the peers. That a map of descriptors is finite, and so has a size, is all that
is used of the operating system's limits.

`HFTServerProofs`, any number of workers:

* `TypeCorrect`: `Spec => []TypeOK`.
* `ConnectionsHaveOneOwner`, `StopLeavesNoConnection`: by the inductive
  invariant `Ownership`, which is `TypeOK`, `OneOwner`, `StopFreesAll` and
  `JoinBarrier` (past the joins every worker has exited) together. `OneOwner`
  needs `HeldOwned` to be inductive (a
  stored object must not be in the map already) and `StopFreesAll` needs
  `JoinBarrier` (no accepting worker is left to hold an object) and
  `NothingLeaks`.
* `CountersBracket`: `Spec => []PeakBound`, the size of the map against the two
  counters. It needs that a descriptor being stored is not counted twice: the
  size grows by one at most with each `total_connections++`.
* `SocketsInvariant` (lemma): a peer has at most one descriptor, only open
  descriptors are watched, and peers in the accept queue have none.

`HFTServerSoloProofs`, one worker (`OneWorker`): `SoloNoDangling`,
`SoloTableAgrees`, `SoloNoMissedEdge`, `SoloStopClosesAll`,
`SoloOnlyDisconnected`. None of these is inductive. `SoloInv` adds, for each
place the worker can be in, how its descriptor, its `Connection`, the map and
epoll relate, e.g. that every event still in its batch is of a registered
descriptor and points to that descriptor's map entry: with one worker, only
the handling of that event itself can free the object.

In the same module `SoloImplementsSessions`, `Spec => SessionsImplemented`. From
`SoloInv` and `ListensUntilStop` (the listening socket is closed by the second
step of `stop()` and not before), each step is one of `ClientSessions`: `accept()` is `Take`, the locked section
`Register`, the failed EPOLL_CTL_ADD `Reject`, `close()` in `close_connection`
`Release`, which needs that the one worker closes the descriptor it was called
for and that its client has ended; the last step of `stop()` is `Down`, which
needs that the map and the descriptor table agree by then. Every other step
leaves the sessions as they are.

`HFTTCPClientProofs`, any messages and descriptors, by one inductive invariant
(`QueueInv`):

* `ClientTypeCorrect`: `Spec => []TypeOK`. `lost` and `wire` hold messages only,
  which needs `InHand`: a thread has a message in its hands exactly where it
  pushes or sends.
* `SenderIsWoken`: `SleeperIsWoken` needs `FallsOnEmpty`: between the test of
  the predicate and the sleep nothing is pushed, because the mutex is held.
* `QueueIsLossyFifo`: `Spec => Fifo!Spec`. `Pop` is a stutter, `Push` adds at
  the end behind the message in hand, `Send` and `SendFails` take it.

In the same module `ClientLeavesNothing`, `Spec => []DoneIsClean`. The invariant
adds `ThreadsKnown` (what the application's place says of the other
threads) and `OneSocket` (without auto-reconnection one socket is opened, and
when the state is "disconnected" it is closed or someone is about to close it).

`ServerMainProofs`, any number of workers and SIGINTs, by one inductive
invariant (`IInv`): `ServerTypeCorrect`, `StartupFailureCleansUp`,
`WaitersHaveEpoll`. Neither of the last two is inductive alone:

* `Opened` says which of the two descriptors is open at each place of `main()`;
  it is what the error paths of `initialize()` have to undo.
* `NothingRuns`: before `start()` stores `running_` there is no worker, and a
  handler finds nothing to stop.
* `AllJoinable`: a worker that is at work is in `worker_threads_` or is
  `newborn`. A worker that `start()` creates behind the back of a `stop()` in the
  handler is harmless because of `StoreLasts`: `running_` is false for good by
  then, and `JoinedIsIdle`: past the joins no worker gets further than its test,
  but for one in `interrupted`.
* `MainIsFirst` and `NewbornKnown`: a worker runs the handler only once `main()`
  does or has, and a newborn worker that a handler on the main thread has met, or
  that works on while `running_` is false, is in `interrupted`.

`SharedBufferProofs`, the server with any number of workers and peers and the
client with its two receiving threads, messages split anywhere. The invariant
`SharedInv` is the conjunction of three parts, each proved with the ones before:

* `SharedSound`: types, places, and `OneUser`: as long as no recv() wrote into
  the buffer while it was in use (`~overlap`), one thread at a time is between
  its recv() and the last use of what it returned.
* `CountSound` (for `CountsWhatArrived`): twice the messages counted, plus what
  the threads hold, is at most what was received. The server's share is the
  number of workers that have a message and have not counted it, a cardinality,
  so that it holds for any number of workers, and while they overwrite each
  other.
* `OrderSound`, for `TakenInOrder` (`Spec => []InOrderUnlessShared`): there is a
  number `read[p]` of messages received from each peer such that what is in the
  stream follows message `read[p]` without a gap (`StreamInOrder`), what a thread
  works on are the last of them (`HeldInOrder`), the server has served some of
  those before, in order (`ServedInOrder`), and the client has delivered all of
  those before (`DeliveredInOrder`). Both excuses in the property are needed: a
  split recv() makes the next one begin in the middle of a message, an overlap
  replaces a message while it is measured.

`EveryByteCounted`, `Spec => []BytesConserved`, is in `SharedInv` as well.

`RoundTripProofs`: `LatencyIsNeverTooShort`, `Spec => []NeverTooShort`, for
`latency_test`, the 100k test and the simple latency test at once. The invariant
`Ordered` follows the halves of replies through the server, the stream and the
receiver's stack: the i-th half that ever comes into being belongs to message
i / 2 or a later one (`OutInPlace`, `InInPlace`, `HeldInPlace`), because replies
keep the order of the messages and a message that is lost or not answered only
brings later ones forward; and the k-th send time stored is of message k or an
older one (`TimesInPlace`), because a send time is stored once per message and
in order, and a reply that comes before any is stored uses none. A whole reply
ends at an even half, so it cannot be older than the time it is given. For the
simple latency test, which keeps no list, `OneAtATime` says that one message at
most is under way until a reply has been split.

`RoundTripExactProofs`: `MatchedExactly`, `Spec => []ExactWhenClean`, which needs
the other direction: `NoneAhead` (nothing that is under way, stored or matched
belongs to a message not yet handed to send(), and no more are than the program
sends). While no send was cut short and no message was left without an answer
(`Clean`), `Exact` says that every half is at its place and not merely not before
it: on its way to the server, on its way back (`ReturnExact`), on the receiver's
stack (`HeldExact`), and the send times left are those of the messages after the
replies counted (`TimesExact`). For the simple latency test `NeverTooShort` and
`NoneAhead` are enough: a reply belongs to no older message and to no later one.
Two places of `latency_test` need care: a test that starts clears its counters
and send times, which changes nothing because nothing was sent before
(`NothingSent`), and
a send after SIGINT sends nothing and stores its time all the same, so that what
was sent equals what was begun only while `connected` (`SendExact`).

`ReceiversProofs`, all six programs:

* `EverythingTyped`: `Spec => []TypeOK`, from `SharedInv`, `Ordered` and
  `NoneAhead`, each of which types the variables of its programs, and `RestTyped`
  for the flags, the descriptor and the error counter. `Len(buffer) <=
  BufferHalves`, `got[t] <= Len(buffer)` and the range of `pairs` are the parts
  that are more than a type.
* `CountedWhatArrived`: `Spec => []CountsWhatArrived`, from `CountSound` for
  server and client and `HeldInPlace` for the simple client.
* `NeverReadsClosed`: `Spec => []ReceiverBeforeClose`. `Guarded` says that the
  descriptor is closed only by a `disconnect()` that has joined the receiver or
  found it not yet started, or by a handler while `main()` is between creation and
  assignment of the thread, and that a receiver started after a disconnect finds
  `socket_fd_` at -1.
* `ErrorsAreReported`: `Spec => []ErrorsShow`. `Bounded` counts what each thread
  has read of `errors` and not yet written back: an increment of one thread can
  undo the other's, but what it writes is one more than a value it has read, and
  the receiver adds one at most.

Every invariant, action property and refinement that a passing run checks is the
conclusion of a theorem. The six of `ServerAlone` are proved for one worker, as
the run checks them: with two, a descriptor can be closed for another client
(`WrongClient`), and events can point to freed connections.

Only model-checked: liveness (`DataIsRead`, `EofIsNoticed`, `StopReturns`,
`StopCompletes`, `QueueDrains`, `StopReturnsAwake`, `PeerEndNoticed`,
`LatencyTestEnds`, `ReplyTestsEnd`, `SimpleEnds`), because the prover does not
reason about fairness.

## 5. Plan

All modules of the first plan are written: connection handling, the server's
process, the client's queue and threads, the two receive loops with the message
sizes, and the four programs that wait for replies. What is left:

* Theorems: the safety half of the liveness properties, such as which states the
  latency tests can wait in for ever.
* One model of the client with `ClientReceive`'s threads and reconnection at
  once: a message that begins on one connection and ends on the next.

### Not modelled

* The values of latencies and of their average, minimum, maximum and
  percentiles; reports, log lines and command lines.
* Message and connection handlers that a user of `HFTTCPClient` may register:
  the repository registers some that print.
* `reset_stats()` of `HFTTCPClient`, which the test program calls between its
  tests to start the counters again.
* A concurrent reader of the statistics (`get_stats()` copies a struct that
  other threads write under another mutex or none): a data race of counters
  that are only printed.
* SIGINT in the client test program (`hft_tcp_client_test.cpp:17`); `ServerMain`
  and `LatencyClient` have the same pattern.
* Code without a caller: `send_response`, `is_valid`, `FillMessage`,
  `reset_stats` of the simple client, `on_connection_established` and
  `on_connection_closed` of the services.
* Build files, scripts, reports, and `src/hft_server.cpp.backup`, which no build
  file names.
