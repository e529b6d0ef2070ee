---------------------------- MODULE HFTTCPClient ----------------------------
(***************************************************************************)
(* HFTTCPClient (src/inc/hft_tcp_client.h, src/src/hft_tcp_client.cpp) in  *)
(* the hands of its test program: the application thread connects, starts  *)
(* the client, sends, stops and disconnects; the receive, send and         *)
(* heartbeat threads run beside it.  Modelled are the connection state,    *)
(* the socket, the send queue with its mutex and condition variable,       *)
(* reconnection and shutdown.  What is received, and the epoll thread,     *)
(* which changes none of this, are left out.                               *)
(*                                                                         *)
(* A step is an access to one atomic or to socket_fd_, a system call, or a *)
(* section under send_queue_mutex_.                                        *)
(*                                                                         *)
(* Definitions marked "Fault" are not part of the specification: they are  *)
(* the next definition with a bug that some property has to catch.         *)
(***************************************************************************)
EXTENDS Integers, Sequences, FiniteSets

CONSTANTS
    Messages,     \* what the application and the heartbeat thread send
    NoMessage,
    Fds,          \* descriptors socket() may return
    MaxEnds,      \* bound: connections ended by the server or the network
    MaxRefusals   \* bound: connection attempts the server lets fail

NoFd == -1

ASSUME MessagesAssumption == NoMessage \notin Messages
ASSUME ClientFdsAssumption == Fds \subseteq Nat
ASSUME BoundsAssumption == MaxEnds \in Nat /\ MaxRefusals \in Nat

App == "app"
Receiver == "receive"
Sender == "send"
Heart == "heartbeat"
Threads == {App, Receiver, Sender, Heart}
Producers == {App, Heart}
Users == {Receiver, Sender}     \* of the connection: they find it lost

VARIABLES
    running,      \* running_
    state,        \* connection_state_
    fd,           \* socket_fd_
    auto,         \* auto_reconnect_, chosen before start()
    queue,        \* send_queue_
    pc,           \* where each thread is
    msg,          \* msg[t]: the message thread t has in its hands
    link,         \* link[f]: the TCP connection of descriptor f
    wire,         \* messages handed to the kernel, in order
    lost,         \* messages taken from the queue and not handed over
    ends,         \* connections ended so far
    refusals      \* connection attempts failed so far

vars == <<running, state, fd, auto, queue, pc, msg, link, wire, lost, ends, refusals>>
network == <<link, ends, refusals>>
fifo == <<queue, msg, wire, lost>>

States == {"disconnected", "connecting", "connected", "reconnecting", "error"}
Labels == {"unborn", "loop", "test", "recv", "wait", "falling", "asleep", "pop", "send", "sending",
           "push", "notify", "hd", "hdStore", "hdClose", "hdClear", "hdAuto",
           "cn", "cnSocket", "cnConnect", "cnWait", "cnClose", "cnClear", "cnError", "cnDone",
           "start", "work", "stop", "stopStore", "stopNotify", "join",
           "dc", "dcStore", "dcClose", "dcClear", "done", "exited"}

TypeOK ==
    /\ running \in BOOLEAN /\ auto \in BOOLEAN
    /\ state \in States
    /\ fd \in Fds \cup {NoFd}
    /\ queue \in Seq(Messages) /\ wire \in Seq(Messages) /\ lost \in SUBSET Messages
    /\ pc \in [Threads -> Labels]
    /\ msg \in [Threads -> Messages \cup {NoMessage}]
    /\ link \in [Fds -> {"closed", "fresh", "trying", "up", "ended"}]
    /\ ends \in 0..MaxEnds /\ refusals \in 0..MaxRefusals

\* The application is about to call connect().
Init ==
    /\ running = FALSE /\ auto \in BOOLEAN
    /\ state = "disconnected"
    /\ fd = NoFd
    /\ queue = <<>> /\ wire = <<>> /\ lost = {}
    /\ pc = [t \in Threads |-> IF t = App THEN "cn" ELSE "unborn"]
    /\ msg = [t \in Threads |-> NoMessage]
    /\ link = [f \in Fds |-> "closed"]
    /\ ends = 0 /\ refusals = 0

Go(t, here, there) == pc[t] = here /\ pc' = [pc EXCEPT ![t] = there]

\* The connection behind socket_fd_.
Current == IF fd = NoFd THEN "closed" ELSE link[fd]

\* close(socket_fd_); on -1 or on a closed descriptor it is an error nobody
\* looks at.
CloseSocket == link' = [f \in Fds |-> IF f = fd THEN "closed" ELSE link[f]]

-----------------------------------------------------------------------------
(* connect(), called by the application and by attempt_reconnection()      *)

\* Where a thread goes on when connect() or handle_disconnection() is done.
Back(t) == [app |-> "start", receive |-> "loop", send |-> "pop"][t]

\* connect() returned false: the application gives up, a background thread
\* sleeps and calls attempt_reconnection() again.
Retry(t) == IF t = App THEN "stop" ELSE "cn"

ConnectBegins(t) ==
    /\ \/ state = "connected" /\ Go(t, "cn", Back(t)) /\ UNCHANGED state
       \/ state # "connected" /\ Go(t, "cn", "cnSocket") /\ state' = "connecting"
    /\ UNCHANGED <<running, fd, auto, fifo, network>>

CreateSocket(t) ==
    /\ Go(t, "cnSocket", "cnConnect")
    /\ \E f \in Fds :
        /\ link[f] = "closed"
        /\ \A g \in Fds : link[g] = "closed" => f <= g
        /\ fd' = f
        /\ link' = [link EXCEPT ![f] = "fresh"]
    /\ UNCHANGED <<running, state, auto, fifo, ends, refusals>>

\* socket() = -1: no descriptor is left.
CreateSocketFails(t) ==
    /\ Go(t, "cnSocket", "cnError")
    /\ \A f \in Fds : link[f] # "closed"
    /\ fd' = NoFd
    /\ UNCHANGED <<running, state, auto, fifo, network>>

\* ::connect() on whatever socket_fd_ is now; only a new socket is EINPROGRESS.
StartConnecting(t) ==
    /\ IF Current = "fresh"
       THEN Go(t, "cnConnect", "cnWait") /\ link' = [link EXCEPT ![fd] = "trying"]
       ELSE Go(t, "cnConnect", "cnClose") /\ UNCHANGED link
    /\ UNCHANGED <<running, state, fd, auto, fifo, ends, refusals>>

\* select() and getsockopt() find no error on whatever socket_fd_ is now; a
\* socket that another thread has just created counts as writable.
Connected(t) ==
    /\ Go(t, "cnWait", "cnDone")
    /\ Current # "closed"
    /\ link' = [link EXCEPT ![fd] = IF @ = "trying" THEN "up" ELSE @]
    /\ UNCHANGED <<running, state, fd, auto, fifo, ends, refusals>>

\* Refused or timed out, reset meanwhile, or closed by another thread.
ConnectFails(t) ==
    /\ Go(t, "cnWait", "cnClose")
    /\ \/ Current = "trying" /\ refusals < MaxRefusals /\ refusals' = refusals + 1
       \/ Current \in {"closed", "ended"} /\ UNCHANGED refusals
    /\ UNCHANGED <<running, state, fd, auto, fifo, link, ends>>

CloseFailed(t) ==
    /\ Go(t, "cnClose", "cnClear")
    /\ CloseSocket
    /\ UNCHANGED <<running, state, fd, auto, fifo, ends, refusals>>

ClearFailed(t) ==
    /\ Go(t, "cnClear", "cnError")
    /\ fd' = NoFd
    /\ UNCHANGED <<running, state, auto, fifo, network>>

StoreError(t) ==
    /\ Go(t, "cnError", Retry(t))
    /\ state' = "error"
    /\ UNCHANGED <<running, fd, auto, fifo, network>>

ConnectReturns(t) ==
    /\ Go(t, "cnDone", Back(t))
    /\ state' = "connected"
    /\ UNCHANGED <<running, fd, auto, fifo, network>>

Connect(t) ==
    \/ ConnectBegins(t) \/ CreateSocket(t) \/ CreateSocketFails(t) \/ StartConnecting(t)
    \/ Connected(t) \/ ConnectFails(t) \/ CloseFailed(t) \/ ClearFailed(t) \/ StoreError(t)
    \/ ConnectReturns(t)

-----------------------------------------------------------------------------
(* handle_disconnection()                                                  *)

TestState(t) ==
    /\ Go(t, "hd", IF state = "disconnected" THEN Back(t) ELSE "hdStore")
    /\ UNCHANGED <<running, state, fd, auto, fifo, network>>

StoreDisconnected(t) ==
    /\ Go(t, "hdStore", "hdClose")
    /\ state' = "disconnected"
    /\ UNCHANGED <<running, fd, auto, fifo, network>>

CloseLost(t) ==
    /\ Go(t, "hdClose", IF fd = NoFd THEN "hdAuto" ELSE "hdClear")
    /\ CloseSocket
    /\ UNCHANGED <<running, state, fd, auto, fifo, ends, refusals>>

ClearLost(t) ==
    /\ Go(t, "hdClear", "hdAuto")
    /\ fd' = NoFd
    /\ UNCHANGED <<running, state, auto, fifo, network>>

TestAuto(t) ==
    /\ Go(t, "hdAuto", IF auto THEN "cn" ELSE Back(t))
    /\ state' = IF auto THEN "reconnecting" ELSE state
    /\ UNCHANGED <<running, fd, auto, fifo, network>>

HandleDisconnection(t) ==
    \/ TestState(t) \/ StoreDisconnected(t) \/ CloseLost(t) \/ ClearLost(t) \/ TestAuto(t)

-----------------------------------------------------------------------------
(* receive_thread_func                                                     *)

ReceiverLoop ==
    /\ Go(Receiver, "loop", IF running THEN "test" ELSE "exited")
    /\ UNCHANGED <<running, state, fd, auto, fifo, network>>

ReceiverConnected ==
    /\ Go(Receiver, "test", IF state = "connected" THEN "recv" ELSE "loop")
    /\ UNCHANGED <<running, state, fd, auto, fifo, network>>

\* Data, or EAGAIN.
Receive ==
    /\ Go(Receiver, "recv", "loop")
    /\ Current \in {"trying", "up"}
    /\ UNCHANGED <<running, state, fd, auto, fifo, network>>

\* recv() = 0 ("Server disconnected"), or an error other than EAGAIN.
ReceiveFails ==
    /\ Go(Receiver, "recv", "hd")
    /\ Current \notin {"trying", "up"}
    /\ UNCHANGED <<running, state, fd, auto, fifo, network>>

ReceiverStep == ReceiverLoop \/ ReceiverConnected \/ Receive \/ ReceiveFails

-----------------------------------------------------------------------------
(* send_thread_func.  The thread holds send_queue_mutex_ from its test of  *)
(* the predicate until it sleeps.                                          *)

QueueUnlocked == pc[Sender] # "falling"

SenderLoop ==
    /\ Go(Sender, "loop", IF running THEN "wait" ELSE "exited")
    /\ UNCHANGED <<running, state, fd, auto, fifo, network>>

\* wait(): the predicate, and the test of running_ when it is true.
TestPredicate ==
    /\ Go(Sender, "wait", IF ~running THEN "exited"
                          ELSE IF queue = <<>> THEN "falling" ELSE "pop")
    /\ UNCHANGED <<running, state, fd, auto, fifo, network>>

FallAsleep ==
    /\ Go(Sender, "falling", "asleep")
    /\ UNCHANGED <<running, state, fd, auto, fifo, network>>

\* A condition variable may wake up without a notification.
WakeSpuriously ==
    /\ Go(Sender, "asleep", "wait")
    /\ UNCHANGED <<running, state, fd, auto, fifo, network>>

Pop ==
    /\ Go(Sender, "pop", "send")
    /\ queue # <<>> /\ state = "connected"
    /\ queue' = Tail(queue)
    /\ msg' = [msg EXCEPT ![Sender] = Head(queue)]
    /\ UNCHANGED <<running, state, fd, auto, wire, lost, network>>

\* Fault: the loop is do ... while, and sends what it has not taken.
NothingToPopSends ==
    /\ Go(Sender, "pop", "send")
    /\ queue = <<>> \/ state # "connected"
    /\ UNCHANGED <<running, state, fd, auto, fifo, network>>

NothingToPop ==
    /\ Go(Sender, "pop", "loop")
    /\ queue = <<>> \/ state # "connected"
    /\ UNCHANGED <<running, state, fd, auto, fifo, network>>

Sendable == fd # NoFd /\ state = "connected"

\* send_data(): its tests, and send() on whatever socket_fd_ is by then.
TestSendable ==
    /\ Go(Sender, "send", "sending")
    /\ Sendable
    /\ UNCHANGED <<running, state, fd, auto, fifo, network>>

\* The kernel takes the whole message, also when the server has closed its end.
Send ==
    /\ Go(Sender, "sending", "pop")
    /\ Current \in {"up", "ended"}
    /\ wire' = Append(wire, msg[Sender])
    /\ msg' = [msg EXCEPT ![Sender] = NoMessage]
    /\ UNCHANGED <<running, state, fd, auto, queue, lost, network>>

\* Fault: a message that could not be sent goes back into the queue.
SendFailsRequeues ==
    /\ \/ Go(Sender, "send", "hd") /\ ~Sendable
       \/ Go(Sender, "sending", "hd")
    /\ queue' = Append(queue, msg[Sender])
    /\ msg' = [msg EXCEPT ![Sender] = NoMessage]
    /\ UNCHANGED <<running, state, fd, auto, wire, lost, network>>

\* Not connected any more, a broken connection, or a full socket buffer: the
\* socket does not block, and a part counts as nothing.
SendFails ==
    /\ \/ Go(Sender, "send", "hd") /\ ~Sendable
       \/ Go(Sender, "sending", "hd")
    /\ lost' = lost \cup {msg[Sender]}
    /\ msg' = [msg EXCEPT ![Sender] = NoMessage]
    /\ UNCHANGED <<running, state, fd, auto, queue, wire, network>>

SenderStep ==
    \/ SenderLoop \/ TestPredicate \/ FallAsleep \/ Pop \/ NothingToPop
    \/ TestSendable \/ Send \/ SendFails

-----------------------------------------------------------------------------
(* send_message(), on the application's thread ("work") and in the loop of *)
(* heartbeat_thread_func                                                   *)

Idle(t) == IF t = App THEN "work" ELSE "loop"

InUse(m) ==
    \/ m \in lost
    \/ \E t \in Threads : msg[t] = m
    \/ \E s \in {queue, wire} : \E i \in DOMAIN s : s[i] = m

\* The test of the connection state; a message is sent once.
SendMessage(t, m) ==
    /\ t = Heart => running
    /\ ~InUse(m)
    /\ state = "connected"
    /\ Go(t, Idle(t), "push")
    /\ msg' = [msg EXCEPT ![t] = m]
    /\ UNCHANGED <<running, state, fd, auto, queue, wire, lost, network>>

Push(t) ==
    /\ Go(t, "push", "notify")
    /\ QueueUnlocked
    /\ queue' = Append(queue, msg[t])
    /\ msg' = [msg EXCEPT ![t] = NoMessage]
    /\ UNCHANGED <<running, state, fd, auto, wire, lost, network>>

\* notify_one() or notify_all(): the sleeping thread takes the mutex again.
Notify(t, here, there) ==
    /\ pc[t] = here
    /\ pc' = [pc EXCEPT ![t] = there, ![Sender] = IF @ = "asleep" THEN "wait" ELSE @]
    /\ UNCHANGED <<running, state, fd, auto, fifo, network>>

\* Fault: the sender is not notified.
NotifyForgotten(t) ==
    /\ Go(t, "notify", Idle(t))
    /\ UNCHANGED <<running, state, fd, auto, fifo, network>>

NotifyQueued(t) == Notify(t, "notify", Idle(t))

HeartStops ==
    /\ Go(Heart, "loop", "exited")
    /\ ~running
    /\ UNCHANGED <<running, state, fd, auto, fifo, network>>

Produce(t) == (\E m \in Messages : SendMessage(t, m)) \/ Push(t) \/ NotifyQueued(t)

-----------------------------------------------------------------------------
(* start(), stop() and disconnect() on the application's thread            *)

Start ==
    /\ pc[App] = "start"
    /\ running' = TRUE
    /\ pc' = [t \in Threads |-> IF t = App THEN "work" ELSE "loop"]
    /\ UNCHANGED <<state, fd, auto, fifo, network>>

StopCalled ==
    /\ Go(App, "work", "stop")
    /\ UNCHANGED <<running, state, fd, auto, fifo, network>>

TestRunning ==
    /\ Go(App, "stop", IF running THEN "stopStore" ELSE "dc")
    /\ UNCHANGED <<running, state, fd, auto, fifo, network>>

ClearRunning ==
    /\ Go(App, "stopStore", "stopNotify")
    /\ running' = FALSE
    /\ UNCHANGED <<state, fd, auto, fifo, network>>

\* Fault: the sender is not notified.
NotifyStopForgotten ==
    /\ Go(App, "stopNotify", "join")
    /\ UNCHANGED <<running, state, fd, auto, fifo, network>>

NotifyStop == Notify(App, "stopNotify", "join")

\* Fault: the receive thread is detached.
JoinSenderOnly ==
    /\ Go(App, "join", "dc")
    /\ pc[Sender] = "exited"
    /\ UNCHANGED <<running, state, fd, auto, fifo, network>>

Join ==
    /\ Go(App, "join", "dc")
    /\ \A t \in Threads \ {App} : pc[t] = "exited"
    /\ UNCHANGED <<running, state, fd, auto, fifo, network>>

TestDisconnected ==
    /\ Go(App, "dc", IF state = "disconnected" THEN "done" ELSE "dcStore")
    /\ UNCHANGED <<running, state, fd, auto, fifo, network>>

StoreDisconnect ==
    /\ Go(App, "dcStore", "dcClose")
    /\ state' = "disconnected"
    /\ UNCHANGED <<running, fd, auto, fifo, network>>

CloseSocketFd ==
    /\ Go(App, "dcClose", "dcClear")
    /\ CloseSocket
    /\ UNCHANGED <<running, state, fd, auto, fifo, ends, refusals>>

ClearSocketFd ==
    /\ Go(App, "dcClear", "done")
    /\ fd' = NoFd
    /\ UNCHANGED <<running, state, auto, fifo, network>>

\* What stop() and disconnect() do once they are called.
ShutDown ==
    \/ TestRunning \/ ClearRunning \/ NotifyStop \/ Join
    \/ TestDisconnected \/ StoreDisconnect \/ CloseSocketFd \/ ClearSocketFd

-----------------------------------------------------------------------------
\* The server closes or resets a connection, or the network does.
EndConnection(f) ==
    /\ link[f] = "up"
    /\ ends < MaxEnds
    /\ link' = [link EXCEPT ![f] = "ended"]
    /\ ends' = ends + 1
    /\ UNCHANGED <<running, state, fd, auto, fifo, pc, refusals>>

Done == pc[App] = "done" /\ UNCHANGED vars

Next ==
    \/ Start \/ StopCalled \/ ShutDown
    \/ \E t \in Users \cup {App} : Connect(t)
    \/ \E t \in Users : HandleDisconnection(t)
    \/ \E t \in Producers : Produce(t)
    \/ HeartStops
    \/ ReceiverStep \/ SenderStep \/ WakeSpuriously
    \/ \E f \in Fds : EndConnection(f)
    \/ Done

Spec == Init /\ [][Next]_vars

\* Every thread runs; the application need not send, nor stop.
FairSpec ==
    /\ Spec
    /\ WF_vars(ReceiverStep) /\ WF_vars(SenderStep) /\ WF_vars(HeartStops)
    /\ \A t \in Users : WF_vars(HandleDisconnection(t) \/ Connect(t))
    /\ \A t \in Producers : WF_vars(Push(t)) /\ WF_vars(NotifyQueued(t))
    /\ WF_vars(Connect(App) \/ Start) /\ WF_vars(ShutDown)

-----------------------------------------------------------------------------
(* Properties                                                              *)

\* The send thread does not sleep over a message: when the queue is not empty,
\* whoever filled it is about to notify (send_message pushes under the mutex
\* and notifies after it).
SleeperIsWoken ==
    pc[Sender] \in {"falling", "asleep"} /\ queue # <<>> =>
        \E t \in Producers : pc[t] = "notify"

\* Without auto-reconnection stop() and disconnect() leave no socket open and
\* no thread that could open one, however many threads saw the connection end.
DoneIsClean ==
    pc[App] = "done" /\ ~auto =>
        /\ \A f \in Fds : link[f] = "closed"
        /\ \A t \in Threads \ {App} : pc[t] \in {"unborn", "exited"}

\* send_message() is a first-in first-out queue that may lose messages.
Fifo == INSTANCE LossyFifo WITH
    Message <- Messages,
    pending <- IF msg[Sender] = NoMessage THEN queue ELSE <<msg[Sender]>> \o queue,
    sent <- wire,
    dropped <- lost

FifoImplemented == Fifo!Spec

\* What is queued leaves the queue, unless the connection is lost or the client
\* is stopped.
QueueDrains == queue # <<>> ~> queue = <<>> \/ state # "connected" \/ ~running

\* Without auto-reconnection stop() returns when the send thread is not between
\* its test of running_ and its sleep.
StopReturnsAwake ==
    pc[App] = "stopNotify" /\ pc[Sender] # "falling" /\ ~auto ~> pc[App] = "done"

\* stop() stops the background threads ("Stop the client (stops background
\* threads)").
StopReturns == pc[App] = "stop" /\ ~auto ~> pc[App] = "done"
=============================================================================
