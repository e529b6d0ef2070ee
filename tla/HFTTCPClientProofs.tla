------------------------- MODULE HFTTCPClientProofs -------------------------
(***************************************************************************)
(* Proofs about HFTTCPClient for every set of messages and descriptors:    *)
(* the types, the send thread's sleep, the refinement of LossyFifo, and    *)
(* what is left when the client is done.                                   *)
(***************************************************************************)
EXTENDS HFTTCPClient, SequenceTheorems, TLAPS

USE DEF NoFd, App, Receiver, Sender, Heart, Users

-----------------------------------------------------------------------------
(* The inductive invariant behind the queue properties                     *)

\* The application has not started the threads.
AppStarting == {"cn", "cnSocket", "cnConnect", "cnWait", "cnClose", "cnClear",
                "cnError", "cnDone", "start"}

\* Until start() there are no background threads.
NotYetBorn == pc[App] \in AppStarting => \A t \in Threads \ {App} : pc[t] = "unborn"

\* A thread has a message in its hands where it is about to push or send it.
InHand ==
    /\ msg[Sender] # NoMessage <=> pc[Sender] \in {"send", "sending"}
    /\ \A t \in Producers : msg[t] # NoMessage <=> pc[t] = "push"
    /\ msg[Receiver] = NoMessage

\* Nothing is pushed between the send thread's test and its sleep.
FallsOnEmpty == pc[Sender] = "falling" => queue = <<>>

QueueInv == TypeOK /\ NotYetBorn /\ InHand /\ FallsOnEmpty /\ SleeperIsWoken

\* What a step of a thread that changes only its own place keeps.
LEMMA GoType ==
    ASSUME TypeOK, NEW t \in Threads, NEW here, NEW there \in Labels, Go(t, here, there)
    PROVE  /\ pc' \in [Threads -> Labels]
           /\ pc[t] = here /\ pc'[t] = there
           /\ \A u \in Threads \ {t} : pc'[u] = pc[u]
BY DEF Go, TypeOK

\* connect() and handle_disconnection() keep the types.
LEMMA ConnectType ==
    ASSUME TypeOK, NEW t \in Users \cup {App}, Connect(t)
    PROVE  TypeOK'
<1> USE DEF Threads, Labels, States, TypeOK, Go, fifo, network, Back, Retry,
            CloseSocket
<1>1. CASE ConnectBegins(t)
    BY <1>1 DEF ConnectBegins
<1>2. CASE CreateSocket(t)
    BY <1>2 DEF CreateSocket
<1>3. CASE CreateSocketFails(t)
    BY <1>3 DEF CreateSocketFails
<1>4. CASE StartConnecting(t)
    BY <1>4 DEF StartConnecting, Current
<1>5. CASE Connected(t)
    BY <1>5 DEF Connected, Current
<1>6. CASE ConnectFails(t)
    BY <1>6, BoundsAssumption DEF ConnectFails
<1>7. CASE CloseFailed(t)
    BY <1>7 DEF CloseFailed
<1>8. CASE ClearFailed(t)
    BY <1>8 DEF ClearFailed
<1>9. CASE StoreError(t)
    BY <1>9 DEF StoreError
<1>10. CASE ConnectReturns(t)
    BY <1>10 DEF ConnectReturns
<1> QED BY <1>1, <1>2, <1>3, <1>4, <1>5, <1>6, <1>7, <1>8, <1>9, <1>10 DEF Connect

LEMMA DisconnectType ==
    ASSUME TypeOK, NEW t \in Users, HandleDisconnection(t)
    PROVE  TypeOK'
<1> USE DEF Threads, Labels, States, TypeOK, Go, fifo, network, Back, CloseSocket
<1>1. CASE TestState(t)
    BY <1>1 DEF TestState
<1>2. CASE StoreDisconnected(t)
    BY <1>2 DEF StoreDisconnected
<1>3. CASE CloseLost(t)
    BY <1>3 DEF CloseLost
<1>4. CASE ClearLost(t)
    BY <1>4 DEF ClearLost
<1>5. CASE TestAuto(t)
    BY <1>5 DEF TestAuto
<1> QED BY <1>1, <1>2, <1>3, <1>4, <1>5 DEF HandleDisconnection

\* Thread t goes from one place to another, neither of which the queue
\* properties speak of.
Moves(t) ==
    /\ pc' = [pc EXCEPT ![t] = pc'[t]]
    /\ pc[t] \notin {"unborn", "send", "sending", "push", "notify"}
    /\ pc'[t] \notin {"send", "sending", "push", "falling", "asleep"}
    /\ t = App /\ pc'[t] \in AppStarting => pc[t] \in AppStarting
    /\ UNCHANGED fifo

LEMMA MoveKeepsQueue ==
    ASSUME QueueInv, TypeOK', NEW t \in Threads, Moves(t)
    PROVE  QueueInv'
<1> USE DEF QueueInv, TypeOK, Moves, fifo, Threads
<1>1. NotYetBorn'
    BY DEF NotYetBorn
<1>2. InHand'
    BY DEF InHand, Producers
<1>3. FallsOnEmpty'
    BY DEF FallsOnEmpty
<1>4. SleeperIsWoken'
    BY DEF SleeperIsWoken, Producers
<1> QED BY <1>1, <1>2, <1>3, <1>4

\* Where connect() and handle_disconnection() return to.
LEMMA BackLabel == \A t \in Users \cup {App} : Back(t) \in {"start", "loop", "pop"}
BY DEF Back

LEMMA StartsAtStart == \A t \in Users \cup {App} : Back(t) = "start" => t = App
BY DEF Back

LEMMA ConnectMoves ==
    ASSUME TypeOK, NEW t \in Users \cup {App}, Connect(t)
    PROVE  Moves(t)
<1> USE DEF Threads, Labels, TypeOK, Go, fifo, network, Retry, Moves, AppStarting
<1>1. CASE ConnectBegins(t)
    BY <1>1, BackLabel DEF ConnectBegins
<1>2. CASE CreateSocket(t)
    BY <1>2 DEF CreateSocket
<1>3. CASE CreateSocketFails(t)
    BY <1>3 DEF CreateSocketFails
<1>4. CASE StartConnecting(t)
    BY <1>4 DEF StartConnecting
<1>5. CASE Connected(t)
    BY <1>5 DEF Connected
<1>6. CASE ConnectFails(t)
    BY <1>6 DEF ConnectFails
<1>7. CASE CloseFailed(t)
    BY <1>7 DEF CloseFailed
<1>8. CASE ClearFailed(t)
    BY <1>8 DEF ClearFailed
<1>9. CASE StoreError(t)
    BY <1>9 DEF StoreError
<1>10. CASE ConnectReturns(t)
    BY <1>10, BackLabel DEF ConnectReturns
<1> QED BY <1>1, <1>2, <1>3, <1>4, <1>5, <1>6, <1>7, <1>8, <1>9, <1>10 DEF Connect

LEMMA DisconnectMoves ==
    ASSUME TypeOK, NEW t \in Users, HandleDisconnection(t)
    PROVE  Moves(t)
<1> USE DEF Threads, Labels, TypeOK, Go, fifo, network, Moves
<1>1. CASE TestState(t)
    BY <1>1, BackLabel DEF TestState
<1>2. CASE StoreDisconnected(t)
    BY <1>2 DEF StoreDisconnected
<1>3. CASE CloseLost(t)
    BY <1>3 DEF CloseLost
<1>4. CASE ClearLost(t)
    BY <1>4 DEF ClearLost
<1>5. CASE TestAuto(t)
    BY <1>5, BackLabel DEF TestAuto
<1> QED BY <1>1, <1>2, <1>3, <1>4, <1>5 DEF HandleDisconnection

\* The steps of connect() and handle_disconnection() keep the queue's invariant.
LEMMA ConnectKeepsQueue ==
    ASSUME QueueInv, NEW t \in Users \cup {App}, Connect(t)
    PROVE  QueueInv'
<1>1. TypeOK /\ t \in Threads
    BY DEF QueueInv, Threads
<1>2. TypeOK' /\ Moves(t)
    BY <1>1, ConnectType, ConnectMoves
<1> QED BY <1>1, <1>2, MoveKeepsQueue

LEMMA DisconnectKeepsQueue ==
    ASSUME QueueInv, NEW t \in Users, HandleDisconnection(t)
    PROVE  QueueInv'
<1>1. TypeOK /\ t \in Threads
    BY DEF QueueInv, Threads
<1>2. TypeOK' /\ Moves(t)
    BY <1>1, DisconnectType, DisconnectMoves
<1> QED BY <1>1, <1>2, MoveKeepsQueue

-----------------------------------------------------------------------------
(* The threads                                                             *)

LEMMA ReceiverKeepsQueue ==
    ASSUME QueueInv, ReceiverStep
    PROVE  QueueInv'
<1> USE DEF ReceiverStep, ReceiverLoop, ReceiverConnected, Receive, ReceiveFails, Go, fifo, network, QueueInv
<1>1. TypeOK'
    BY DEF TypeOK, Threads, Labels
<1>2. Moves(Receiver)
    BY DEF Moves, TypeOK, Threads
<1>3. Receiver \in Threads
    BY DEF Threads
<1> QED BY <1>1, <1>2, <1>3, MoveKeepsQueue

LEMMA SenderKeepsQueue ==
    ASSUME QueueInv, SenderStep \/ WakeSpuriously
    PROVE  QueueInv'
<1> USE DEF QueueInv, Go, fifo, network, Threads, Labels
<1>1. CASE SenderLoop \/ NothingToPop \/ WakeSpuriously
  <2> USE <1>1 DEF SenderLoop, NothingToPop, WakeSpuriously
  <2>1. TypeOK'
    BY DEF TypeOK
  <2>2. Moves(Sender)
    BY DEF Moves, TypeOK
  <2> QED BY <2>1, <2>2, MoveKeepsQueue
<1>2. CASE TestPredicate
  <2>1. TypeOK'
    BY <1>2 DEF TestPredicate, TypeOK
  <2>2. NotYetBorn' /\ InHand'
    BY <1>2 DEF TestPredicate, TypeOK, NotYetBorn, InHand, Producers
  <2>3. FallsOnEmpty' /\ SleeperIsWoken'
    BY <1>2 DEF TestPredicate, TypeOK, FallsOnEmpty, SleeperIsWoken
  <2> QED BY <2>1, <2>2, <2>3
<1>3. CASE FallAsleep
  <2>1. TypeOK'
    BY <1>3 DEF FallAsleep, TypeOK
  <2>2. NotYetBorn' /\ InHand'
    BY <1>3 DEF FallAsleep, TypeOK, NotYetBorn, InHand, Producers
  <2>3. FallsOnEmpty' /\ SleeperIsWoken'
    BY <1>3 DEF FallAsleep, TypeOK, FallsOnEmpty, SleeperIsWoken
  <2> QED BY <2>1, <2>2, <2>3
<1>4. CASE Pop
  <2>1. Head(queue) \in Messages /\ Tail(queue) \in Seq(Messages)
    BY <1>4, HeadTailProperties DEF Pop, TypeOK
  <2>2. TypeOK'
    BY <1>4, <2>1 DEF Pop, TypeOK
  <2>3. NotYetBorn' /\ InHand'
    BY <1>4, <2>1, MessagesAssumption DEF Pop, TypeOK, NotYetBorn, InHand, Producers
  <2>4. FallsOnEmpty' /\ SleeperIsWoken'
    BY <1>4 DEF Pop, TypeOK, FallsOnEmpty, SleeperIsWoken
  <2> QED BY <2>2, <2>3, <2>4
<1>5. CASE TestSendable
  <2>1. TypeOK'
    BY <1>5 DEF TestSendable, TypeOK
  <2>2. NotYetBorn' /\ InHand'
    BY <1>5 DEF TestSendable, TypeOK, NotYetBorn, InHand, Producers
  <2>3. FallsOnEmpty' /\ SleeperIsWoken'
    BY <1>5 DEF TestSendable, TypeOK, FallsOnEmpty, SleeperIsWoken
  <2> QED BY <2>1, <2>2, <2>3
<1>6. CASE Send \/ SendFails
  <2> USE <1>6 DEF Send, SendFails
  <2>1. msg[Sender] \in Messages
    BY DEF InHand, TypeOK
  <2>2. Append(wire, msg[Sender]) \in Seq(Messages)
    BY <2>1, AppendProperties DEF TypeOK
  <2>3. TypeOK'
    <3>1. queue' \in Seq(Messages) /\ wire' \in Seq(Messages) /\ lost' \in SUBSET Messages
        BY <2>1, <2>2 DEF TypeOK
    <3>2. pc' \in [Threads -> Labels] /\ msg' \in [Threads -> Messages \cup {NoMessage}]
        BY DEF TypeOK
    <3> QED BY <3>1, <3>2 DEF TypeOK
  <2>4. NotYetBorn' /\ InHand'
    BY DEF TypeOK, NotYetBorn, InHand, Producers
  <2>5. FallsOnEmpty' /\ SleeperIsWoken'
    BY DEF TypeOK, FallsOnEmpty, SleeperIsWoken
  <2> QED BY <2>3, <2>4, <2>5
<1> QED BY <1>1, <1>2, <1>3, <1>4, <1>5, <1>6 DEF SenderStep

LEMMA ProducerKeepsQueue ==
    ASSUME QueueInv, NEW t \in Producers, Produce(t)
    PROVE  QueueInv'
<1> USE DEF QueueInv, Go, fifo, network, Threads, Labels, Producers, AppStarting, Idle
<1>1. ASSUME NEW m \in Messages, SendMessage(t, m) PROVE QueueInv'
  <2>1. TypeOK'
    BY <1>1 DEF SendMessage, TypeOK
  <2>2. NotYetBorn' /\ InHand'
    BY <1>1, MessagesAssumption DEF SendMessage, TypeOK, NotYetBorn, InHand
  <2>3. FallsOnEmpty' /\ SleeperIsWoken'
    BY <1>1 DEF SendMessage, TypeOK, FallsOnEmpty, SleeperIsWoken
  <2> QED BY <2>1, <2>2, <2>3
<1>2. CASE Push(t)
  <2>1. msg[t] \in Messages
    BY <1>2 DEF Push, InHand, TypeOK
  <2>2. Append(queue, msg[t]) \in Seq(Messages)
    BY <2>1, AppendProperties DEF TypeOK
  <2>3. TypeOK'
    BY <1>2, <2>2 DEF Push, TypeOK
  <2>4. NotYetBorn' /\ InHand'
    BY <1>2 DEF Push, TypeOK, NotYetBorn, InHand
  <2>5. FallsOnEmpty' /\ SleeperIsWoken'
    BY <1>2 DEF Push, TypeOK, FallsOnEmpty, SleeperIsWoken, QueueUnlocked
  <2> QED BY <2>3, <2>4, <2>5
<1>3. CASE NotifyQueued(t)
  <2> USE <1>3 DEF NotifyQueued, Notify
  <2>1. TypeOK'
    BY DEF TypeOK
  <2>2. NotYetBorn' /\ InHand'
    BY DEF TypeOK, NotYetBorn, InHand
  <2>3. FallsOnEmpty' /\ SleeperIsWoken'
    BY DEF TypeOK, FallsOnEmpty, SleeperIsWoken
  <2> QED BY <2>1, <2>2, <2>3
<1> QED BY <1>1, <1>2, <1>3 DEF Produce

LEMMA ShutDownKeepsQueue ==
    ASSUME QueueInv, ShutDown
    PROVE  QueueInv'
<1> USE DEF QueueInv, Go, fifo, network, Threads, Labels
<1>1. CASE NotifyStop
  <2> USE <1>1 DEF NotifyStop, Notify
  <2>1. TypeOK'
    BY DEF TypeOK
  <2>2. NotYetBorn' /\ InHand'
    BY DEF TypeOK, NotYetBorn, InHand, Producers, AppStarting
  <2>3. FallsOnEmpty' /\ SleeperIsWoken'
    BY DEF TypeOK, FallsOnEmpty, SleeperIsWoken, Producers
  <2> QED BY <2>1, <2>2, <2>3
<1>2. CASE TestRunning \/ ClearRunning
  <2> USE DEF TestRunning, ClearRunning
  <2>1. TypeOK'
    <3>1. CASE TestRunning
        BY <3>1 DEF TypeOK
    <3>2. CASE ClearRunning
        BY <3>2 DEF TypeOK
    <3> QED BY <1>2, <3>1, <3>2
  <2>2. Moves(App)
    BY <1>2 DEF Moves, TypeOK, AppStarting
  <2> QED BY <2>1, <2>2, MoveKeepsQueue
<1>3. CASE Join \/ TestDisconnected
  <2> USE <1>3 DEF Join, TestDisconnected
  <2>1. TypeOK'
    BY DEF TypeOK
  <2>2. Moves(App)
    BY DEF Moves, TypeOK, AppStarting
  <2> QED BY <2>1, <2>2, MoveKeepsQueue
<1>4. CASE StoreDisconnect \/ CloseSocketFd \/ ClearSocketFd
  <2> USE <1>4 DEF StoreDisconnect, CloseSocketFd, CloseSocket, ClearSocketFd
  <2>1. TypeOK'
    BY DEF TypeOK, States
  <2>2. Moves(App)
    BY DEF Moves, TypeOK, AppStarting
  <2> QED BY <2>1, <2>2, MoveKeepsQueue
<1> QED BY <1>1, <1>2, <1>3, <1>4 DEF ShutDown

\* start() finds no thread that has a message in its hands.
LEMMA StartKeepsQueue ==
    ASSUME QueueInv, Start
    PROVE  QueueInv'
<1> USE DEF QueueInv, Start, fifo, network, Threads, Labels
<1>1. TypeOK'
    BY DEF TypeOK
<1>2. NotYetBorn' /\ InHand'
    BY DEF TypeOK, NotYetBorn, InHand, Producers, AppStarting
<1>3. FallsOnEmpty' /\ SleeperIsWoken'
    BY DEF TypeOK, FallsOnEmpty, SleeperIsWoken
<1> QED BY <1>1, <1>2, <1>3

\* The heartbeat thread ends, stop() is called, a connection is ended.
LEMMA RestKeepsQueue ==
    ASSUME QueueInv, HeartStops \/ StopCalled \/ \E f \in Fds : EndConnection(f)
    PROVE  QueueInv'
<1> USE DEF QueueInv, Go, fifo, network, Threads, Labels
<1>1. CASE HeartStops
  <2>1. TypeOK' /\ Moves(Heart)
    BY <1>1 DEF HeartStops, TypeOK, Moves
  <2> QED BY <2>1, MoveKeepsQueue
<1>2. CASE StopCalled
  <2>1. TypeOK' /\ Moves(App)
    BY <1>2 DEF StopCalled, TypeOK, Moves, AppStarting
  <2> QED BY <2>1, MoveKeepsQueue
<1>3. ASSUME NEW f \in Fds, EndConnection(f) PROVE QueueInv'
  <2>1. TypeOK'
    BY <1>3, BoundsAssumption DEF EndConnection, TypeOK
  <2> QED BY <1>3, <2>1 DEF EndConnection, NotYetBorn, InHand, FallsOnEmpty, SleeperIsWoken
<1> QED BY <1>1, <1>2, <1>3

\* The queue's invariant is inductive.
LEMMA QueueInvInductive == Spec => []QueueInv
<1>1. Init => QueueInv
  <2> SUFFICES ASSUME Init PROVE QueueInv
    OBVIOUS
  <2> USE DEF Init, Threads
  <2>1. TypeOK
    <3>1. queue \in Seq(Messages) /\ wire \in Seq(Messages) /\ lost \in SUBSET Messages
        OBVIOUS
    <3>2. pc \in [Threads -> Labels] /\ msg \in [Threads -> Messages \cup {NoMessage}]
        BY DEF Labels
    <3>3. ends \in 0..MaxEnds /\ refusals \in 0..MaxRefusals
        BY BoundsAssumption
    <3> QED BY <3>1, <3>2, <3>3 DEF TypeOK, States
  <2>2. NotYetBorn /\ InHand /\ FallsOnEmpty /\ SleeperIsWoken
    BY DEF NotYetBorn, InHand, FallsOnEmpty, SleeperIsWoken, Producers
  <2> QED BY <2>1, <2>2 DEF QueueInv
<1>2. QueueInv /\ [Next]_vars => QueueInv'
  <2> SUFFICES ASSUME QueueInv, [Next]_vars PROVE QueueInv'
    OBVIOUS
  <2>1. ASSUME NEW t \in Users \cup {App}, Connect(t) PROVE QueueInv'
    BY <2>1, ConnectKeepsQueue
  <2>2. ASSUME NEW t \in Users, HandleDisconnection(t) PROVE QueueInv'
    BY <2>2, DisconnectKeepsQueue
  <2>3. ASSUME NEW t \in Producers, Produce(t) PROVE QueueInv'
    BY <2>3, ProducerKeepsQueue
  <2>4. CASE Start
    BY <2>4, StartKeepsQueue
  <2>5. CASE ShutDown
    BY <2>5, ShutDownKeepsQueue
  <2>6. CASE HeartStops \/ StopCalled \/ \E f \in Fds : EndConnection(f)
    BY <2>6, RestKeepsQueue
  <2>7. CASE ReceiverStep
    BY <2>7, ReceiverKeepsQueue
  <2>8. CASE SenderStep \/ WakeSpuriously
    BY <2>8, SenderKeepsQueue
  <2>9. CASE UNCHANGED vars
    BY <2>9 DEF vars, fifo, network, QueueInv, TypeOK, NotYetBorn, InHand, FallsOnEmpty,
                SleeperIsWoken
  <2> QED BY <2>1, <2>2, <2>3, <2>4, <2>5, <2>6, <2>7, <2>8, <2>9 DEF Next, Done
<1> QED BY <1>1, <1>2, PTL DEF Spec

\* Every variable of the client keeps its type: whatever the threads do to
\* socket_fd_, connection_state_ and the queue.
THEOREM ClientTypeCorrect == Spec => []TypeOK
<1>1. QueueInv => TypeOK
    BY DEF QueueInv
<1> QED BY <1>1, QueueInvInductive, PTL

\* The send thread never sleeps over a message that nobody is about to announce:
\* pushing under send_queue_mutex_ and notifying after it is enough.
THEOREM SenderIsWoken == Spec => []SleeperIsWoken
<1>1. QueueInv => SleeperIsWoken
    BY DEF QueueInv
<1> QED BY <1>1, QueueInvInductive, PTL

-----------------------------------------------------------------------------
(* The queue implements LossyFifo                                          *)

\* What is queued, the message on its way to the socket included.
Pending == IF msg[Sender] = NoMessage THEN queue ELSE <<msg[Sender]>> \o queue

\* Putting a message in front of a sequence, and what it commutes with.
LEMMA ConsProperties ==
    ASSUME NEW S, NEW m \in S, NEW s \in Seq(S)
    PROVE  /\ <<m>> \o s \in Seq(S) /\ <<m>> \o s # <<>>
           /\ Head(<<m>> \o s) = m /\ Tail(<<m>> \o s) = s
           /\ \A x \in S : Append(<<m>> \o s, x) = <<m>> \o Append(s, x)
<1>1. <<m>> \in Seq(S) /\ Len(<<m>>) = 1
    OBVIOUS
<1>2. <<m>> \o s \in Seq(S) /\ <<m>> \o s # <<>> /\ Head(<<m>> \o s) = m
    BY <1>1, ConcatProperties
<1>3. Tail(<<m>> \o s) = s
    BY <1>1, <1>2, ConcatProperties, HeadTailProperties, SeqEqual
<1>4. ASSUME NEW x \in S PROVE Append(<<m>> \o s, x) = <<m>> \o Append(s, x)
    BY <1>1, <1>2, ConcatProperties, AppendProperties, SeqEqual
<1> QED BY <1>2, <1>3, <1>4

LEMMA HeadThenTail ==
    ASSUME NEW S, NEW s \in Seq(S), s # <<>>
    PROVE  <<Head(s)>> \o Tail(s) = s
BY HeadTailProperties, ConcatProperties, SeqEqual

\* connect(), handle_disconnection() and everything else that leaves the queue
\* alone is a stutter.
LEMMA QuietStep == UNCHANGED fifo => UNCHANGED <<Pending, wire, lost>>
BY DEF fifo, Pending

\* A message enters at the end, behind the one the send thread holds.
LEMMA ProducerRefines ==
    ASSUME QueueInv, NEW t \in Producers, Produce(t)
    PROVE  (\E m \in Messages : Fifo!Queue(m)) \/ UNCHANGED <<Pending, wire, lost>>
<1> USE DEF QueueInv, Go, fifo, network, Threads, Labels, Producers, Pending
<1>1. ASSUME NEW m \in Messages, SendMessage(t, m) PROVE UNCHANGED <<Pending, wire, lost>>
    BY <1>1 DEF SendMessage, TypeOK
<1>2. CASE Push(t)
  <2>1. msg[t] \in Messages
    BY <1>2 DEF Push, InHand, TypeOK
  <2>2. msg'[Sender] = msg[Sender] /\ queue' = Append(queue, msg[t])
    BY <1>2 DEF Push, TypeOK
  <2>3. Pending' = Append(Pending, msg[t])
    <3>1. CASE msg[Sender] = NoMessage
        BY <3>1, <2>2
    <3>2. CASE msg[Sender] \in Messages
        BY <3>2, <2>1, <2>2, ConsProperties, MessagesAssumption DEF TypeOK
    <3> QED BY <3>1, <3>2 DEF TypeOK
  <2>4. UNCHANGED <<wire, lost>>
    BY <1>2 DEF Push
  <2> QED BY <2>1, <2>3, <2>4 DEF Fifo!Queue, Pending
<1>3. CASE NotifyQueued(t)
    BY <1>3, QuietStep DEF NotifyQueued, Notify
<1> QED BY <1>1, <1>2, <1>3 DEF Produce

\* The send thread takes from the front: Pop changes nothing an observer sees.
LEMMA SenderRefines ==
    ASSUME QueueInv, SenderStep \/ WakeSpuriously
    PROVE  Fifo!Send \/ Fifo!Drop \/ UNCHANGED <<Pending, wire, lost>>
<1> USE DEF QueueInv, Go, fifo, network, Threads, Labels, Pending
<1>1. CASE \/ SenderLoop \/ TestPredicate \/ FallAsleep \/ NothingToPop \/ TestSendable
           \/ WakeSpuriously
    BY <1>1, QuietStep DEF SenderLoop, TestPredicate, FallAsleep, NothingToPop, TestSendable,
                           WakeSpuriously
<1>2. CASE Pop
  <2>1. msg[Sender] = NoMessage
    BY <1>2 DEF Pop, InHand
  <2>2. Head(queue) \in Messages /\ <<Head(queue)>> \o Tail(queue) = queue
    BY <1>2, HeadThenTail, HeadTailProperties DEF Pop, TypeOK
  <2>3. msg'[Sender] = Head(queue) /\ queue' = Tail(queue) /\ UNCHANGED <<wire, lost>>
    BY <1>2 DEF Pop, TypeOK
  <2> QED BY <2>1, <2>2, <2>3, MessagesAssumption
<1>3. CASE Send \/ SendFails
  <2>1. msg[Sender] \in Messages /\ msg'[Sender] = NoMessage /\ queue' = queue
    BY <1>3 DEF Send, SendFails, InHand, TypeOK
  <2>2. Pending # <<>> /\ Head(Pending) = msg[Sender] /\ Pending' = Tail(Pending)
    BY <2>1, ConsProperties, MessagesAssumption DEF TypeOK
  <2>3. CASE Send
    BY <2>2, <2>3 DEF Send, Fifo!Send
  <2>4. CASE SendFails
    BY <2>2, <2>4 DEF SendFails, Fifo!Drop
  <2> QED BY <1>3, <2>3, <2>4
<1> QED BY <1>1, <1>2, <1>3 DEF SenderStep

\* What send_message() accepted leaves the client in order and at most once; a
\* message is lost only when its turn came and the connection was gone.
THEOREM QueueIsLossyFifo == Spec => FifoImplemented
<1>1. Init => Fifo!Init
    BY DEF Init, Fifo!Init, Threads
<1>2. QueueInv /\ [Next]_vars => [Fifo!Next]_(Fifo!fifoVars)
  <2> SUFFICES ASSUME QueueInv, [Next]_vars
               PROVE  Fifo!Next \/ UNCHANGED <<Pending, wire, lost>>
    BY DEF Fifo!fifoVars, Pending
  <2>1. ASSUME NEW t \in Users \cup {App}, Connect(t) PROVE UNCHANGED <<Pending, wire, lost>>
    BY <2>1, QuietStep, ConnectMoves DEF QueueInv, Moves
  <2>2. ASSUME NEW t \in Users, HandleDisconnection(t) PROVE UNCHANGED <<Pending, wire, lost>>
    BY <2>2, QuietStep, DisconnectMoves DEF QueueInv, Moves
  <2>3. ASSUME NEW t \in Producers, Produce(t)
        PROVE  Fifo!Next \/ UNCHANGED <<Pending, wire, lost>>
    BY <2>3, ProducerRefines DEF Fifo!Next
  <2>4. CASE SenderStep \/ WakeSpuriously
    BY <2>4, SenderRefines DEF Fifo!Next
  <2>5. CASE ReceiverStep \/ Start \/ HeartStops \/ StopCalled
    BY <2>5, QuietStep DEF ReceiverStep, ReceiverLoop, ReceiverConnected, Receive, ReceiveFails, Start, HeartStops,
                           StopCalled
  <2>6. CASE ShutDown
    BY <2>6, QuietStep DEF ShutDown, TestRunning, ClearRunning, NotifyStop, Notify, Join,
                           TestDisconnected, StoreDisconnect, CloseSocketFd, ClearSocketFd
  <2>7. CASE (\E f \in Fds : EndConnection(f)) \/ UNCHANGED vars
    BY <2>7, QuietStep DEF EndConnection, vars, fifo
  <2> QED BY <2>1, <2>2, <2>3, <2>4, <2>5, <2>6, <2>7 DEF Next, Done
<1> QED BY <1>1, <1>2, QueueInvInductive, PTL DEF Spec, FifoImplemented, Fifo!Spec

-----------------------------------------------------------------------------
(* stop() and disconnect() leave nothing behind when the client does not   *)
(* reconnect                                                               *)

Others == {Receiver, Sender, Heart}

\* When there are background threads, as far as the application can tell.
ThreadsKnown ==
    /\ pc[App] \in {"work", "push", "notify", "stopStore"} => running
    /\ pc[App] = "stop" /\ ~running => \A t \in Others : pc[t] = "unborn"
    /\ pc[App] \in {"dc", "dcStore", "dcClose", "dcClear", "done"} =>
        \A t \in Others : pc[t] \in {"unborn", "exited"}

AllClosed == \A f \in Fds : link[f] = "closed"

\* Without auto-reconnection one socket is opened.  Whoever finds the state not
\* "disconnected" and changes it goes on to close that socket, and every later
\* closer finds it closed.
OneSocket ==
    /\ \A t \in Users : pc[t] \notin AppStarting
    /\ \A f \in Fds : link[f] # "closed" => fd = f
    /\ (\E t \in Threads : pc[t] \in {"hdClear", "dcClear", "cnClear", "cnError"}) => AllClosed
    /\ pc[App] \in {"cn", "cnSocket", "done"} => AllClosed
    /\ state = "disconnected" =>
        AllClosed \/ \E t \in Threads : pc[t] \in {"hdClose", "dcClose"}
    /\ pc[App] \in AppStarting \ {"cn"} => state # "disconnected"

CleanInv == TypeOK /\ NotYetBorn /\ ThreadsKnown /\ (~auto => OneSocket)

-----------------------------------------------------------------------------
(* connect()                                                               *)

LEMMA ConnectKeepsThreads ==
    ASSUME CleanInv, NEW t \in Users \cup {App}, Connect(t)
    PROVE  ThreadsKnown'
<1> USE DEF CleanInv, TypeOK, ThreadsKnown, NotYetBorn, Threads, Others, Go, Retry, AppStarting
<1>1. CASE ConnectBegins(t)
    BY <1>1, BackLabel DEF ConnectBegins
<1>2. CASE CreateSocket(t)
    BY <1>2 DEF CreateSocket
<1>3. CASE CreateSocketFails(t)
    BY <1>3 DEF CreateSocketFails
<1>4. CASE StartConnecting(t)
    BY <1>4 DEF StartConnecting
<1>5. CASE Connected(t)
    BY <1>5 DEF Connected
<1>6. CASE ConnectFails(t)
    BY <1>6 DEF ConnectFails
<1>7. CASE CloseFailed(t)
    BY <1>7 DEF CloseFailed
<1>8. CASE ClearFailed(t)
    BY <1>8 DEF ClearFailed
<1>9. CASE StoreError(t)
    BY <1>9 DEF StoreError
<1>10. CASE ConnectReturns(t)
    BY <1>10, BackLabel DEF ConnectReturns
<1> QED BY <1>1, <1>2, <1>3, <1>4, <1>5, <1>6, <1>7, <1>8, <1>9, <1>10 DEF Connect

\* Only the application connects when nobody reconnects, and it is alone then.
LEMMA ConnectKeepsSocket ==
    ASSUME CleanInv, ~auto, OneSocket, NEW t \in Users \cup {App}, Connect(t)
    PROVE  OneSocket'
<1>1. pc[t] \in AppStarting
    BY DEF Connect, ConnectBegins, CreateSocket, CreateSocketFails, StartConnecting, Connected,
           ConnectFails, CloseFailed, ClearFailed, StoreError, ConnectReturns, Go, AppStarting
<1>2. t = App /\ \A u \in Others : pc[u] = "unborn"
    BY <1>1 DEF OneSocket, CleanInv, NotYetBorn, Others, Threads
<1>3. Back(t) = "start"
    BY <1>2 DEF Back
<1> USE <1>2 DEF CleanInv, TypeOK, OneSocket, AllClosed, Threads, Others, Go, Retry, AppStarting
<1>4. CASE ConnectBegins(t)
    BY <1>3, <1>4 DEF ConnectBegins, network
<1>5. CASE CreateSocket(t)
    BY <1>5 DEF CreateSocket
<1>6. CASE CreateSocketFails(t)
    BY <1>6 DEF CreateSocketFails, network
<1>7. CASE StartConnecting(t)
    BY <1>7 DEF StartConnecting, Current
<1>8. CASE Connected(t)
    BY <1>8 DEF Connected, Current
<1>9. CASE ConnectFails(t)
    BY <1>9 DEF ConnectFails
<1>10. CASE CloseFailed(t)
    BY <1>10 DEF CloseFailed, CloseSocket
<1>11. CASE ClearFailed(t)
    BY <1>11 DEF ClearFailed, network
<1>12. CASE StoreError(t)
    BY <1>12 DEF StoreError, network
<1>13. CASE ConnectReturns(t)
    BY <1>3, <1>13 DEF ConnectReturns, network
<1> QED BY <1>4, <1>5, <1>6, <1>7, <1>8, <1>9, <1>10, <1>11, <1>12, <1>13 DEF Connect

-----------------------------------------------------------------------------
(* handle_disconnection()                                                  *)

LEMMA DisconnectKeepsClean ==
    ASSUME CleanInv, NEW t \in Users, HandleDisconnection(t)
    PROVE  ThreadsKnown' /\ (~auto => OneSocket')
<1>1. Back(t) \in {"loop", "pop"}
    BY DEF Back
<1>2. pc[t] \notin {"unborn", "exited"} /\ pc[App] \notin AppStarting
    BY DEF HandleDisconnection, TestState, StoreDisconnected, CloseLost, ClearLost, TestAuto, Go,
           CleanInv, NotYetBorn, Threads
<1>3. ThreadsKnown'
    BY <1>2 DEF HandleDisconnection, TestState, StoreDisconnected, CloseLost, ClearLost, TestAuto,
                Go, CleanInv, TypeOK, ThreadsKnown, Threads, Others, AppStarting
<1>4. ASSUME ~auto PROVE OneSocket'
  <2> USE <1>1, <1>2, <1>4 DEF CleanInv, TypeOK, OneSocket, AllClosed, Threads, Go, AppStarting
  <2>1. CASE TestState(t)
    BY <2>1 DEF TestState, network
  <2>2. CASE StoreDisconnected(t)
    BY <2>2 DEF StoreDisconnected, network
  <2>3. CASE CloseLost(t)
    BY <2>3 DEF CloseLost, CloseSocket
  <2>4. CASE ClearLost(t)
    BY <2>4 DEF ClearLost, network
  <2>5. CASE TestAuto(t)
    BY <2>5 DEF TestAuto, network
  <2> QED BY <2>1, <2>2, <2>3, <2>4, <2>5 DEF HandleDisconnection
<1> QED BY <1>3, <1>4

-----------------------------------------------------------------------------
(* Everything else                                                         *)

\* A running thread's other steps do not touch the connection.
LEMMA ThreadsKeepClean ==
    ASSUME CleanInv,
           \/ ReceiverStep \/ SenderStep \/ WakeSpuriously \/ HeartStops
           \/ \E t \in Producers : Produce(t)
    PROVE  ThreadsKnown' /\ (~auto => OneSocket')
<1> USE DEF CleanInv, TypeOK, ThreadsKnown, OneSocket, AllClosed, Threads, Others, Go, AppStarting,
            network
<1>1. CASE ReceiverStep
    BY <1>1 DEF ReceiverStep, ReceiverLoop, ReceiverConnected, Receive, ReceiveFails
<1>2. CASE SenderLoop \/ TestPredicate \/ FallAsleep \/ WakeSpuriously
    BY <1>2 DEF SenderLoop, TestPredicate, FallAsleep, WakeSpuriously
<1>3. CASE Pop \/ NothingToPop \/ TestSendable \/ Send \/ SendFails
    BY <1>3 DEF Pop, NothingToPop, TestSendable, Send, SendFails
<1>4. CASE HeartStops
    BY <1>4 DEF HeartStops
<1>5. ASSUME NEW t \in Producers, Produce(t) PROVE ThreadsKnown' /\ (~auto => OneSocket')
  <2> USE <1>5 DEF Producers, Idle
  <2>1. ASSUME NEW m \in Messages, SendMessage(t, m)
        PROVE  ThreadsKnown' /\ (~auto => OneSocket')
    BY <2>1 DEF SendMessage
  <2>2. CASE Push(t)
    BY <2>2 DEF Push
  <2>3. CASE NotifyQueued(t)
    BY <2>3 DEF NotifyQueued, Notify
  <2> QED BY <2>1, <2>2, <2>3 DEF Produce
<1> QED BY <1>1, <1>2, <1>3, <1>4, <1>5 DEF SenderStep

LEMMA ApplicationKeepsClean ==
    ASSUME CleanInv, Start \/ StopCalled \/ ShutDown
    PROVE  ThreadsKnown' /\ (~auto => OneSocket')
<1> USE DEF CleanInv, TypeOK, ThreadsKnown, OneSocket, AllClosed, Threads, Others, Go, AppStarting,
            network
<1>1. CASE Start
    BY <1>1 DEF Start
<1>2. CASE StopCalled
    BY <1>2 DEF StopCalled
<1>3. CASE TestRunning
    BY <1>3 DEF TestRunning
<1>4. CASE ClearRunning
    BY <1>4 DEF ClearRunning
<1>5. CASE NotifyStop
    BY <1>5, SMTT(20) DEF NotifyStop, Notify
<1>6. CASE Join
    BY <1>6 DEF Join
<1>7. CASE TestDisconnected
    BY <1>7 DEF TestDisconnected
<1>8. CASE StoreDisconnect
    BY <1>8 DEF StoreDisconnect
<1>9. CASE CloseSocketFd
    BY <1>9 DEF CloseSocketFd, CloseSocket
<1>10. CASE ClearSocketFd
    BY <1>10 DEF ClearSocketFd
<1> QED BY <1>1, <1>2, <1>3, <1>4, <1>5, <1>6, <1>7, <1>8, <1>9, <1>10 DEF ShutDown

\* When the client is done and does not reconnect, every socket is closed and no
\* background thread is left, whoever noticed the end of the connection.
THEOREM ClientLeavesNothing == Spec => []DoneIsClean
<1> DEFINE Clean == ThreadsKnown /\ (~auto => OneSocket)
<1>1. Init => Clean
    BY DEF Init, Threads, ThreadsKnown, OneSocket, AllClosed, AppStarting
<1>2. QueueInv /\ Clean /\ [Next]_vars => Clean'
  <2> SUFFICES ASSUME QueueInv, Clean, [Next]_vars PROVE Clean'
    OBVIOUS
  <2>1. CleanInv
    BY DEF CleanInv, QueueInv
  <2>2. UNCHANGED auto
    BY DEF Next, vars, Done, ShutDown, Connect, HandleDisconnection, Produce, ReceiverStep,
           SenderStep, Start, StopCalled, TestRunning, ClearRunning, NotifyStop, NotifyQueued,
           Notify, Join, TestDisconnected, StoreDisconnect, CloseSocketFd, ClearSocketFd,
           ConnectBegins, CreateSocket, CreateSocketFails, StartConnecting, Connected,
           ConnectFails, CloseFailed, ClearFailed, StoreError, ConnectReturns, TestState,
           StoreDisconnected, CloseLost, ClearLost, TestAuto, SendMessage, Push, HeartStops,
           ReceiverLoop, ReceiverConnected, Receive, ReceiveFails, SenderLoop, TestPredicate, FallAsleep,
           WakeSpuriously, Pop, NothingToPop, TestSendable, Send, SendFails, EndConnection
  <2>3. ASSUME NEW t \in Users \cup {App}, Connect(t) PROVE Clean'
    BY <2>1, <2>2, <2>3, ConnectKeepsThreads, ConnectKeepsSocket DEF CleanInv
  <2>4. ASSUME NEW t \in Users, HandleDisconnection(t) PROVE Clean'
    BY <2>1, <2>2, <2>4, DisconnectKeepsClean
  <2>5. CASE \/ ReceiverStep \/ SenderStep \/ WakeSpuriously \/ HeartStops
             \/ \E t \in Producers : Produce(t)
    BY <2>1, <2>2, <2>5, ThreadsKeepClean
  <2>6. CASE Start \/ StopCalled \/ ShutDown
    BY <2>1, <2>2, <2>6, ApplicationKeepsClean
  <2>7. ASSUME NEW f \in Fds, EndConnection(f) PROVE Clean'
    BY <2>1, <2>7 DEF CleanInv, TypeOK, EndConnection, ThreadsKnown, OneSocket, AllClosed
  <2>8. CASE UNCHANGED vars
    BY <2>8 DEF vars, network, ThreadsKnown, OneSocket, AllClosed
  <2> QED BY <2>3, <2>4, <2>5, <2>6, <2>7, <2>8 DEF Next, Done
<1>3. QueueInv /\ Clean => DoneIsClean
    BY DEF DoneIsClean, ThreadsKnown, OneSocket, AllClosed, Threads, Others
<1> QED BY <1>1, <1>2, <1>3, QueueInvInductive, PTL DEF Spec
=============================================================================
