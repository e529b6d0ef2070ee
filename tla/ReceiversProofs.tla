-------------------------- MODULE ReceiversProofs ---------------------------
(***************************************************************************)
(* Theorems about Receivers, for any number of peers, workers and messages *)
(* and any size of the buffers.                                            *)
(***************************************************************************)
EXTENDS SharedBufferProofs, RoundTripExactProofs

-----------------------------------------------------------------------------
(* LatencyTestClient's receiver and the descriptor it reads                *)

Alive == pc["receiver"] \in {"loop", "recv", "match"}

\* connect() has its descriptor and the receiver may not run yet.
Starting == pc["main"] \in {"enable", "clear", "spawn"}

\* The descriptor is open until the handler closes it, which it does once.
Kept ==
    \/ fd = "open" /\ pc["handler"] \in {"none", "flags", "join", "close"}
    \/ fd = "closed" /\ pc["handler"] = "forget"
    \/ fd = "none" /\ pc["handler"] = "none" /\ signalled

\* A disconnect() that has passed its join closes what nobody reads any more,
\* but for a handler that finds the thread created and not yet assigned.
Guarded ==
    program = "latency" =>
        /\ pc \in [Threads -> Places]
        /\ pc["handler"] # "none" => signalled
        /\ pc["main"] = "connect" => ~Alive
        /\ pc["main"] \in {"close", "forget"} => ~Alive
        /\ pc["handler"] \in {"close", "forget"} => ~Alive \/ pc["main"] = "assign"
        /\ Starting \/ Alive => Kept

LEMMA GuardedInit == Init => Guarded
  <1> SUFFICES ASSUME Init, program = "latency" PROVE Guarded
    BY DEF Guarded
  <1>1. pc \in [Threads -> Places]
    BY DEF Init, Start, Places, TripPrograms, Threads
  <1>2. pc["main"] = "connect" /\ pc["handler"] = "none" /\ pc["receiver"] = "unborn"
    BY DEF Init, Start, TripPrograms, Threads
  <1> QED BY <1>1, <1>2 DEF Guarded, Alive, Starting

\* connect() up to the start of the receiver.
LEMMA ConnectGuarded ==
    ASSUME Guarded, program = "latency", program' = program,
           \/ LatencyConnect \/ LatencyConnectFails \/ SetConnected \/ ClearStop
           \/ StartReceiver \/ AssignReceiver
    PROVE  Guarded'
  <1>1. {"main", "handler", "receiver"} \subseteq Threads
    BY DEF Threads
  <1>2. CASE LatencyConnect
    BY <1>1, <1>2 DEF Guarded, Alive, Starting, Kept, LatencyConnect, MainStep, Step, Places, latencyVars
  <1>3. CASE LatencyConnectFails
    BY <1>1, <1>3 DEF Guarded, Alive, Starting, Kept, LatencyConnectFails, MainStep, Step, Places, latencyVars
  <1>4. CASE SetConnected
    BY <1>1, <1>4 DEF Guarded, Alive, Starting, Kept, SetConnected, MainStep, Step, Places, latencyVars
  <1>5. CASE ClearStop
    BY <1>1, <1>5 DEF Guarded, Alive, Starting, Kept, ClearStop, MainStep, Step, Places, tripVars, socketVars
  <1>6. CASE StartReceiver
    BY <1>1, <1>6 DEF Guarded, Alive, Starting, Kept, StartReceiver, Places, latencyVars, tripVars, socketVars
  <1>7. CASE AssignReceiver
    BY <1>1, <1>7 DEF Guarded, Alive, Starting, Kept, AssignReceiver, MainStep, Step, Places,
       latencyVars, tripVars, socketVars
  <1> QED BY <1>2, <1>3, <1>4, <1>5, <1>6, <1>7

\* The tests of main() leave the descriptor and the receiver alone.
LEMMA TestsGuarded ==
    ASSUME Guarded, program = "latency", program' = program,
           \/ LatencyNoTest \/ LatencyReset \/ ClearTimes \/ CreateMessageAborts \/ LatencySend
           \/ LatencyLock \/ StoreSendTime \/ LatencyLoopEnds \/ Percentiles
    PROVE  Guarded'
  <1>1. {"main", "handler", "receiver"} \subseteq Threads
    BY DEF Threads
  <1>2. UNCHANGED <<fd, signalled>>
    BY DEF LatencyNoTest, LatencyReset, ClearTimes, CreateMessageAborts, LatencySend, LatencyLock,
       StoreSendTime, LatencyLoopEnds, Percentiles, tripVars, socketVars, latencyVars
  <1>3. PICK here \in {"reset", "wipe", "wiped", "send", "lock", "store", "results", "percentiles"},
             there \in {"flags", "wipe", "wiped", "send", "aborted", "lock", "store", "percentiles", "results"} :
            MainStep(here, there)
    BY DEF LatencyNoTest, LatencyReset, ClearTimes, CreateMessageAborts, LatencySend, LatencyLock,
       StoreSendTime, LatencyLoopEnds, Percentiles
  <1>4. pc["handler"] = "none" /\ pc["main"] # "assign" /\ pc' = [pc EXCEPT !["main"] = there]
    BY <1>3 DEF MainStep, Step
  <1>5. pc' \in [Threads -> Places]
    BY <1>4 DEF Guarded, Places
  <1>6. pc'["main"] = there /\ UNCHANGED <<Alive, pc["handler"]>>
    BY <1>1, <1>4 DEF Guarded, Alive
  <1> QED BY <1>2, <1>4, <1>5, <1>6 DEF Guarded, Alive, Starting, Kept

\* disconnect(), by main() or by the handler.
LEMMA DisconnectGuarded ==
    ASSUME Guarded, program = "latency", program' = program,
           NEW t \in {"main", "handler"}, Disconnect(t)
    PROVE  Guarded'
  <1>1. {"main", "handler", "receiver"} \subseteq Threads
    BY DEF Threads
  <1>2. CASE ClearFlags(t)
    BY <1>1, <1>2 DEF Guarded, Alive, Starting, Kept, ClearFlags, DisconnectStep, MainStep, Step, Places
  <1>3. CASE JoinReceiver(t)
    BY <1>1, <1>3 DEF Guarded, Alive, Starting, Kept, Joinable, JoinReceiver, DisconnectStep, MainStep, Step, Places,
       latencyVars, tripVars, socketVars
  <1>4. CASE CloseSocket(t)
    BY <1>1, <1>4 DEF Guarded, Alive, Starting, Kept, CloseSocket, DisconnectStep, MainStep, Step, Places,
       latencyVars
  <1>5. CASE ForgetSocket(t)
    BY <1>1, <1>5 DEF Guarded, Alive, Starting, Kept, ForgetSocket, DisconnectStep, MainStep, Step, Places,
       latencyVars
  <1> QED BY <1>2, <1>3, <1>4, <1>5 DEF Disconnect

LEMMA JoinTwiceGuarded ==
    ASSUME Guarded, program = "latency", program' = program, JoinTwice
    PROVE  Guarded'
  <1>1. {"main", "handler", "receiver"} \subseteq Threads
    BY DEF Threads
  <1> QED BY <1>1 DEF Guarded, Alive, Starting, Kept, Joinable, JoinTwice, Places, latencyVars, tripVars, socketVars

LEMMA InterruptGuarded ==
    ASSUME Guarded, program = "latency", program' = program, Interrupt
    PROVE  Guarded'
  <1>1. {"main", "handler", "receiver"} \subseteq Threads
    BY DEF Threads
  <1> QED BY <1>1 DEF Guarded, Alive, Starting, Kept, Interrupt, Step, Places, tripVars, socketVars

\* The receiver touches neither the descriptor nor main().
LEMMA ReceiverGuarded ==
    ASSUME Guarded, program = "latency", program' = program, LatencyReceiverStep
    PROVE  Guarded'
  <1>1. {"main", "handler", "receiver"} \subseteq Threads
    BY DEF Threads
  <1>2. UNCHANGED <<fd, signalled>>
    BY DEF LatencyReceiverStep, TestStop, LatencyRecv, LatencyRecvNothing, LatencyRecvEnds, Match,
       MatchNoMore, tripVars, socketVars, latencyVars
  <1>3. PICK here \in {"loop", "recv", "match"}, there \in {"loop", "recv", "match", "over"} :
            Step("receiver", here, there)
    BY DEF LatencyReceiverStep, TestStop, LatencyRecv, LatencyRecvNothing, LatencyRecvEnds, Match,
       MatchNoMore
  <1> QED BY <1>1, <1>2, <1>3 DEF Guarded, Alive, Starting, Kept, Step, Places

LEMMA GuardedStep == Guarded /\ [Next]_vars => Guarded'
  <1> SUFFICES ASSUME Guarded, [Next]_vars PROVE Guarded'
    OBVIOUS
  <1>1. CASE UNCHANGED vars
    BY <1>1 DEF vars, Guarded, Alive, Starting, Kept, tripVars, socketVars, latencyVars
  <1>2. CASE Next
    <2>1. program' = program
      BY <1>2 DEF Next, PeerStep, AnswerStep, Sigint, ThreadStep, Shared, Trip
    <2>2. CASE program # "latency"
      BY <2>1, <2>2 DEF Guarded
    <2>3. CASE program = "latency"
      <3>1. CASE PeerStep
        BY <2>3, <3>1 DEF PeerStep, Shared, PeerWrites, SecondHalf, PeerLeaves, SharedProgram
      <3>2. CASE AnswerStep
        BY <2>1, <3>2 DEF AnswerStep, Trip, ServerAnswers, RestOfAnswer, ServerEnds, Guarded, Alive,
           Starting, Kept, tripVars, socketVars, latencyVars
      <3>3. CASE Sigint
        BY <2>1, <2>3, <3>3, InterruptGuarded DEF Sigint, Trip
      <3>4. ASSUME NEW t \in Threads, ThreadStep(t) PROVE Guarded'
        <4>1. LatencyMainStep \/ LatencyReceiverStep
          BY <2>3, <3>4 DEF ThreadStep, Trip
        <4> QED BY <2>1, <2>3, <4>1, ConnectGuarded, TestsGuarded, DisconnectGuarded,
                   JoinTwiceGuarded, ReceiverGuarded DEF LatencyMainStep
      <3> QED BY <1>2, <3>1, <3>2, <3>3, <3>4 DEF Next
    <2> QED BY <2>2, <2>3
  <1> QED BY <1>1, <1>2

\* Wherever SIGINT strikes, disconnect() closes the socket under a receiver
\* that is about to read it in one window only, between the creation of the
\* thread and its assignment to receiver_thread_.
THEOREM NeverReadsClosed == Spec => []ReceiverBeforeClose
  <1>1. Guarded => ReceiverBeforeClose
    BY DEF Guarded, Alive, Kept, ReceiverBeforeClose
  <1> QED BY <1>1, GuardedInit, GuardedStep, PTL DEF Spec

-----------------------------------------------------------------------------
(* The simple client's error counter                                       *)

ErrorPlaces == {"read", "write"}

\* The failed sends main() has counted.
CountedSends == failed - (IF pc["main"] \in ErrorPlaces THEN 1 ELSE 0)

\* The increment of the receiver, of which there is one at most.
CountedRecv == IF pc["receiver"] = "over" THEN 1 ELSE 0

\* No thread has read, and none writes, more than there is to count.
Bounded ==
    program = "simple" =>
        /\ pc \in [Threads -> Places]
        /\ failed \in Nat /\ errors \in Nat
        /\ seen \in [{"main", "receiver"} -> Nat]
        /\ pc["main"] \in ErrorPlaces => failed > 0
        /\ CountedSends > 0 => errors > 0
        /\ errors <= CountedSends + CountedRecv
        /\ pc["main"] = "write" => seen["main"] <= CountedSends + CountedRecv
        /\ pc["receiver"] = "write" => seen["receiver"] <= CountedSends
        /\ pc["main"] = "connect" => pc["receiver"] = "unborn"

LEMMA BoundedInit == Init => Bounded
  <1> SUFFICES ASSUME Init, program = "simple" PROVE Bounded
    BY DEF Bounded
  <1>1. pc \in [Threads -> Places]
    BY DEF Init, Start, Places, TripPrograms, Threads
  <1>2. pc["main"] = "connect" /\ pc["receiver"] = "unborn"
    BY DEF Init, Start, TripPrograms, Threads
  <1>3. failed = 0 /\ errors = 0 /\ seen \in [{"main", "receiver"} -> Nat]
    BY DEF Init
  <1> QED BY <1>1, <1>2, <1>3 DEF Bounded, CountedSends, CountedRecv, ErrorPlaces

\* connect(), disconnect() and the sends, which do not touch the counter.
LEMMA MainBounded ==
    ASSUME Bounded, program = "simple", program' = program,
           SimpleConnect \/ SimpleSend \/ SimpleDisconnect \/ SimpleClose \/ SimpleJoin
    PROVE  Bounded'
  <1>1. {"main", "receiver"} \subseteq Threads
    BY DEF Threads
  <1>2. UNCHANGED <<errors, seen>>
    BY DEF SimpleConnect, SimpleSend, SimpleDisconnect, SimpleClose, SimpleJoin, tripVars
  <1>3. CASE SimpleConnect
    BY <1>1, <1>2, <1>3 DEF Bounded, CountedSends, CountedRecv, ErrorPlaces, SimpleConnect, Places, sendVars
  <1>4. CASE SimpleSend
    <2>1. PICK k \in Outcomes :
            /\ failed' = failed + (IF k = 2 THEN 0 ELSE 1)
            /\ pc' = [pc EXCEPT !["main"] = IF k = 2 THEN "send" ELSE "read"]
      BY <1>4 DEF SimpleSend, SysSend
    <2>2. pc["main"] = "send"
      BY <1>4 DEF SimpleSend
    <2>3. CASE k = 2
      BY <1>1, <1>2, <2>1, <2>2, <2>3 DEF Bounded, CountedSends, CountedRecv, ErrorPlaces, Places
    <2>4. CASE k # 2
      BY <1>1, <1>2, <2>1, <2>2, <2>4 DEF Bounded, CountedSends, CountedRecv, ErrorPlaces, Places
    <2> QED BY <2>3, <2>4
  <1>5. CASE SimpleDisconnect \/ SimpleClose \/ SimpleJoin
    <2>1. PICK here \in {"send", "close", "join"}, there \in {"close", "join", "over"} :
            Step("main", here, there) /\ failed' = failed
      BY <1>5 DEF SimpleDisconnect, SimpleClose, SimpleJoin, sendVars, tripVars
    <2> QED BY <1>1, <1>2, <2>1 DEF Bounded, CountedSends, CountedRecv, ErrorPlaces, Step, Places
  <1> QED BY <1>3, <1>4, <1>5

\* The receiver, up to its one error.
LEMMA RecvBounded ==
    ASSUME Bounded, program = "simple", program' = program,
           TestState \/ SimpleRecv \/ SimpleRecvNothing \/ SimpleRecvEof \/ SimpleRecvFails
    PROVE  Bounded'
  <1>1. {"main", "receiver"} \subseteq Threads
    BY DEF Threads
  <1>2. UNCHANGED <<errors, seen, failed>>
    BY DEF TestState, SimpleRecv, SimpleRecvNothing, SimpleRecvEof, SimpleRecvFails, sendVars, tripVars
  <1>3. PICK here \in {"loop", "recv"}, there \in {"loop", "recv", "read", "over"} :
            Step("receiver", here, there)
    BY DEF TestState, SimpleRecv, SimpleRecvNothing, SimpleRecvEof, SimpleRecvFails
  <1> QED BY <1>1, <1>2, <1>3 DEF Bounded, CountedSends, CountedRecv, ErrorPlaces, Step, Places

LEMMA CounterBounded ==
    ASSUME Bounded, program = "simple", program' = program,
           NEW t \in {"main", "receiver"}, ReadErrors(t) \/ WriteErrors(t)
    PROVE  Bounded'
  <1>1. {"main", "receiver"} \subseteq Threads
    BY DEF Threads
  <1>2. failed' = failed
    BY DEF ReadErrors, WriteErrors, sendVars, tripVars
  <1>3. CASE ReadErrors(t)
    <2>1. Step(t, "read", "write") /\ seen' = [seen EXCEPT ![t] = errors] /\ errors' = errors
      BY <1>3 DEF ReadErrors, tripVars
    <2>2. CASE t = "main"
      BY <1>1, <1>2, <2>1, <2>2 DEF Bounded, CountedSends, CountedRecv, ErrorPlaces, Step, Places
    <2>3. CASE t = "receiver"
      BY <1>1, <1>2, <2>1, <2>3 DEF Bounded, CountedSends, CountedRecv, ErrorPlaces, Step, Places
    <2> QED BY <2>2, <2>3
  <1>4. CASE WriteErrors(t)
    <2>1. /\ Step(t, "write", IF t = "main" THEN "send" ELSE "over")
          /\ seen' = seen /\ errors' = seen[t] + 1
      BY <1>4 DEF WriteErrors
    <2>2. CASE t = "main"
      BY <1>1, <1>2, <2>1, <2>2 DEF Bounded, CountedSends, CountedRecv, ErrorPlaces, Step, Places
    <2>3. CASE t = "receiver"
      BY <1>1, <1>2, <2>1, <2>3 DEF Bounded, CountedSends, CountedRecv, ErrorPlaces, Step, Places
    <2> QED BY <2>2, <2>3
  <1> QED BY <1>3, <1>4

LEMMA BoundedStep == Bounded /\ [Next]_vars => Bounded'
  <1> SUFFICES ASSUME Bounded, [Next]_vars PROVE Bounded'
    OBVIOUS
  <1>1. CASE UNCHANGED vars
    BY <1>1 DEF vars, Bounded, CountedSends, CountedRecv, ErrorPlaces, tripVars, sendVars
  <1>2. CASE Next
    <2>1. program' = program
      BY <1>2 DEF Next, PeerStep, AnswerStep, Sigint, ThreadStep, Shared, Trip
    <2>2. CASE program # "simple"
      BY <2>1, <2>2 DEF Bounded
    <2>3. CASE program = "simple"
      <3>1. CASE PeerStep
        BY <2>3, <3>1 DEF PeerStep, Shared, PeerWrites, SecondHalf, PeerLeaves, SharedProgram
      <3>2. CASE AnswerStep
        BY <2>1, <3>2 DEF AnswerStep, Trip, ServerAnswers, RestOfAnswer, ServerEnds, Bounded,
           CountedSends, CountedRecv, ErrorPlaces, tripVars, sendVars
      <3>3. CASE Sigint
        BY <2>3, <3>3 DEF Sigint
      <3>4. ASSUME NEW t \in Threads, ThreadStep(t) PROVE Bounded'
        <4>1. SimpleMainStep \/ SimpleReceiverStep
          BY <2>3, <3>4 DEF ThreadStep, Trip
        <4> QED BY <2>1, <2>3, <4>1, MainBounded, RecvBounded, CounterBounded
            DEF SimpleMainStep, SimpleReceiverStep
      <3> QED BY <1>2, <3>1, <3>2, <3>3, <3>4 DEF Next
    <2> QED BY <2>2, <2>3
  <1> QED BY <1>1, <1>2

\* A lost update never hides every error, and no update counts one twice.
THEOREM ErrorsAreReported == Spec => []ErrorsShow
  <1>1. Bounded => ErrorsShow
    BY DEF Bounded, CountedSends, CountedRecv, ErrorPlaces, ErrorsShow
  <1> QED BY <1>1, BoundedInit, BoundedStep, PTL DEF Spec

-----------------------------------------------------------------------------
(* What every variable can be                                              *)

\* The variables the other invariants say nothing about.
FlagsTyped ==
    /\ split \in BOOLEAN /\ edge \in BOOLEAN /\ overlap \in BOOLEAN
    /\ connected \in BOOLEAN /\ stop \in BOOLEAN /\ lock \in BOOLEAN
    /\ signalled \in BOOLEAN /\ ignored \in BOOLEAN /\ early \in BOOLEAN

Descriptors == {"none", "open", "closed"}

RestTyped ==
    /\ FlagsTyped
    /\ fd \in Descriptors /\ errors \in Nat /\ seen \in [{"main", "receiver"} -> Nat]

\* Every system call leaves split a truth value.
LEMMA SplitTyped ==
    ASSUME split \in BOOLEAN,
           split' = split \/ \E p \in Peers, max \in Nat : SysRecv(p, max)
    PROVE  split' \in BOOLEAN
  <1>1. CASE split' = split
    BY <1>1
  <1>2. ASSUME NEW p \in Peers, NEW max \in Nat, SysRecv(p, max) PROVE split' \in BOOLEAN
    <2>1. split' = (split \/ in[p][Available(p, max)][3] = 1)
      BY <1>2 DEF SysRecv
    <2> QED BY <2>1
  <1> QED BY <1>1, <1>2

LEMMA RecvEndsSplit ==
    ASSUME RecvEnds \/ UNCHANGED netVars
    PROVE  split' = split
  BY DEF RecvEnds, SysRecvError, netVars

\* latency_test
LEMMA LatencyRest ==
    ASSUME RestTyped, UNCHANGED <<edge, overlap, seen>>,
           LatencyMainStep \/ LatencyReceiverStep \/ Interrupt
    PROVE  RestTyped'
  <1>1. split' = split \/ SysRecv(Remote, ReplyHalves)
    <2>1. RecvEnds \/ UNCHANGED netVars \/ SysRecv(Remote, ReplyHalves)
      BY DEF LatencyMainStep, LatencyReceiverStep, Interrupt, LatencyConnect, LatencyConnectFails,
         SetConnected, ClearStop, StartReceiver, AssignReceiver, LatencyNoTest, LatencyReset, ClearTimes, CreateMessageAborts,
         LatencySend, LatencyLock, StoreSendTime, LatencyLoopEnds, Percentiles, Disconnect, ClearFlags,
         JoinReceiver, CloseSocket, ForgetSocket, JoinTwice, TestStop, LatencyRecv, LatencyRecvNothing,
         LatencyRecvEnds, Match, MatchNoMore
    <2> QED BY <2>1, RecvEndsSplit
  <1>2. split' \in BOOLEAN
    BY <1>1, SplitTyped, RemoteAssumption, ReplyAssumption DEF RestTyped, FlagsTyped
  <1>3. /\ connected' = connected \/ connected' \in BOOLEAN
        /\ stop' = stop \/ stop' \in BOOLEAN
        /\ lock' = lock \/ lock' \in BOOLEAN
        /\ signalled' = signalled \/ signalled' \in BOOLEAN
        /\ ignored' = ignored
        /\ fd' = fd \/ fd' \in Descriptors
    BY DEF LatencyMainStep, LatencyReceiverStep, Interrupt, LatencyConnect, LatencyConnectFails,
       SetConnected, ClearStop, StartReceiver, AssignReceiver, LatencyNoTest, LatencyReset, ClearTimes, CreateMessageAborts,
       LatencySend, LatencyLock, StoreSendTime, LatencyLoopEnds, Percentiles, Disconnect, ClearFlags,
       JoinReceiver, CloseSocket, ForgetSocket, JoinTwice, TestStop, LatencyRecv, LatencyRecvNothing,
       LatencyRecvEnds, Match, MatchNoMore, tripVars, socketVars, latencyVars, Descriptors
  <1>4. early' = early \/ early' = (early \/ times = <<>>)
    BY DEF LatencyMainStep, LatencyReceiverStep, Interrupt, LatencyConnect, LatencyConnectFails,
       SetConnected, ClearStop, StartReceiver, AssignReceiver, LatencyNoTest, LatencyReset, ClearTimes, CreateMessageAborts,
       LatencySend, LatencyLock, StoreSendTime, LatencyLoopEnds, Percentiles, Disconnect, ClearFlags,
       JoinReceiver, CloseSocket, ForgetSocket, JoinTwice, TestStop, LatencyRecv, LatencyRecvNothing,
       LatencyRecvEnds, Match, MatchNoMore, tripVars, matchVars
  <1>5. errors' \in {errors, errors + 0, errors + 1, 0}
    BY DEF LatencyMainStep, LatencyReceiverStep, Interrupt, LatencyConnect, LatencyConnectFails,
       SetConnected, ClearStop, StartReceiver, AssignReceiver, LatencyNoTest, LatencyReset, ClearTimes, CreateMessageAborts,
       LatencySend, LatencyLock, StoreSendTime, LatencyLoopEnds, Percentiles, Disconnect, ClearFlags,
       JoinReceiver, CloseSocket, ForgetSocket, JoinTwice, TestStop, LatencyRecv, LatencyRecvNothing,
       LatencyRecvEnds, Match, MatchNoMore, tripVars
  <1>6. errors' \in Nat
    BY <1>5 DEF RestTyped
  <1>7. early' \in BOOLEAN
    <2>1. early \in BOOLEAN
      BY DEF RestTyped, FlagsTyped
    <2>2. CASE early' = early
      BY <2>1, <2>2
    <2>3. CASE early' = (early \/ times = <<>>)
      BY <2>3
    <2> QED BY <1>4, <2>2, <2>3
  <1> QED BY <1>2, <1>3, <1>6, <1>7 DEF RestTyped, FlagsTyped

\* hft_latency_test_100k and simple_latency_test
LEMMA TestsRest ==
    ASSUME RestTyped, UNCHANGED <<edge, overlap, seen>>, UNCHANGED latencyVars, BurstStep \/ PingStep
    PROVE  RestTyped'
  <1>1. split' = split \/ SysRecv(Remote, ReplyHalves) \/ SysRecv(Remote, 2)
    <2>1. RecvEnds \/ UNCHANGED netVars \/ SysRecv(Remote, ReplyHalves) \/ SysRecv(Remote, 2)
      BY DEF BurstStep, PingStep, ConnectFails, Connect, CloseAndExit, BurstSend, BurstSent, BurstRecv,
         BurstReceived, PingSend, PingSent, PingRecv, PingRecvEnds
    <2> QED BY <2>1, RecvEndsSplit
  <1>2. split' \in BOOLEAN
    BY <1>1, SplitTyped, RemoteAssumption, ReplyAssumption DEF RestTyped, FlagsTyped
  <1>3. UNCHANGED <<connected, ignored, early, errors>> /\ (fd' = fd \/ fd' \in Descriptors)
    BY DEF BurstStep, PingStep, ConnectFails, Connect, CloseAndExit, BurstSend, BurstSent, BurstRecv,
       BurstReceived, PingSend, PingSent, PingRecv, PingRecvEnds, tripVars, socketVars, matchVars,
       Descriptors
  <1> QED BY <1>2, <1>3 DEF RestTyped, FlagsTyped, latencyVars

\* The simple client
LEMMA SimpleRest ==
    ASSUME RestTyped, UNCHANGED <<edge, overlap>>, UNCHANGED latencyVars,
           SimpleMainStep \/ SimpleReceiverStep
    PROVE  RestTyped'
  <1>1. split' = split \/ SysRecv(Remote, ReplyHalves)
    <2>1. RecvEnds \/ UNCHANGED netVars \/ SysRecv(Remote, ReplyHalves)
      BY DEF SimpleMainStep, SimpleReceiverStep, SimpleConnect, SimpleSend, SimpleDisconnect, SimpleClose,
         SimpleJoin, ReadErrors, WriteErrors, TestState, SimpleRecv, SimpleRecvNothing, SimpleRecvEof,
         SimpleRecvFails, RecvEnds
    <2> QED BY <2>1, RecvEndsSplit
  <1>2. split' \in BOOLEAN
    BY <1>1, SplitTyped, RemoteAssumption, ReplyAssumption DEF RestTyped, FlagsTyped
  <1>3. /\ UNCHANGED <<ignored, early>>
        /\ connected' = connected \/ connected' \in BOOLEAN
        /\ fd' = fd \/ fd' \in Descriptors
    BY DEF SimpleMainStep, SimpleReceiverStep, SimpleConnect, SimpleSend, SimpleDisconnect, SimpleClose,
       SimpleJoin, ReadErrors, WriteErrors, TestState, SimpleRecv, SimpleRecvNothing, SimpleRecvEof,
       SimpleRecvFails, tripVars, socketVars, matchVars, Descriptors
  <1>4. errors' \in Nat /\ seen' \in [{"main", "receiver"} -> Nat]
    <2>1. CASE \E t \in {"main", "receiver"} : ReadErrors(t) \/ WriteErrors(t)
      BY <2>1 DEF ReadErrors, WriteErrors, RestTyped, tripVars
    <2>2. CASE ~\E t \in {"main", "receiver"} : ReadErrors(t) \/ WriteErrors(t)
      <3>1. UNCHANGED <<errors, seen>>
        BY <2>2 DEF SimpleMainStep, SimpleReceiverStep, SimpleConnect, SimpleSend, SimpleDisconnect,
           SimpleClose, SimpleJoin, TestState, SimpleRecv, SimpleRecvNothing, SimpleRecvEof,
           SimpleRecvFails, tripVars
      <3> QED BY <3>1 DEF RestTyped
    <2> QED BY <2>1, <2>2
  <1> QED BY <1>2, <1>3, <1>4 DEF RestTyped, FlagsTyped, latencyVars

\* The server's end of a round trip
LEMMA AnswerRest ==
    ASSUME RestTyped, UNCHANGED <<edge, overlap, seen>>, UNCHANGED latencyVars,
           ServerAnswers \/ RestOfAnswer \/ ServerEnds
    PROVE  RestTyped'
  <1>1. split' = split
    BY DEF ServerAnswers, RestOfAnswer, ServerEnds, Write, RestArrives, PeerEnds, netVars
  <1>2. UNCHANGED <<fd, connected, errors, early>> /\ (ignored' = ignored \/ ignored' = TRUE)
    BY DEF ServerAnswers, RestOfAnswer, ServerEnds, tripVars, socketVars, matchVars
  <1> QED BY <1>1, <1>2 DEF RestTyped, FlagsTyped, latencyVars

\* A recv() into the shared buffer, and the other steps of both programs.
LEMMA SharedRest ==
    ASSUME RestTyped, SharedProgram, SharedTyped, Next
    PROVE  RestTyped'
  <1>1. UNCHANGED <<tripVars, latencyVars, seen>>
    BY SharedSteps
  <1>2. \/ \E p \in Peers, t \in Threads : RecvInto(t, p) /\ edge' = edge
        \/ UNCHANGED <<split, overlap>> /\ (edge' = edge \/ edge' \in BOOLEAN)
    <2>1. CASE \E p \in Peers : PeerWrites(p) \/ SecondHalf(p) \/ PeerLeaves(p)
      BY <2>1 DEF PeerWrites, SecondHalf, PeerLeaves, Write, RestArrives, PeerEnds
    <2>2. CASE \E w \in Workers : WorkerStep(w)
      <3>1. PICK w \in Workers : WorkerStep(w)
        BY <2>2
      <3>2. CASE ServerRecv(w)
        <4>1. w \in Threads /\ conn[w] \in Peers
          BY DEF Threads, SharedTyped
        <4> QED BY <3>2, <4>1 DEF ServerRecv
      <3>3. CASE ~ServerRecv(w)
        BY <3>1, <3>3 DEF WorkerStep, TakeEvent, ServerRecvNothing, ServerRecvFails, ServerRecvEof,
           ReturnToWait, SysRecvError, SysClose, Frame, FindService, Serve, UpdateStats, netVars, sharedVars
      <3> QED BY <3>2, <3>3
    <2>3. ASSUME NEW t \in ClientThreads,
                 \/ EpollWait \/ EpollRecvNothing \/ EpollRecvFails \/ ReceiveEof \/ ReceiveFails
                 \/ ClientThreadStep(t)
          PROVE  \/ RecvInto(t, Remote) /\ edge' = edge
                 \/ UNCHANGED <<split, overlap>> /\ (edge' = edge \/ edge' \in BOOLEAN)
      BY <2>3 DEF EpollWait, EpollRecvNothing, EpollRecvFails, ReceiveEof, ReceiveFails, SysRecvError,
         SysClose, ClientThreadStep, ClientRecv, CountBytes, Deliver, DeliverNoMore, Tally, netVars, sharedVars
    <2>4. ClientThreads \subseteq Threads
      BY DEF ClientThreads, Threads
    <2> QED BY <2>1, <2>2, <2>3, <2>4, SharedSteps, RemoteAssumption
  <1>3. split' \in BOOLEAN /\ overlap' \in BOOLEAN /\ edge' \in BOOLEAN
    <2>1. split \in BOOLEAN /\ overlap \in BOOLEAN /\ edge \in BOOLEAN
      BY DEF RestTyped, FlagsTyped
    <2>2. ASSUME NEW p \in Peers, NEW t \in Threads, RecvInto(t, p)
          PROVE  split' \in BOOLEAN /\ overlap' \in BOOLEAN
      <3>1. split' \in BOOLEAN
        BY <2>1, <2>2, SplitTyped, BufferAssumption DEF RecvInto
      <3>2. overlap' = (overlap \/ \E u \in Threads \ {t} : pc[u] \in InUse)
        BY <2>2 DEF RecvInto
      <3> QED BY <3>1, <3>2
    <2> QED BY <1>2, <2>1, <2>2
  <1> QED BY <1>1, <1>3 DEF RestTyped, FlagsTyped, tripVars, socketVars, matchVars, latencyVars

\* A program that is none of the seven, if Programs had one, would do nothing.
LEMMA NoOtherProgram ==
    ASSUME ~SharedProgram, program \notin TripPrograms
    PROVE  ~Next
  BY DEF Next, PeerStep, AnswerStep, Sigint, ThreadStep, Shared, Trip, PeerWrites, SecondHalf, PeerLeaves,
     ServerAnswers, RestOfAnswer, ServerEnds, TripProgram, TripPrograms, SharedProgram

LEMMA RestTypedStep ==
    ASSUME RestTyped, SharedProgram => SharedTyped, [Next]_vars
    PROVE  RestTyped'
  <1>1. CASE UNCHANGED vars
    BY <1>1 DEF vars, netVars, sharedVars, tripVars, socketVars, matchVars, latencyVars, RestTyped, FlagsTyped
  <1>2. CASE Next
    <2>1. CASE SharedProgram
      BY <1>2, <2>1, SharedRest
    <2>2. CASE ~SharedProgram
      <3>1. UNCHANGED <<edge, overlap>>
        BY <1>2, <2>2, OthersLeaveIt DEF sharedVars
      <3>2. CASE AnswerStep
        BY <3>1, <3>2, AnswerRest DEF AnswerStep, Trip
      <3>3. CASE Sigint
        BY <3>1, <3>3, LatencyRest DEF Sigint, Trip
      <3>4. ASSUME NEW t \in Threads, ThreadStep(t) PROVE RestTyped'
        <4>1. \/ (LatencyMainStep \/ LatencyReceiverStep) /\ UNCHANGED seen
              \/ (BurstStep \/ PingStep) /\ UNCHANGED <<latencyVars, seen>>
              \/ (SimpleMainStep \/ SimpleReceiverStep) /\ UNCHANGED latencyVars
          BY <2>2, <3>4 DEF ThreadStep, Trip, SharedProgram
        <4> QED BY <3>1, <4>1, LatencyRest, TestsRest, SimpleRest
      <3>5. ~PeerStep
        BY <2>2 DEF PeerStep, Shared, PeerWrites, SecondHalf, PeerLeaves
      <3> QED BY <1>2, <3>2, <3>3, <3>4, <3>5 DEF Next
    <2> QED BY <2>1, <2>2
  <1> QED BY <1>1, <1>2

LEMMA TypeOKInit == Init => TypeOK
  <1> SUFFICES ASSUME Init PROVE TypeOK
    OBVIOUS
  <1>1. pc \in [Threads -> Places]
    BY DEF Init, Start, Places, TripPrograms, Threads
  <1>2. /\ rest \in [Peers -> Nat] /\ written \in [Peers -> Nat]
        /\ peer \in [Peers -> {"up", "fin", "err", "closed"}] /\ in \in [Peers -> Seq(Half)]
        /\ handled \in [Peers -> Seq(HandledMessage)]
    BY DEF Init
  <1>3. /\ buffer \in Seq(Half) /\ Len(buffer) = 0
        /\ got \in [Threads -> Nat] /\ offset \in [Threads -> Nat]
        /\ \A t \in Threads : got[t] = 0 /\ offset[t] = 0
    BY DEF Init
  <1>4. Len(buffer) <= BufferHalves /\ \A t \in Threads : got[t] <= Len(buffer) /\ offset[t] <= BufferHalves
    BY <1>3, BufferAssumption
  <1>5. /\ conn \in [Workers -> Peers] /\ service \in [Workers -> {"orders", "quotes", "none"}]
        /\ fd \in {"none", "open", "closed"}
        /\ out \in Seq(Nat) /\ times \in Seq(Nat) /\ held \in Seq(Half)
    BY RemoteAssumption DEF Init
  <1>6. {split, edge, overlap, connected, stop, lock, signalled, ignored, early} \subseteq BOOLEAN
    BY DEF Init
  <1>7. {taken, count, bytes, sent, replies, errors, failed} \subseteq Nat
    BY DEF Init
  <1>8. seen \in [{"main", "receiver"} -> Nat] /\ program \in Programs /\ pairs = {}
    BY DEF Init
  <1> QED BY <1>1, <1>2, <1>3, <1>4, <1>5, <1>6, <1>7, <1>8 DEF TypeOK

\* Everything the programs need of each other's invariants.
Together == SharedInv /\ Ordered /\ NoneAhead

LEMMA TypeOKStep ==
    ASSUME TypeOK, Together, Together', [Next]_vars
    PROVE  TypeOK'
  <1>1. RestTyped
    BY DEF TypeOK, RestTyped, FlagsTyped, Descriptors
  <1>2. SharedProgram => SharedTyped
    BY DEF Together, SharedInv, SharedSound
  <1>3. RestTyped'
    BY <1>1, <1>2, RestTypedStep
  <1>4. /\ fd' \in {"none", "open", "closed"} /\ seen' \in [{"main", "receiver"} -> Nat] /\ errors' \in Nat
        /\ {split', edge', overlap', connected', stop', lock', signalled', ignored', early'} \subseteq BOOLEAN
    BY <1>3 DEF RestTyped, FlagsTyped, Descriptors
  <1>5. CASE UNCHANGED vars
    BY <1>5 DEF vars, netVars, sharedVars, serverVars, tripVars, socketVars, sendVars, matchVars,
       latencyVars, TypeOK
  <1>6. CASE SharedProgram /\ Next
    <2>1. program' = program /\ UNCHANGED <<tripVars, latencyVars, seen>>
      BY <1>6, SharedSteps
    <2>2. UNCHANGED <<out, times, held, sent, replies, failed>>
      BY <2>1 DEF tripVars, sendVars, matchVars
    <2>3. /\ program' \in Programs /\ program' \notin TripPrograms
          /\ out' \in Seq(Nat) /\ times' \in Seq(Nat) /\ held' \in Seq(Half)
          /\ sent' \in Nat /\ replies' \in Nat /\ failed' \in Nat
      BY <1>6, <2>1, <2>2 DEF TypeOK, SharedProgram, TripPrograms
    <2>4. SharedTyped'
      BY <1>6, <2>1 DEF Together, SharedInv, SharedSound, SharedProgram
    <2> QED BY <1>4, <2>3, <2>4 DEF TypeOK, SharedTyped
  <1>7. CASE program \in TripPrograms /\ Next
    <2>1. ~SharedProgram
      BY <1>7 DEF SharedProgram, TripPrograms
    <2>2. program' = program /\ UNCHANGED sharedVars /\ UNCHANGED serverVars
      BY <2>1, OthersLeaveIt
    <2>3. Typed' /\ NoneAhead'
      BY <1>7, <2>2 DEF Together, Ordered, InPlace
    <2>4. /\ buffer' \in Seq(Half) /\ Len(buffer') <= BufferHalves
          /\ got' \in [Threads -> Nat] /\ offset' \in [Threads -> Nat]
          /\ \A t \in Threads : got'[t] <= Len(buffer') /\ offset'[t] <= BufferHalves
          /\ handled' \in [Peers -> Seq(HandledMessage)] /\ written' \in [Peers -> Nat]
          /\ conn' \in [Workers -> Peers] /\ service' \in [Workers -> {"orders", "quotes", "none"}]
          /\ count' \in Nat /\ bytes' \in Nat
      BY <2>2 DEF TypeOK, sharedVars, serverVars
    <2>5. failed' \in Nat /\ pairs' \subseteq (1..NumMessages[program]) \X (1..NumMessages[program])
      <3>1. /\ failed' \in Nat /\ Begun' <= NumMessages[program]
            /\ pairs' \subseteq (1..Begun') \X (1..Begun')
        BY <1>7, <2>2, <2>3 DEF NoneAhead, Within
      <3>2. Begun' \in Nat
        <4>1. sent' \in Nat
          BY <2>3 DEF Typed
        <4>2. InFlight' = 0 \/ InFlight' = 1
          BY DEF InFlight
        <4>3. Begun' = sent' + InFlight'
          BY DEF Begun
        <4> QED BY <4>1, <4>2, <4>3
      <3>3. NumMessages[program] \in Nat
        BY <1>7, NumMessagesAssumption
      <3>4. 1..Begun' \subseteq 1..NumMessages[program]
        BY <3>1, <3>2, <3>3
      <3> QED BY <3>1, <3>4
    <2>6. program' \in Programs
      BY <2>2 DEF TypeOK
    <2> QED BY <1>4, <2>2, <2>3, <2>4, <2>5, <2>6 DEF TypeOK, Typed
  <1>8. Next => SharedProgram \/ program \in TripPrograms
    BY NoOtherProgram
  <1> QED BY <1>5, <1>6, <1>7, <1>8

LEMMA TogetherInit == Init => Together
  BY SharedInvInit, OrderedInit, NoneAheadInit DEF Together

LEMMA TogetherStep == Together /\ [Next]_vars => Together'
  BY SharedInvStep, OrderedStep, NoneAheadStep DEF Together

\* Every variable has its type: no recv() returns more than the buffer holds,
\* no thread looks behind it, and only messages that were sent are matched.
THEOREM EverythingTyped == Spec => []TypeOK
  <1>1. TypeOK /\ Together /\ [Next]_vars => (TypeOK /\ Together)'
    BY TypeOKStep, TogetherStep
  <1> QED BY <1>1, TypeOKInit, TogetherInit, PTL DEF Spec

-----------------------------------------------------------------------------
(* What is counted has arrived, whatever the threads do                    *)

LEMMA CountedArrived == TypeOK /\ Together => CountsWhatArrived
  <1> SUFFICES ASSUME TypeOK, Together PROVE CountsWhatArrived
    OBVIOUS
  <1>1. count \in Nat /\ taken \in Nat /\ replies \in Nat
    BY DEF TypeOK
  <1>2. CASE SharedProgram
    <2>1. SharedSound /\ CountSound
      BY <1>2 DEF Together, SharedInv
    <2>2. CASE program = "server"
      <3>1. IsFiniteSet(WithMessage) /\ 2 * count + 2 * Cardinality(WithMessage) <= taken
        BY <2>1, <2>2 DEF CountSound
      <3>2. Cardinality(WithMessage) \in Nat
        BY <3>1, FS_CardinalityType
      <3> QED BY <1>1, <2>2, <3>1, <3>2 DEF CountsWhatArrived
    <2>3. CASE program = "client"
      <3>1. 2 * count + Uncounted("receive") + Uncounted("epoll") <= taken
        BY <2>1, <2>3 DEF CountSound
      <3>2. ASSUME NEW t \in ClientThreads PROVE Uncounted(t) \in Nat
        <4>1. /\ t \in Threads /\ got[t] \in Nat /\ offset[t] \in Nat
              /\ pc[t] = "deliver" => offset[t] <= got[t]
              /\ pc[t] = "tally" => offset[t] + 2 <= got[t]
          BY <2>1, <2>3 DEF SharedSound, SharedTyped, ClientPlaces, ClientThreads, Threads
        <4> QED BY <4>1 DEF Uncounted
      <3>3. Uncounted("receive") \in Nat /\ Uncounted("epoll") \in Nat
        BY <3>2 DEF ClientThreads
      <3> QED BY <1>1, <2>3, <3>1, <3>3 DEF CountsWhatArrived
    <2> QED BY <1>2, <2>2, <2>3 DEF SharedProgram
  <1>3. CASE ~SharedProgram
    <2>1. count = 0
      BY <1>3 DEF Together, SharedInv, Untouched
    <2>2. CASE program = "simple"
      <3>1. 2 * replies + Len(held) <= taken /\ held \in Seq(Half)
        BY <2>2 DEF Together, Ordered, TripPrograms, InPlace, HeldInPlace, Typed
      <3>2. Len(held) \in Nat
        BY <3>1
      <3> QED BY <1>1, <2>1, <3>1, <3>2 DEF CountsWhatArrived
    <2>3. CASE program # "simple"
      BY <1>1, <2>1, <2>3 DEF CountsWhatArrived
    <2> QED BY <2>2, <2>3
  <1> QED BY <1>2, <1>3

\* total_messages_processed and messages_received never exceed what can be
\* made of the bytes received, however the threads mix in the shared buffer.
THEOREM CountedWhatArrived == Spec => []CountsWhatArrived
  <1>1. TypeOK /\ Together /\ [Next]_vars => (TypeOK /\ Together)'
    BY TypeOKStep, TogetherStep
  <1> QED BY <1>1, TypeOKInit, TogetherInit, CountedArrived, PTL DEF Spec
=============================================================================
