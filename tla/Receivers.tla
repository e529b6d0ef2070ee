----------------------------- MODULE Receivers ------------------------------
(***************************************************************************)
(* Every program of the repository that takes messages out of a stream,    *)
(* one at a time: Init chooses which one runs.  The other end may split    *)
(* messages, write several before anything is read, leave messages without *)
(* an answer, and end the connection at any moment.                        *)
(***************************************************************************)
EXTENDS ServerReceive, ClientReceive, LatencyClient, LatencyTests, SimpleClient

CONSTANT
    Programs      \* the programs Init chooses from

vars == <<program, pc, netVars, sharedVars, serverVars, tripVars, latencyVars, seen>>

\* The places the threads of program p start at.
Start(p) ==
    [t \in Threads |->
        CASE p = "server" /\ t \in Workers -> "idle"
          [] p = "client" /\ t = "receive" -> "recv"
          [] p = "client" /\ t = "epoll" -> "wait"
          [] p \in TripPrograms /\ t = "main" -> "connect"
          [] p \in {"latency", "simple"} /\ t = "receiver" -> "unborn"
          [] OTHER -> "none"]

Init ==
    /\ program \in Programs
    /\ pc = Start(program)
    /\ in = [p \in Peers |-> <<>>]
    /\ rest = [p \in Peers |-> 0]
    /\ peer = [p \in Peers |-> "up"]
    /\ taken = 0 /\ split = FALSE
    /\ buffer = <<>>
    /\ got = [t \in Threads |-> 0]
    /\ offset = [t \in Threads |-> 0]
    /\ written = [p \in Peers |-> 0]
    /\ edge = FALSE
    /\ count = 0 /\ bytes = 0
    /\ handled = [p \in Peers |-> <<>>]
    /\ overlap = FALSE
    /\ conn = [w \in Workers |-> Remote]
    /\ service = [w \in Workers |-> "none"]
    /\ fd = "none" /\ connected = FALSE /\ stop = FALSE /\ lock = FALSE /\ signalled = FALSE
    /\ out = <<>> /\ sent = 0 /\ times = <<>> /\ held = <<>>
    /\ replies = 0 /\ errors = 0 /\ failed = 0
    /\ pairs = {} /\ ignored = FALSE /\ early = FALSE
    /\ seen = [t \in {"main", "receiver"} |-> 0]

-----------------------------------------------------------------------------
(* What stays the same while a program runs                                *)

Shared(step) == step /\ UNCHANGED <<program, tripVars, latencyVars, seen>>
Trip(step) == step /\ UNCHANGED <<program, sharedVars, serverVars>>

PeerStep ==
    \E p \in Peers :
        Shared((PeerWrites(p) \/ SecondHalf(p) \/ PeerLeaves(p)) /\ UNCHANGED serverVars)

AnswerStep ==
    Trip((ServerAnswers \/ RestOfAnswer \/ ServerEnds) /\ UNCHANGED <<latencyVars, seen>>)

ThreadStep(t) ==
    \/ program = "server" /\ t \in Workers /\ Shared(WorkerStep(t))
    \/ program = "client" /\ t = "epoll" /\ Shared(EpollStep /\ UNCHANGED serverVars)
    \/ program = "client" /\ t = "receive" /\ Shared(ReceiveStep /\ UNCHANGED serverVars)
    \/ program = "latency" /\ t = "main" /\ Trip(LatencyMainStep /\ UNCHANGED seen)
    \/ program = "latency" /\ t = "receiver" /\ Trip(LatencyReceiverStep /\ UNCHANGED seen)
    \/ program = "burst" /\ t = "main" /\ Trip(BurstStep /\ UNCHANGED <<latencyVars, seen>>)
    \/ program = "ping" /\ t = "main" /\ Trip(PingStep /\ UNCHANGED <<latencyVars, seen>>)
    \/ program = "simple" /\ t = "main" /\ Trip(SimpleMainStep /\ UNCHANGED latencyVars)
    \/ program = "simple" /\ t = "receiver" /\ Trip(SimpleReceiverStep /\ UNCHANGED latencyVars)

Sigint == program = "latency" /\ Trip(Interrupt /\ UNCHANGED seen)

Next == PeerStep \/ AnswerStep \/ Sigint \/ \E t \in Threads : ThreadStep(t)

Spec == Init /\ [][Next]_vars

\* Every thread of a client runs (main() gives up latency_mutex_ often enough
\* for no more than that), what is on its way arrives, and the server answers
\* or ignores what it has read; nothing says that it ever ends a connection.
FairSpec ==
    /\ Spec
    /\ \A t \in {"receive", "epoll", "main", "receiver"} : WF_vars(ThreadStep(t))
    /\ WF_vars(Trip((ServerAnswers \/ RestOfAnswer) /\ UNCHANGED <<latencyVars, seen>>))

-----------------------------------------------------------------------------
(* Invariants                                                              *)

Places == {"idle", "recv", "frame", "find", "serve", "update", "wait", "count", "deliver", "tally",
           "connect", "enable", "clear", "spawn", "assign", "reset", "wipe", "wiped", "send", "lock", "store", "results", "percentiles", "flags", "join",
           "close", "forget", "loop", "match", "read", "write", "unborn", "none", "over", "aborted"}

\* What a stream is made of, and what the history keeps of a message.
Half == Peers \X Nat \X {1, 2}
HandledMessage == Peers \X Nat \X Nat

\* Every variable has its type; what recv() returned fits into the buffer, and
\* only messages that exist are matched.
TypeOK ==
    /\ program \in Programs
    /\ pc \in [Threads -> Places]
    /\ rest \in [Peers -> Nat] /\ written \in [Peers -> Nat]
    /\ peer \in [Peers -> {"up", "fin", "err", "closed"}]
    /\ in \in [Peers -> Seq(Half)]
    /\ buffer \in Seq(Half) /\ Len(buffer) <= BufferHalves
    /\ got \in [Threads -> Nat] /\ offset \in [Threads -> Nat]
    /\ \A t \in Threads : got[t] <= Len(buffer) /\ offset[t] <= BufferHalves
    /\ handled \in [Peers -> Seq(HandledMessage)]
    /\ conn \in [Workers -> Peers] /\ service \in [Workers -> {"orders", "quotes", "none"}]
    /\ fd \in {"none", "open", "closed"}
    /\ out \in Seq(Nat) /\ times \in Seq(Nat) /\ held \in Seq(Half)
    /\ {split, edge, overlap, connected, stop, lock, signalled, ignored, early} \subseteq BOOLEAN
    /\ {taken, count, bytes, sent, replies, errors, failed} \subseteq Nat
    /\ seen \in [{"main", "receiver"} -> Nat]
    /\ program \in TripPrograms => pairs \subseteq (1..NumMessages[program]) \X (1..NumMessages[program])

\* The messages taken out of a connection are its own, in the order they were
\* written and each once, and the client misses none, as long as no recv()
\* wrote into the shared buffer while it was in use and none ended inside a
\* message: nothing else in the two receive loops reorders or mixes messages.
InOrderUnlessShared ==
    overlap \/ split \/ \A p \in Peers :
        \A i \in DOMAIN handled[p] :
            /\ handled[p][i][1] = p /\ handled[p][i][2] > 0
            /\ \A j \in 1..(i - 1) : handled[p][j][2] < handled[p][i][2]
            /\ program = "client" => handled[p][i][2] = i

\* total_messages_processed and messages_received never exceed the messages
\* that can be made of the bytes received, however the threads interleave.
CountsWhatArrived == 2 * count <= taken /\ (program = "simple" => 2 * replies <= taken)

\* bytes_received is the number of bytes received by both of the client's
\* threads, but for those a thread has not added yet.
BytesConserved ==
    LET Pending(t) == IF pc[t] = "count" THEN got[t] ELSE 0
    IN  program = "client" => bytes + Pending("receive") + Pending("epoll") = taken

\* No latency is measured too short: the reply to a message is never matched
\* with the send time of a later one.  simple_latency_test, which leaves half a
\* reply for its next turn, is the exception.
NeverTooShort ==
    \A m \in pairs : m[1] >= m[2] \/ (program = "ping" /\ split)

\* Each reply is matched with the send time of the message it answers, unless
\* a send was not whole, a message stayed without an answer, a reply was
\* faster than the storing of the send time, or a recv() ended inside a reply;
\* simple_latency_test minds only the last of these.
ExactWhenClean ==
    \A m \in pairs :
        \/ m[1] = m[2] \/ split
        \/ program # "ping" /\ (failed > 0 \/ ignored \/ early)

\* disconnect() closes the descriptor of LatencyTestClient under a receiver that
\* is about to call recv() in one window only: the handler runs between the
\* creation of the thread and its assignment to receiver_thread_, and so joins
\* nothing.  At any other moment of SIGINT, and in main()'s own disconnect(),
\* the receiver has ended first; it finds no descriptor at all only when the
\* handler has run before it.
ReceiverBeforeClose ==
    program = "latency" /\ pc["receiver"] = "recv" =>
        \/ fd = "open"
        \/ fd = "none" /\ signalled /\ pc["handler"] = "none"
        \/ fd = "closed" /\ pc["handler"] = "forget" /\ pc["main"] = "assign"

\* The simple client's error counter, incremented by two threads without a
\* lock, may lose increments, but a run in which a send failed ends with errors
\* reported, and the race of disconnect() with recv() adds one at most.
ErrorsShow ==
    program = "simple" /\ pc["main"] = "over" =>
        (failed > 0 => errors > 0) /\ errors <= failed + 1

-----------------------------------------------------------------------------
(* What a test report says of the server, refuted by a run of its own      *)

\* A whole message at the start of what a worker received is processed
\* ("Server processes messages correctly").
WholeMessageProcessed ==
    [][program = "server" /\ ~overlap =>
        \A w \in Workers :
            pc[w] = "frame" /\ got[w] >= 2 /\ MessageAt(0)[2] > 0 =>
                pc'[w] \in {"frame", "find"}]_vars

-----------------------------------------------------------------------------
(* Liveness                                                                *)

\* HFTTCPClient notices the end of its connection, even when the epoll thread
\* has taken the error off the socket and dropped it.
PeerEndNoticed == program = "client" /\ peer[Remote] \in {"fin", "err"} ~> peer[Remote] = "closed"

\* latency_test ends, with SIGINT or without, answered or not, unless the
\* handler joins the receiver while main() holds latency_mutex_.
LatencyTestEnds ==
    program = "latency" =>
        <>(pc["main"] \in {"over", "aborted"}) \/ <>[](lock /\ pc["handler"] = "join")

\* The two sequential tests end, unless they wait for a reply that does not
\* come: the 100k test when a message was not sent whole or not answered or a
\* reply came in two pieces, the other one only when it was not answered.
ReplyTestsEnd ==
    program \in {"burst", "ping"} =>
        \/ <>(pc["main"] = "over")
        \/ <>[]/\ peer[Remote] = "up" /\ pc["main"] = "recv"
               /\ ignored \/ (program = "burst" /\ (failed > 0 \/ split))

\* The simple client ends, whatever the server does: no reply is waited for.
SimpleEnds == program = "simple" => <>(pc["main"] = "over")
=============================================================================
