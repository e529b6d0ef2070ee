--------------------------- MODULE LatencyClient ----------------------------
(***************************************************************************)
(* latency_test: LatencyTestClient (latency_client.cpp) and its main()     *)
(* (latency_test_main.cpp), with the receiver thread and SIGINT.           *)
(*                                                                         *)
(* The handler runs on the main thread between any two of its steps, and   *)
(* main() goes on only after it: "handler" is that part of the thread.     *)
(***************************************************************************)
EXTENDS RoundTrip

VARIABLES
    stop,         \* stop_receiver_
    lock,         \* main() holds latency_mutex_
    signalled     \* SIGINT has been sent (bound: once)

latencyVars == <<stop, lock, signalled>>

\* main() is not in the middle of the handler.
MainStep(here, there) == pc["handler"] = "none" /\ Step("main", here, there)

-----------------------------------------------------------------------------
(* main() and the three tests                                              *)

\* connect() has a connection.  The handler in the middle of it leaves it with
\* socket_fd_ = -1 and so makes it fail; what follows happens in four steps,
\* and the handler before the last of them finds no thread to join.
LatencyConnect ==
    /\ MainStep("connect", "enable")
    /\ fd' = "open"
    /\ UNCHANGED <<netVars, latencyVars, sendVars, matchVars, connected, errors, ignored>>

SetConnected ==
    /\ MainStep("enable", "clear")
    /\ connected' = TRUE
    /\ UNCHANGED <<netVars, latencyVars, sendVars, matchVars, fd, errors, ignored>>

ClearStop ==
    /\ MainStep("clear", "spawn")
    /\ stop' = FALSE
    /\ UNCHANGED <<netVars, tripVars, lock, signalled>>

\* The thread runs from here on, in a temporary std::thread.
StartReceiver ==
    /\ pc["handler"] = "none" /\ pc["main"] = "spawn"
    /\ pc' = [pc EXCEPT !["main"] = "assign", !["receiver"] = "loop"]
    /\ UNCHANGED <<netVars, tripVars, latencyVars>>

\* The temporary is moved to receiver_thread_.
AssignReceiver ==
    /\ MainStep("assign", "reset")
    /\ UNCHANGED <<netVars, tripVars, latencyVars>>

\* receiver_thread_.joinable(); no thread is joined a second time.
Joinable == pc["receiver"] # "unborn" /\ pc["main"] # "assign"

\* No error path of connect() resets socket_fd_; main() returns and the
\* destructor disconnects.
LatencyConnectFails ==
    /\ MainStep("connect", "flags")
    /\ fd' \in {"none", "closed"}
    /\ UNCHANGED <<netVars, latencyVars, sendVars, matchVars, connected, errors, ignored>>

\* The type of test is unknown, or the handler has disconnected.
LatencyNoTest ==
    /\ MainStep("reset", "flags")
    /\ UNCHANGED <<netVars, tripVars, latencyVars>>

\* A test starts with reset_stats: the counters first ...
LatencyReset ==
    /\ connected
    /\ MainStep("reset", "wipe")
    /\ replies' = 0 /\ errors' = 0
    /\ UNCHANGED <<netVars, latencyVars, socketVars, sendVars, times, held, pairs, early, ignored>>

\* ... then, under latency_mutex_, the send times.
ClearTimes ==
    /\ MainStep("wiped", "send")
    /\ times' = <<>>
    /\ lock' = FALSE
    /\ UNCHANGED <<netVars, socketVars, sendVars, held, replies, pairs, early, errors, ignored, stop, signalled>>

\* create_test_message copies an OrderMessage (1120 bytes) to the payload (1024
\* bytes) and writes past its Message: a build that checks memcpy stops here.
CreateMessageAborts ==
    /\ sent < NumMessages[program]
    /\ MainStep("send", "aborted")
    /\ UNCHANGED <<netVars, tripVars, latencyVars>>

\* send_message: only -1 counts as an error.  After SIGINT nothing is sent,
\* and the loop goes on.
LatencySend ==
    /\ sent < NumMessages[program]
    /\ MainStep("send", "lock")
    /\ IF connected
       THEN \E k \in IF fd = "open" THEN Outcomes ELSE {0} :
               /\ SysSend(sent + 1, k)
               /\ errors' = errors + (IF k = 0 THEN 1 ELSE 0)
       ELSE UNCHANGED <<out, failed, errors>>
    /\ UNCHANGED <<netVars, latencyVars, socketVars, matchVars, sent, ignored>>

\* latency_mutex_ is taken to clear the send times, to store one, and for the
\* percentiles.
LatencyLock ==
    /\ ~lock /\ lock' = TRUE
    /\ MainStep("wipe", "wiped") \/ MainStep("lock", "store") \/ MainStep("results", "percentiles")
    /\ UNCHANGED <<netVars, tripVars, stop, signalled>>

StoreSendTime ==
    /\ MainStep("store", "send")
    /\ times' = Append(times, sent + 1)
    /\ sent' = sent + 1
    /\ lock' = FALSE
    /\ UNCHANGED <<netVars, socketVars, out, failed, held, replies, pairs, early, errors, ignored, stop, signalled>>

\* All messages are sent, or the time of the sustained test is over; replies
\* have a second to arrive.
LatencyLoopEnds ==
    /\ MainStep("send", "results")
    /\ UNCHANGED <<netVars, tripVars, latencyVars>>

\* calculate_percentiles sorts what latency_measurements_ holds: the send
\* times no reply was matched with.
Percentiles ==
    /\ MainStep("percentiles", "flags")
    /\ lock' = FALSE
    /\ UNCHANGED <<netVars, tripVars, stop, signalled>>

-----------------------------------------------------------------------------
(* SIGINT, and disconnect(), which main() and the handler call             *)

Interrupt ==
    /\ ~signalled /\ signalled' = TRUE
    /\ pc["main"] \notin {"over", "aborted"}
    /\ Step("handler", "none", "flags")
    /\ UNCHANGED <<netVars, tripVars, stop, lock>>

DisconnectStep(t, here, there) ==
    \/ t = "main" /\ MainStep(here, there)
    \/ t = "handler" /\ Step("handler", here, there)

ClearFlags(t) ==
    /\ DisconnectStep(t, "flags", "join")
    /\ connected' = FALSE /\ stop' = TRUE
    /\ UNCHANGED <<netVars, sendVars, matchVars, fd, errors, ignored, lock, signalled>>

\* Fault: the receiver is left to notice stop_receiver_ by itself.
DetachReceiver(t) ==
    /\ DisconnectStep(t, "join", "close")
    /\ UNCHANGED <<netVars, tripVars, latencyVars>>

JoinReceiver(t) ==
    /\ Joinable => pc["receiver"] = "over"
    /\ DisconnectStep(t, "join", "close")
    /\ UNCHANGED <<netVars, tripVars, latencyVars>>

\* The handler interrupts the join of main(): std::thread::join() of a thread
\* that is being joined, or no longer joinable when main() goes on, throws and
\* nothing catches it.
JoinTwice ==
    /\ pc["handler"] = "join" /\ pc["main"] = "join" /\ Joinable
    /\ pc' = [pc EXCEPT !["main"] = "aborted", !["handler"] = "none"]
    /\ UNCHANGED <<netVars, tripVars, latencyVars>>

CloseSocket(t) ==
    /\ DisconnectStep(t, "close", "forget")
    /\ fd' = IF fd = "none" THEN "none" ELSE "closed"
    /\ UNCHANGED <<netVars, latencyVars, sendVars, matchVars, connected, errors, ignored>>

ForgetSocket(t) ==
    /\ DisconnectStep(t, "forget", IF t = "main" THEN "over" ELSE "none")
    /\ fd' = "none"
    /\ UNCHANGED <<netVars, latencyVars, sendVars, matchVars, connected, errors, ignored>>

Disconnect(t) == ClearFlags(t) \/ JoinReceiver(t) \/ CloseSocket(t) \/ ForgetSocket(t)

-----------------------------------------------------------------------------
(* receive_responses                                                       *)

\* Fault: the loop is while (true).
TestStopNever ==
    /\ Step("receiver", "loop", "recv")
    /\ UNCHANGED <<netVars, tripVars, latencyVars>>

TestStop ==
    /\ Step("receiver", "loop", IF stop THEN "over" ELSE "recv")
    /\ UNCHANGED <<netVars, tripVars, latencyVars>>

LatencyRecv ==
    /\ fd = "open"
    /\ Step("receiver", "recv", "match")
    /\ SysRecv(Remote, ReplyHalves)
    /\ held' = Received(Remote, ReplyHalves)
    /\ UNCHANGED <<latencyVars, socketVars, sendVars, times, replies, pairs, early, errors, ignored>>

LatencyRecvNothing ==
    /\ fd = "open" /\ NothingYet(Remote)
    /\ Step("receiver", "recv", "loop")
    /\ UNCHANGED <<netVars, tripVars, latencyVars>>

\* The end of the stream, an error, or no descriptor.
LatencyRecvEnds ==
    /\ Step("receiver", "recv", "over")
    /\ \/ fd = "open" /\ RecvEnds
       \/ fd # "open" /\ UNCHANGED netVars
    /\ errors' = errors + (IF fd = "open" /\ AtEof(Remote) THEN 0 ELSE 1)
    /\ UNCHANGED <<latencyVars, socketVars, sendVars, matchVars, ignored>>

\* Fault: the send time is taken from the wrong end.
MatchLast ==
    /\ ~lock /\ Len(held) >= 2
    /\ Step("receiver", "match", "match")
    /\ pairs' = IF times = <<>> THEN pairs ELSE pairs \cup {<<ReplyNr(held, 1), times[Len(times)]>>}
    /\ times' = SubSeq(times, 1, Len(times) - 1)
    /\ early' = (early \/ times = <<>>)
    /\ replies' = replies + 1
    /\ held' = SubSeq(held, 3, Len(held))
    /\ UNCHANGED <<netVars, latencyVars, socketVars, sendVars, errors, ignored>>

\* The next whole message is taken for the reply to the oldest send time.
Match ==
    /\ ~lock /\ Len(held) >= 2
    /\ Step("receiver", "match", "match")
    /\ pairs' = IF times = <<>> THEN pairs ELSE pairs \cup {<<ReplyNr(held, 1), Head(times)>>}
    /\ times' = IF times = <<>> THEN times ELSE Tail(times)
    /\ early' = (early \/ times = <<>>)
    /\ replies' = replies + 1
    /\ held' = SubSeq(held, 3, Len(held))
    /\ UNCHANGED <<netVars, latencyVars, socketVars, sendVars, errors, ignored>>

MatchNoMore ==
    /\ Len(held) < 2
    /\ Step("receiver", "match", "loop")
    /\ held' = <<>>
    /\ UNCHANGED <<netVars, latencyVars, socketVars, sendVars, times, replies, pairs, early, errors, ignored>>

LatencyMainStep ==
    \/ LatencyConnect \/ LatencyConnectFails \/ SetConnected \/ ClearStop
    \/ StartReceiver \/ AssignReceiver \/ LatencyNoTest \/ LatencyReset \/ ClearTimes
    \/ CreateMessageAborts \/ LatencySend \/ LatencyLock \/ StoreSendTime \/ LatencyLoopEnds \/ Percentiles
    \/ Disconnect("main") \/ Disconnect("handler") \/ JoinTwice

LatencyReceiverStep ==
    /\ pc["main"] # "aborted"
    /\ \/ TestStop \/ LatencyRecv \/ LatencyRecvNothing \/ LatencyRecvEnds
       \/ Match \/ MatchNoMore
=============================================================================
