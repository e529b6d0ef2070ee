---------------------------- MODULE LatencyTests ----------------------------
(***************************************************************************)
(* The two sequential latency tests: hft_latency_test_100k.cpp sends all   *)
(* its messages and then receives on a non-blocking socket;                *)
(* simple_latency_test.cpp sends one and blocks for its reply.             *)
(***************************************************************************)
EXTENDS RoundTrip

\* Either connect(), which returns with socket_fd_ closed but set, or main().
ConnectFails ==
    /\ Step("main", "connect", "over")
    /\ fd' \in {"none", "closed"}
    /\ UNCHANGED <<netVars, sendVars, matchVars, connected, errors, ignored>>

Connect ==
    /\ Step("main", "connect", "send")
    /\ fd' = "open"
    /\ UNCHANGED <<netVars, sendVars, matchVars, connected, errors, ignored>>

CloseAndExit ==
    /\ Step("main", "close", "over")
    /\ fd' = "none"
    /\ UNCHANGED <<netVars, sendVars, matchVars, connected, errors, ignored>>

-----------------------------------------------------------------------------
(* HFTLatencyTest100K                                                      *)

\* The result of send_order() is ignored; the send time is stored anyway.
BurstSend ==
    /\ pc["main"] = "send" /\ sent < NumMessages[program]
    /\ \E k \in Outcomes : SysSend(sent + 1, k)
    /\ times' = Append(times, sent + 1)
    /\ sent' = sent + 1
    /\ UNCHANGED <<pc, netVars, socketVars, held, replies, pairs, early, errors, ignored>>

BurstSent ==
    /\ sent = NumMessages[program]
    /\ Step("main", "send", "recv")
    /\ UNCHANGED <<netVars, tripVars>>

\* Fault: send_time_index is advanced once per recv().
BurstRecvOneTime ==
    /\ pc["main"] = "recv" /\ replies < Len(times)
    /\ SysRecv(Remote, ReplyHalves)
    /\ LET data == Received(Remote, ReplyHalves)
       IN  /\ pairs' = pairs \cup {<<ReplyNr(data, k), times[replies + 1]>> : k \in 1..(Len(data) \div 2)}
           /\ replies' = replies + 1
    /\ UNCHANGED <<pc, socketVars, sendVars, times, held, early, errors, ignored>>

\* receive_responses: the k-th whole message is taken for the reply to the
\* k-th send time (messages_received and send_time_index are always equal).
BurstRecv ==
    /\ pc["main"] = "recv" /\ replies < Len(times)
    /\ SysRecv(Remote, ReplyHalves)
    /\ LET data == Received(Remote, ReplyHalves)
           room == Len(times) - replies
           whole == IF Len(data) \div 2 < room THEN Len(data) \div 2 ELSE room
       IN  /\ pairs' = pairs \cup {<<ReplyNr(data, k), times[replies + k]>> : k \in 1..whole}
           /\ replies' = replies + whole
    /\ UNCHANGED <<pc, socketVars, sendVars, times, held, early, errors, ignored>>

\* Fault: the end of the stream is taken for "nothing yet".
BurstEndIgnored ==
    /\ replies = Len(times) /\ UNCHANGED netVars
    /\ Step("main", "recv", "close")
    /\ UNCHANGED tripVars

BurstReceived ==
    /\ \/ replies = Len(times) /\ UNCHANGED netVars
       \/ replies < Len(times) /\ RecvEnds
    /\ Step("main", "recv", "close")
    /\ UNCHANGED tripVars

BurstStep == ConnectFails \/ Connect \/ BurstSend \/ BurstSent \/ BurstRecv \/ BurstReceived \/ CloseAndExit

-----------------------------------------------------------------------------
(* SimpleLatencyTest                                                       *)

\* The socket is blocking: send() takes all or fails.
PingSend ==
    /\ pc["main"] = "send" /\ sent < NumMessages[program]
    /\ \E k \in {2, 0} :
        /\ k = 2 \/ peer[Remote] # "up"
        /\ SysSend(sent + 1, k)
        /\ pc' = [pc EXCEPT !["main"] = IF k = 2 THEN "recv" ELSE "send"]
        /\ sent' = sent + (IF k = 2 THEN 0 ELSE 1)
    /\ UNCHANGED <<netVars, socketVars, matchVars, errors, ignored>>

PingSent ==
    /\ sent = NumMessages[program]
    /\ Step("main", "send", "close")
    /\ UNCHANGED <<netVars, tripVars>>

\* Fault: whatever arrived is taken for the reply.
PingRecvAny ==
    /\ Step("main", "recv", "send")
    /\ SysRecv(Remote, 2)
    /\ pairs' = pairs \cup {<<Received(Remote, 2)[1][2], sent>>}
    /\ sent' = sent + 1
    /\ UNCHANGED <<socketVars, out, failed, times, held, replies, early, errors, ignored>>

\* recv() returns as soon as it has something.  Less than a Message is a
\* failure, and what arrives later is left for the next turn.
PingRecv ==
    /\ Step("main", "recv", "send")
    /\ SysRecv(Remote, 2)
    /\ pairs' = IF Available(Remote, 2) = 2
                THEN pairs \cup {<<ReplyNr(Received(Remote, 2), 1), sent + 1>>}
                ELSE pairs
    /\ sent' = sent + 1
    /\ UNCHANGED <<socketVars, out, failed, times, held, replies, early, errors, ignored>>

PingRecvEnds ==
    /\ Step("main", "recv", "send")
    /\ RecvEnds
    /\ sent' = sent + 1
    /\ UNCHANGED <<socketVars, matchVars, out, failed, errors, ignored>>

PingStep == ConnectFails \/ Connect \/ PingSend \/ PingSent \/ PingRecv \/ PingRecvEnds \/ CloseAndExit
=============================================================================
