---------------------------- MODULE SimpleClient ----------------------------
(***************************************************************************)
(* HFTTCPClientSimple and its main() (hft_tcp_client_simple.cpp): main()   *)
(* sends orders and disconnects, a receiver thread reads, and both count   *)
(* in the same stats_ without a lock.                                      *)
(***************************************************************************)
EXTENDS RoundTrip

VARIABLE
    seen          \* seen[t]: what t has read of stats_.errors, to write it back plus one

\* connect() with every failure, which resets socket_fd_, and the start of
\* the thread.
SimpleConnect ==
    /\ pc["main"] = "connect"
    /\ \/ /\ pc' = [pc EXCEPT !["main"] = "send", !["receiver"] = "loop"]
          /\ fd' = "open" /\ connected' = TRUE
       \/ /\ pc' = [pc EXCEPT !["main"] = "over"]
          /\ UNCHANGED socketVars
    /\ UNCHANGED <<netVars, sendVars, matchVars, errors, ignored, seen>>

\* send_order, send_message
SimpleSend ==
    /\ pc["main"] = "send" /\ sent < NumMessages[program]
    /\ \E k \in Outcomes :
        /\ SysSend(sent + 1, k)
        /\ pc' = [pc EXCEPT !["main"] = IF k = 2 THEN "send" ELSE "read"]
    /\ sent' = sent + 1
    /\ UNCHANGED <<netVars, socketVars, matchVars, errors, ignored, seen>>

\* stats_.errors++ is a read and a write.
ReadErrors(t) ==
    /\ Step(t, "read", "write")
    /\ seen' = [seen EXCEPT ![t] = errors]
    /\ UNCHANGED <<netVars, tripVars>>

\* Fault: the counter is written back unchanged.
WriteErrorsBack(t) ==
    /\ Step(t, "write", IF t = "main" THEN "send" ELSE "over")
    /\ errors' = seen[t]
    /\ UNCHANGED <<netVars, socketVars, sendVars, matchVars, ignored, seen>>

WriteErrors(t) ==
    /\ Step(t, "write", IF t = "main" THEN "send" ELSE "over")
    /\ errors' = seen[t] + 1
    /\ UNCHANGED <<netVars, socketVars, sendVars, matchVars, ignored, seen>>

\* Fault: main() joins the receiver before it disconnects.
SimpleJoinFirst ==
    /\ sent = NumMessages[program]
    /\ Step("main", "send", "join")
    /\ UNCHANGED <<netVars, tripVars, seen>>

\* disconnect(): first the state, then the socket, while the receiver still
\* runs.
SimpleDisconnect ==
    /\ sent = NumMessages[program]
    /\ Step("main", "send", "close")
    /\ connected' = FALSE
    /\ UNCHANGED <<netVars, sendVars, matchVars, fd, errors, ignored, seen>>

SimpleClose ==
    /\ Step("main", "close", "join")
    /\ fd' = "none"
    /\ UNCHANGED <<netVars, sendVars, matchVars, connected, errors, ignored, seen>>

\* join, then print_stats
SimpleJoin ==
    /\ pc["receiver"] = "over"
    /\ Step("main", "join", "over")
    /\ UNCHANGED <<netVars, tripVars, seen>>

-----------------------------------------------------------------------------
(* receive_messages                                                        *)

TestState ==
    /\ Step("receiver", "loop", IF connected THEN "recv" ELSE "over")
    /\ UNCHANGED <<netVars, tripVars, seen>>

\* Every whole message in what recv() returned is counted and processed.
SimpleRecv ==
    /\ fd = "open"
    /\ Step("receiver", "recv", "loop")
    /\ SysRecv(Remote, ReplyHalves)
    /\ replies' = replies + Available(Remote, ReplyHalves) \div 2
    /\ UNCHANGED <<socketVars, sendVars, times, held, pairs, early, errors, ignored, seen>>

SimpleRecvNothing ==
    /\ fd = "open" /\ NothingYet(Remote)
    /\ Step("receiver", "recv", "loop")
    /\ UNCHANGED <<netVars, tripVars, seen>>

SimpleRecvEof ==
    /\ fd = "open" /\ AtEof(Remote)
    /\ Step("receiver", "recv", "over")
    /\ UNCHANGED <<netVars, tripVars, seen>>

\* An error of the connection, or EBADF when disconnect() was faster.
SimpleRecvFails ==
    /\ Step("receiver", "recv", "read")
    /\ \/ fd = "open" /\ SysRecvError(Remote)
       \/ fd # "open" /\ UNCHANGED netVars
    /\ UNCHANGED <<tripVars, seen>>

SimpleMainStep ==
    \/ SimpleConnect \/ SimpleSend \/ SimpleDisconnect \/ SimpleClose \/ SimpleJoin
    \/ ReadErrors("main") \/ WriteErrors("main")

SimpleReceiverStep ==
    \/ TestState \/ SimpleRecv \/ SimpleRecvNothing \/ SimpleRecvEof \/ SimpleRecvFails
    \/ ReadErrors("receiver") \/ WriteErrors("receiver")
=============================================================================
