--------------------------- MODULE ClientReceive ----------------------------
(***************************************************************************)
(* The receiving half of HFTTCPClient: receive_thread_func polls the       *)
(* socket, epoll_thread_func waits for edge-triggered events on it, and    *)
(* both process what they receive from the same recv_buffer_.              *)
(* HFTTCPClient models the rest of the client, reconnection included; here *)
(* the client has one connection and keeps running.                        *)
(***************************************************************************)
EXTENDS SharedBuffer

\* Where t goes when it is done with what it received.
Again(t) == IF t = "receive" THEN "recv" ELSE "wait"

-----------------------------------------------------------------------------
(* epoll_thread_func                                                       *)

\* epoll_wait() reports the socket once for all that has happened to it.
EpollWait ==
    /\ edge /\ peer[Remote] # "closed"
    /\ Step("epoll", "wait", "recv")
    /\ edge' = FALSE
    /\ UNCHANGED <<netVars, buffer, got, offset, written, count, bytes, handled, overlap>>

\* One recv() per event; EAGAIN, the end of the stream and a descriptor that
\* is closed meanwhile are all ignored.
EpollRecvNothing ==
    /\ NothingYet(Remote) \/ AtEof(Remote) \/ peer[Remote] = "closed"
    /\ Step("epoll", "recv", "wait")
    /\ UNCHANGED <<netVars, sharedVars>>

\* So is an error, which this recv() takes off the socket.
EpollRecvFails ==
    /\ Step("epoll", "recv", "wait")
    /\ SysRecvError(Remote)
    /\ UNCHANGED sharedVars

-----------------------------------------------------------------------------
(* receive_thread_func                                                     *)

\* Fault: no data and no connection are the same.
ReceiveEofIgnored == AtEof(Remote) /\ UNCHANGED <<pc, netVars, sharedVars>>

\* handle_disconnection() closes the socket; without a connection the thread
\* only sleeps.
ReceiveEof ==
    /\ AtEof(Remote)
    /\ Step("receive", "recv", "over")
    /\ SysClose(Remote)
    /\ UNCHANGED sharedVars

ReceiveFails ==
    /\ in[Remote] = <<>> /\ peer[Remote] = "err"
    /\ Step("receive", "recv", "over")
    /\ SysClose(Remote)
    /\ UNCHANGED sharedVars

-----------------------------------------------------------------------------
(* Both                                                                    *)

ClientRecv(t) ==
    /\ Step(t, "recv", "count")
    /\ RecvInto(t, Remote)
    /\ UNCHANGED <<offset, written, edge, count, bytes, handled>>

\* Fault: the counter is set where it should be added to.
CountBytesAnew(t) ==
    /\ Step(t, "count", "deliver")
    /\ bytes' = got[t]
    /\ offset' = [offset EXCEPT ![t] = 0]
    /\ UNCHANGED <<netVars, buffer, got, written, edge, count, handled, overlap>>

CountBytes(t) ==
    /\ Step(t, "count", "deliver")
    /\ bytes' = bytes + got[t]
    /\ offset' = [offset EXCEPT ![t] = 0]
    /\ UNCHANGED <<netVars, buffer, got, written, edge, count, handled, overlap>>

\* Fault: the loop starts over at the beginning of the buffer.
DeliverFirst(t) ==
    /\ offset[t] + 2 <= got[t]
    /\ Step(t, "deliver", "tally")
    /\ Handle(t, Remote, 0)
    /\ UNCHANGED <<netVars, buffer, got, offset, written, edge, count, bytes, overlap>>

\* process_received_data hands the next whole message to process_message,
\* and drops what is left of a message at the end.
Deliver(t) ==
    /\ offset[t] + 2 <= got[t]
    /\ Step(t, "deliver", "tally")
    /\ Handle(t, Remote, offset[t])
    /\ UNCHANGED <<netVars, buffer, got, offset, written, edge, count, bytes, overlap>>

DeliverNoMore(t) ==
    /\ offset[t] + 2 > got[t]
    /\ Step(t, "deliver", Again(t))
    /\ UNCHANGED <<netVars, sharedVars>>

Tally(t) ==
    /\ Step(t, "tally", "deliver")
    /\ count' = count + 1
    /\ offset' = [offset EXCEPT ![t] = @ + 2]
    /\ UNCHANGED <<netVars, buffer, got, written, edge, bytes, handled, overlap>>

ClientThreadStep(t) ==
    ClientRecv(t) \/ CountBytes(t) \/ Deliver(t) \/ DeliverNoMore(t) \/ Tally(t)

EpollStep == EpollWait \/ EpollRecvNothing \/ EpollRecvFails \/ ClientThreadStep("epoll")
ReceiveStep == ReceiveEof \/ ReceiveFails \/ ClientThreadStep("receive")
=============================================================================
