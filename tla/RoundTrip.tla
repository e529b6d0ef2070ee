------------------------------ MODULE RoundTrip -----------------------------
(***************************************************************************)
(* What the three latency tests and the simple client have in common: they *)
(* send numbered messages over one connection and take the k-th message    *)
(* that comes back for the reply to the k-th whose send time is still      *)
(* there.  No program compares message_id.                                 *)
(*                                                                         *)
(* The server they talk to may answer a message or ignore it (HFTServer    *)
(* ignores every one: send_response has no caller).                        *)
(***************************************************************************)
EXTENDS Stream

CONSTANTS
    NumMessages,  \* NumMessages[program]: num_messages, burst_size * num_bursts, or the most a
                  \* sustained test sends
    ReplyHalves   \* the size of the receive buffer on the stack, in halves

TripPrograms == {"latency", "burst", "ping", "simple"}

ASSUME NumMessagesAssumption == NumMessages \in [TripPrograms -> Nat]
ASSUME ReplyAssumption == ReplyHalves \in Nat

VARIABLES
    fd,           \* socket_fd_: "none" (-1), "open", or "closed" (the number of a closed one)
    connected,    \* connected_; connection_state_ is CONNECTED
    out,          \* the message each half belongs to that send() took and the server has not read
    sent,         \* messages the send loop is through with
    times,        \* the messages whose send times are stored, in order
    held,         \* what the last recv() returned and has yet to be processed
    replies,      \* messages_received
    errors,       \* errors_, stats_.errors
    pairs,        \* history: <<reply's number, number of the send time it was matched with>>
    failed,       \* history: calls of send() that did not take the whole message
    ignored,      \* history: the server has left a message without an answer
    early         \* history: a reply found no send time

socketVars == <<fd, connected>>
sendVars == <<out, sent, failed>>
matchVars == <<times, held, replies, pairs, early>>
tripVars == <<socketVars, sendVars, matchVars, errors, ignored>>

TripProgram == program \in TripPrograms

-----------------------------------------------------------------------------
(* The server's end                                                        *)

\* The server reads the size of a Message and answers it or not.  A reply is
\* numbered by the last message it has bytes of.
ServerAnswers ==
    /\ TripProgram /\ Len(out) >= 2
    /\ out' = SubSeq(out, 3, Len(out))
    /\ \/ Write(Remote, out[2]) /\ UNCHANGED ignored
       \/ peer[Remote] = "up" /\ ignored' = TRUE /\ UNCHANGED netVars
    /\ UNCHANGED <<pc, socketVars, matchVars, sent, failed, errors>>

RestOfAnswer == TripProgram /\ RestArrives(Remote) /\ UNCHANGED <<pc, tripVars>>

ServerEnds == TripProgram /\ PeerEnds(Remote) /\ UNCHANGED <<pc, tripVars>>

-----------------------------------------------------------------------------
(* send()                                                                  *)

\* How many halves of a message send() may take: all, some (the socket is
\* non-blocking and its buffer full) or, returning -1, none.
Outcomes == {2, 1, 0}

\* What is sent to a server that has gone is lost.
SysSend(n, k) ==
    /\ out' = IF peer[Remote] = "up" THEN out \o [i \in 1..k |-> n] ELSE out
    /\ failed' = failed + (IF k = 2 THEN 0 ELSE 1)

-----------------------------------------------------------------------------
(* Replies                                                                 *)

\* The number of the k-th reply in a sequence of halves.
ReplyNr(data, k) == data[2 * k][2]

\* recv() = 0, or -1 with an error other than EAGAIN.
RecvEnds == (AtEof(Remote) /\ UNCHANGED netVars) \/ SysRecvError(Remote)
=============================================================================
