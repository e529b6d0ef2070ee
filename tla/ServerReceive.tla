--------------------------- MODULE ServerReceive ----------------------------
(***************************************************************************)
(* What HFTServer makes of the bytes it receives: the loop at the end of   *)
(* handle_client_events, process_client_message and the two services of    *)
(* main().                                                                 *)
(*                                                                         *)
(* HFTServer models which worker gets which event.  Here an idle worker    *)
(* may be given any connection that has something to read, the same one    *)
(* that another worker is busy with included: this allows every assignment *)
(* of events to workers that HFTServer allows, and more.                   *)
(***************************************************************************)
EXTENDS SharedBuffer

VARIABLES
    conn,         \* conn[w]: the connection worker w serves
    service       \* service[w]: the service that services_.find() returned

serverVars == <<conn, service>>

Orders == {"ORDER_NEW", "ORDER_CANCEL", "ORDER_REPLACE"}
Types == Orders \cup {"MARKET_DATA", "HEARTBEAT"}

\* What message_type at the start of the buffer reads as.  Bytes from the
\* middle of a message read as anything.
TypeRead ==
    IF buffer[1][3] = 1 THEN {Kind[buffer[1][1]][buffer[1][2]]} ELSE Types

\* sizeof(OrderMessage) = 1120 and sizeof(MarketDataMessage) = 1152 are more
\* than the sizeof(Message) = 1064 that clients write of either.
Needed(type) == IF type \in Orders \cup {"MARKET_DATA"} THEN 3 ELSE 2

\* services_, as main() fills it.
Registered(type) ==
    IF type \in Orders THEN "orders" ELSE IF type = "MARKET_DATA" THEN "quotes" ELSE "none"

-----------------------------------------------------------------------------
(* handle_client_events                                                    *)

TakeEvent(w, p) ==
    /\ in[p] # <<>> \/ peer[p] \in {"fin", "err"}
    /\ Step(w, "idle", "recv")
    /\ conn' = [conn EXCEPT ![w] = p]
    /\ UNCHANGED <<netVars, sharedVars, service>>

ServerRecv(w) ==
    /\ Step(w, "recv", "frame")
    /\ RecvInto(w, conn[w])
    /\ UNCHANGED <<offset, written, edge, count, bytes, handled, serverVars>>

\* The function returns, and its variables are gone.
ReturnToWait(w) ==
    /\ Step(w, "recv", "idle")
    /\ conn' = [conn EXCEPT ![w] = Remote]
    /\ service' = [service EXCEPT ![w] = "none"]
    /\ got' = [got EXCEPT ![w] = 0]
    /\ UNCHANGED <<buffer, offset, written, edge, count, bytes, handled, overlap>>

\* EAGAIN, or EBADF once another worker has closed the descriptor.
ServerRecvNothing(w) ==
    /\ NothingYet(conn[w]) \/ peer[conn[w]] = "closed"
    /\ ReturnToWait(w)
    /\ UNCHANGED netVars

\* Any other error: the connection stays.
ServerRecvFails(w) == SysRecvError(conn[w]) /\ ReturnToWait(w)

ServerRecvEof(w) == AtEof(conn[w]) /\ SysClose(conn[w]) /\ ReturnToWait(w)

\* One message per recv(): what follows it is dropped, and what is too short
\* for its type is dropped too.
Frame(w) ==
    /\ pc[w] = "frame"
    /\ \E type \in TypeRead :
        Step(w, "frame", IF got[w] >= 2 /\ got[w] >= Needed(type) THEN "find" ELSE "recv")
    /\ UNCHANGED <<netVars, sharedVars, serverVars>>

-----------------------------------------------------------------------------
(* process_client_message, whose three overloads differ in what they log   *)

\* msg.message_type is read from the buffer again.
FindService(w) ==
    /\ pc[w] = "find"
    /\ \E type \in TypeRead :
        /\ Step(w, "find", IF Registered(type) = "none" THEN "update" ELSE "serve")
        /\ service' = [service EXCEPT ![w] = Registered(type)]
    /\ UNCHANGED <<netVars, sharedVars, conn>>

\* process_message of the service reads message_type once more, and does
\* nothing when it is not one of its own.  payload_size passes its test in
\* every order and quote a client writes, and may or may not in bytes from the
\* middle of a message.
Serve(w) ==
    /\ Step(w, "serve", "update")
    /\ \/ service[w] \in {Registered(type) : type \in TypeRead} /\ Handle(w, conn[w], 0)
       \/ /\ buffer[1][3] = 2 \/ service[w] \notin {Registered(type) : type \in TypeRead}
          /\ UNCHANGED handled
    /\ UNCHANGED <<netVars, buffer, got, offset, written, edge, count, bytes, overlap, serverVars>>

\* Fault: every Message's worth that was received is counted at once.
UpdateStatsRounded(w) ==
    /\ Step(w, "update", "recv")
    /\ count' = count + (got[w] + 1) \div 2
    /\ UNCHANGED <<netVars, buffer, got, offset, written, edge, bytes, handled, overlap, serverVars>>

UpdateStats(w) ==
    /\ Step(w, "update", "recv")
    /\ count' = count + 1
    /\ UNCHANGED <<netVars, buffer, got, offset, written, edge, bytes, handled, overlap, serverVars>>

WorkerStep(w) ==
    \/ \E p \in Peers : TakeEvent(w, p)
    \/ ServerRecv(w) \/ ServerRecvNothing(w) \/ ServerRecvFails(w) \/ ServerRecvEof(w)
    \/ Frame(w) \/ FindService(w) \/ Serve(w) \/ UpdateStats(w)
=============================================================================
