---------------------------- MODULE MCReceivers -----------------------------
(* Small instances of Receivers for TLC.                                   *)
EXTENDS Receivers

CONSTANTS p1, p2, w1, w2

\* p1 sends an order and a quote and is the one that plays the server for a
\* client; p2 sends a message that needs no second one.
MCKind == [p \in Peers |-> IF p = p1 THEN <<"ORDER_NEW", "MARKET_DATA">> ELSE <<"HEARTBEAT">>]
MCNumMessages == [p \in TripPrograms |-> IF p = "latency" THEN 2 ELSE 3]
MCMaxWritten == [p \in Peers |-> Len(MCKind[p])]
=============================================================================
