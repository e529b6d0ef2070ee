---------------------------- MODULE SharedBuffer ----------------------------
(***************************************************************************)
(* HFTServer and HFTTCPClient receive with several threads into one buffer *)
(* (recv_buffer_ of the object) and read the messages out of it later,     *)
(* without a lock.                                                         *)
(***************************************************************************)
EXTENDS Stream

CONSTANTS
    BufferHalves, \* recv_buffer_.size(), in halves of a message
    Kind,         \* Kind[p]: the message types p writes, in order
    MaxWritten    \* bound: MaxWritten[p], the messages p writes

ASSUME BufferAssumption == BufferHalves \in Nat
ASSUME WrittenAssumption == \A p \in Peers : MaxWritten[p] \in 0..Len(Kind[p])

VARIABLES
    buffer,       \* recv_buffer_
    got,          \* got[t]: halves that t's last recv() returned
    offset,       \* offset[t]: where t is in them
    written,      \* written[p]: messages p has written
    edge,         \* the socket has an event the client's epoll has not reported
    count,        \* stats_.total_messages_processed, stats_.messages_received
    bytes,        \* stats_.bytes_received, in halves
    handled,      \* history: handled[p], the messages taken out of recv()s on p, each
                  \* with the size of its recv(), up to the first overlap
    overlap       \* history: some recv() wrote into the buffer while another
                  \* thread was not yet done with it

sharedVars == <<buffer, got, offset, written, edge, count, bytes, handled, overlap>>

SharedProgram == program \in {"server", "client"}

-----------------------------------------------------------------------------
(* The other end                                                           *)

PeerWrites(p) ==
    /\ SharedProgram /\ written[p] < MaxWritten[p]
    /\ Write(p, written[p] + 1)
    /\ written' = [written EXCEPT ![p] = @ + 1]
    /\ edge' = TRUE
    /\ UNCHANGED <<pc, buffer, got, offset, count, bytes, handled, overlap>>

SecondHalf(p) ==
    /\ SharedProgram /\ RestArrives(p)
    /\ edge' = TRUE
    /\ UNCHANGED <<pc, buffer, got, offset, written, count, bytes, handled, overlap>>

\* Bound: one connection ends.
PeerLeaves(p) ==
    /\ SharedProgram /\ \A q \in Peers : peer[q] = "up"
    /\ PeerEnds(p)
    /\ edge' = TRUE
    /\ UNCHANGED <<pc, buffer, got, offset, written, count, bytes, handled, overlap>>

-----------------------------------------------------------------------------
(* The buffer                                                              *)

\* Places in the code between a recv() and the last use of what it returned.
InUse == {"frame", "find", "serve", "count", "deliver", "tally"}

\* recv() on p by thread t: the data replaces the beginning of the buffer.
RecvInto(t, p) ==
    /\ SysRecv(p, BufferHalves)
    /\ buffer' = Received(p, BufferHalves)
                   \o SubSeq(buffer, Available(p, BufferHalves) + 1, Len(buffer))
    /\ got' = [got EXCEPT ![t] = Available(p, BufferHalves)]
    /\ overlap' = (overlap \/ \E u \in Threads \ {t} : pc[u] \in InUse)

\* The message that starts after o halves: <<writer, number>>, and number 0
\* when its two halves are not those of one message.
MessageAt(o) ==
    LET first == buffer[o + 1]
        second == buffer[o + 2]
        whole == second = <<first[1], first[2], 2>> /\ first[3] = 1
    IN  <<first[1], IF whole THEN first[2] ELSE 0>>

\* The message after o halves of what t received on p is handled.
Handle(t, p, o) ==
    handled' = IF overlap THEN handled
               ELSE [handled EXCEPT ![p] = Append(@, MessageAt(o) \o <<got[t]>>)]
=============================================================================
