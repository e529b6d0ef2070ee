------------------------------- MODULE Stream -------------------------------
(***************************************************************************)
(* TCP connections as a program of the repository sees them: a stream of   *)
(* bytes with no message boundaries, and an end.                           *)
(*                                                                         *)
(* Every program writes whole Messages (1064 bytes).  Here a Message is    *)
(* two halves, so that a recv() can return part of one, exactly one, one   *)
(* and a half, or several: the differences the programs' size tests make.  *)
(* A half is <<writer, number of the message, 1 or 2>>.                    *)
(***************************************************************************)
EXTENDS Integers, Sequences

CONSTANTS
    Peers,        \* the processes at the other end of the connections
    Remote,       \* the one that plays the server when a client program runs
    Workers       \* worker_threads_ of the server

ASSUME RemoteAssumption == Remote \in Peers

VARIABLES
    program,      \* the program that runs: it never changes
    pc,           \* where each of its threads is
    in,           \* in[p]: halves that have arrived from p and nobody has read
    rest,         \* rest[p]: the message whose second half is still on its way, or 0
    peer,         \* "up", "fin" or "err" as p left it; "closed" by the program
    taken,        \* history: halves that recv() has returned
    split         \* history: some recv() stopped in the middle of a message

netVars == <<in, rest, peer, taken, split>>

Threads == Workers \cup {"receive", "epoll", "main", "handler", "receiver"}

\* Thread t goes from one place of its code to another.
Step(t, here, there) == pc[t] = here /\ pc' = [pc EXCEPT ![t] = there]

-----------------------------------------------------------------------------
(* The other end                                                           *)

\* p writes its message n; the second half may take longer.
Write(p, n) ==
    /\ peer[p] = "up" /\ rest[p] = 0
    /\ \/ /\ in' = [in EXCEPT ![p] = @ \o <<<<p, n, 1>>, <<p, n, 2>>>>]
          /\ UNCHANGED rest
       \/ /\ in' = [in EXCEPT ![p] = Append(@, <<p, n, 1>>)]
          /\ rest' = [rest EXCEPT ![p] = n]
    /\ UNCHANGED <<peer, taken, split>>

RestArrives(p) ==
    /\ peer[p] = "up" /\ rest[p] # 0
    /\ in' = [in EXCEPT ![p] = Append(@, <<p, rest[p], 2>>)]
    /\ rest' = [rest EXCEPT ![p] = 0]
    /\ UNCHANGED <<peer, taken, split>>

\* p closes its end, or the connection breaks and loses what was on its way.
PeerEnds(p) ==
    /\ peer[p] = "up"
    /\ \/ rest[p] = 0 /\ peer' = [peer EXCEPT ![p] = "fin"]
       \/ peer' = [peer EXCEPT ![p] = "err"]
    /\ rest' = [rest EXCEPT ![p] = 0]
    /\ UNCHANGED <<in, taken, split>>

-----------------------------------------------------------------------------
(* recv()                                                                  *)

\* How many halves a recv() with room for max returns.
Available(p, max) == IF Len(in[p]) < max THEN Len(in[p]) ELSE max

Received(p, max) == SubSeq(in[p], 1, Available(p, max))

SysRecv(p, max) ==
    /\ peer[p] # "closed" /\ in[p] # <<>>
    /\ in' = [in EXCEPT ![p] = SubSeq(@, Available(p, max) + 1, Len(@))]
    /\ taken' = taken + Available(p, max)
    /\ split' = (split \/ in[p][Available(p, max)][3] = 1)
    /\ UNCHANGED <<rest, peer>>

NothingYet(p) == in[p] = <<>> /\ peer[p] = "up"
AtEof(p) == in[p] = <<>> /\ peer[p] = "fin"

\* The error is reported once, after the data; then the stream is at its end.
SysRecvError(p) ==
    /\ in[p] = <<>> /\ peer[p] = "err"
    /\ peer' = [peer EXCEPT ![p] = "fin"]
    /\ UNCHANGED <<in, rest, taken, split>>

SysClose(p) ==
    /\ peer' = [peer EXCEPT ![p] = "closed"]
    /\ UNCHANGED <<in, rest, taken, split>>
=============================================================================
