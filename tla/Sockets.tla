------------------------------ MODULE Sockets ------------------------------
(***************************************************************************)
(* The kernel objects the server works with: TCP connections made by the   *)
(* clients, the accept queue, the file descriptor table and one epoll      *)
(* instance.  None of this is code of the repository; it is modelled from  *)
(* the calls src/src/hft_server.cpp makes (accept, recv, close, epoll_ctl, *)
(* epoll_wait) and the flags it passes (EPOLLIN | EPOLLET, MSG_DONTWAIT).  *)
(*                                                                         *)
(* A peer stands for one TCP connection, from the client's connect() to    *)
(* the server's close(): a client that comes back is another peer.  Data   *)
(* is counted in units of one recv().                                      *)
(***************************************************************************)
EXTENDS Integers, FiniteSets

CONSTANTS
    Peers,        \* the TCP connections clients make
    Fds,          \* descriptors open() may hand out for accepted sockets
    Conns,        \* heap addresses a Connection object can have
    NoPeer,       \* the descriptor is not open
    NoConn,       \* the null pointer
    MaxData,      \* bound: recv() units one peer sends
    Resettable    \* peers that may end with RST instead of FIN

NoFd == -1

ASSUME PeersAssumption == NoPeer \notin Peers /\ Resettable \subseteq Peers
ASSUME FdsAssumption   == Fds \subseteq Nat /\ IsFiniteSet(Fds)
ASSUME ConnsAssumption == NoConn \notin Conns
ASSUME DataAssumption  == MaxData \in Nat

VARIABLES
    peer,         \* peer[p]: state of the TCP connection
    unread,       \* unread[p]: units in the server's receive buffer
    sent,         \* sent[p]: units the client has sent so far
    backlog,      \* established connections not yet accepted
    listening,    \* the listening socket is open
    fdTable,      \* fdTable[f]: the connection descriptor f refers to
    interest,     \* interest[f]: data.ptr of f's epoll entry, NoConn if none
    ready         \* the epoll ready list, as the set of its descriptors

PeerStates == {"idle", "open", "fin", "rst", "err", "gone"}

SocketsTypeOK ==
    /\ peer \in [Peers -> PeerStates]
    /\ unread \in [Peers -> Nat]
    /\ sent \in [Peers -> Nat]
    /\ backlog \in SUBSET Peers
    /\ listening \in BOOLEAN
    /\ fdTable \in [Fds -> Peers \cup {NoPeer}]
    /\ interest \in [Fds -> Conns \cup {NoConn}]
    /\ ready \in SUBSET Fds

SocketsInit ==
    /\ peer = [p \in Peers |-> "idle"]
    /\ unread = [p \in Peers |-> 0]
    /\ sent = [p \in Peers |-> 0]
    /\ backlog = {}
    /\ listening = TRUE
    /\ fdTable = [f \in Fds |-> NoPeer]
    /\ interest = [f \in Fds |-> NoConn]
    /\ ready = {}

-----------------------------------------------------------------------------
Open(f) == f \in Fds /\ fdTable[f] # NoPeer

\* recv() on p's socket would not block: data, end of stream or an error.
Readable(p) == unread[p] > 0 \/ peer[p] \in {"fin", "rst", "err"}

\* The entry of the lowest free descriptor, the one accept() hands out.
LowestFree(f) ==
    /\ ~Open(f)
    /\ \A g \in Fds : ~Open(g) => f <= g

\* Descriptors of p that epoll watches: an event on p puts them on the list.
Watching(p) == {f \in Fds : fdTable[f] = p /\ interest[f] # NoConn}

-----------------------------------------------------------------------------
(* The clients.                                                            *)

PeerConnect(p) ==
    /\ listening
    /\ peer[p] = "idle"
    /\ peer' = [peer EXCEPT ![p] = "open"]
    /\ backlog' = backlog \cup {p}
    /\ UNCHANGED <<unread, sent, listening, fdTable, interest, ready>>

PeerSend(p) ==
    /\ peer[p] = "open"
    /\ sent[p] < MaxData
    /\ sent' = [sent EXCEPT ![p] = @ + 1]
    /\ unread' = [unread EXCEPT ![p] = @ + 1]
    /\ ready' = ready \cup Watching(p)
    /\ UNCHANGED <<peer, backlog, listening, fdTable, interest>>

PeerClose(p) ==
    /\ peer[p] = "open"
    /\ peer' = [peer EXCEPT ![p] = "fin"]
    /\ ready' = ready \cup Watching(p)
    /\ UNCHANGED <<unread, sent, backlog, listening, fdTable, interest>>

\* A reset throws the unread data away; the first recv() reports it.
PeerReset(p) ==
    /\ p \in Resettable
    /\ peer[p] = "open"
    /\ peer' = [peer EXCEPT ![p] = "rst"]
    /\ unread' = [unread EXCEPT ![p] = 0]
    /\ ready' = ready \cup Watching(p)
    /\ UNCHANGED <<sent, backlog, listening, fdTable, interest>>

PeerStep ==
    \E p \in Peers : PeerConnect(p) \/ PeerSend(p) \/ PeerClose(p) \/ PeerReset(p)

-----------------------------------------------------------------------------
(* The system calls.  Each one says what happens to all of the kernel's    *)
(* variables, so that an action of the server is a call and a change of    *)
(* the server's own state.                                                 *)

SocketsUnchanged ==
    UNCHANGED <<peer, unread, sent, backlog, listening, fdTable, interest, ready>>

SysAccept(p, f) ==
    /\ p \in backlog
    /\ LowestFree(f)
    /\ backlog' = backlog \ {p}
    /\ fdTable' = [fdTable EXCEPT ![f] = p]
    /\ UNCHANGED <<peer, unread, sent, listening, interest, ready>>

\* EPOLL_CTL_ADD, edge-triggered: what is readable already is reported once.
SysAdd(f, c) ==
    /\ Open(f)
    /\ interest[f] = NoConn
    /\ interest' = [interest EXCEPT ![f] = c]
    /\ ready' = IF Readable(fdTable[f]) THEN ready \cup {f} ELSE ready
    /\ UNCHANGED <<peer, unread, sent, backlog, listening, fdTable>>

\* EPOLL_CTL_DEL; a descriptor that is not open or not watched is an error
\* the caller ignores.
SysDel(f) ==
    /\ interest' = [g \in Fds |-> IF g = f THEN NoConn ELSE interest[g]]
    /\ ready' = ready \ {f}
    /\ UNCHANGED <<peer, unread, sent, backlog, listening, fdTable>>

\* close() of the descriptors in S; those not open give EBADF.  The socket
\* leaves epoll with its last descriptor and its connection is over.
SysClose(S) ==
    LET over == {fdTable[f] : f \in S \cap Fds}
    IN  /\ fdTable' = [f \in Fds |-> IF f \in S THEN NoPeer ELSE fdTable[f]]
        /\ interest' = [f \in Fds |-> IF f \in S THEN NoConn ELSE interest[f]]
        /\ ready' = ready \ S
        /\ peer' = [p \in Peers |-> IF p \in over THEN "gone" ELSE peer[p]]
        /\ unread' = [p \in Peers |-> IF p \in over THEN 0 ELSE unread[p]]
        /\ UNCHANGED <<sent, backlog, listening>>

\* close() of the listening socket: connections waiting there are reset.
SysCloseListener ==
    /\ listening' = FALSE
    /\ backlog' = {}
    /\ peer' = [p \in Peers |-> IF p \in backlog THEN "gone" ELSE peer[p]]
    /\ unread' = [p \in Peers |-> IF p \in backlog THEN 0 ELSE unread[p]]
    /\ UNCHANGED <<sent, fdTable, interest, ready>>

\* What epoll_wait() returns: a pair of the descriptor it is about (which the
\* caller does not see) and data.ptr.  The listening socket is registered
\* level-triggered with a null pointer; the rest of the ready list is drained.
ListenerEvent == <<NoFd, NoConn>>

PendingEvents ==
    {<<f, interest[f]>> : f \in {g \in ready : Readable(fdTable[g])}}
        \cup (IF backlog # {} THEN {ListenerEvent} ELSE {})

SysWait ==
    /\ ready' = {}
    /\ UNCHANGED <<peer, unread, sent, backlog, listening, fdTable, interest>>

\* recv() > 0, one unit taken from the receive buffer.
SysRecvData(p) ==
    /\ unread[p] > 0
    /\ unread' = [unread EXCEPT ![p] = @ - 1]
    /\ UNCHANGED <<peer, sent, backlog, listening, fdTable, interest, ready>>

\* recv() = -1 with ECONNRESET, reported once; after it recv() returns 0.
SysRecvReset(p) ==
    /\ peer[p] = "rst"
    /\ peer' = [peer EXCEPT ![p] = "err"]
    /\ UNCHANGED <<unread, sent, backlog, listening, fdTable, interest, ready>>
=============================================================================
