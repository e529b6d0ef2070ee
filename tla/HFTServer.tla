----------------------------- MODULE HFTServer -----------------------------
(***************************************************************************)
(* HFTServer (src/inc/hft_server.h, src/src/hft_server.cpp) between the    *)
(* end of start() and the end of stop(): the worker threads that share one *)
(* epoll instance, the connection map, the Connection objects on the heap, *)
(* and the thread that calls stop().                                       *)
(*                                                                         *)
(* A step is what one thread does between two points where another thread *)
(* can be seen: a system call, a lock_guard section, a read of running_ or *)
(* of a Connection.  Message contents are left to other modules: here a    *)
(* recv() that returns data is a step of the loop and nothing more.        *)
(*                                                                         *)
(* Definitions marked "Fault" are not part of the specification: they are  *)
(* the next definition with a bug that some property has to catch.         *)
(***************************************************************************)
EXTENDS Sockets

CONSTANTS
    Workers       \* the threads of worker_threads_

VARIABLES
    running,      \* running_
    connections,  \* connections_: descriptor -> owned Connection, NoConn if absent
    live,         \* the Connection objects that are allocated
    connFd,       \* Connection::fd; kept when the object is freed
    total,        \* stats_.total_connections
    peak,         \* stats_.peak_connections
    wpc,          \* where each worker is
    batch,        \* events of its epoll_wait() the worker has not handled yet
    wfd,          \* client_fd of the worker's current call
    wconn,        \* conn of the worker's current call
    spc           \* where the thread in stop() is

server == <<running, connections, live, connFd, total, peak>>
vars == <<peer, unread, sent, backlog, listening, fdTable, interest, ready,
          running, connections, live, connFd, total, peak,
          wpc, batch, wfd, wconn, spc>>

WorkerStates == {"loop", "wait", "next", "add", "insert", "lookup", "recv",
                 "del", "close", "erase", "exited"}
StopStates == {"idle", "closeListener", "join", "closeEpoll", "closeConns", "stopped"}

TypeOK ==
    /\ SocketsTypeOK
    /\ running \in BOOLEAN
    /\ connections \in [Fds -> Conns \cup {NoConn}]
    /\ live \in SUBSET Conns
    /\ connFd \in [Conns -> Fds \cup {NoFd}]
    /\ total \in Nat
    /\ peak \in Nat
    /\ wpc \in [Workers -> WorkerStates]
    /\ batch \in [Workers -> SUBSET ((Fds \cup {NoFd}) \X (Conns \cup {NoConn}))]
    /\ wfd \in [Workers -> Fds \cup {NoFd}]
    /\ wconn \in [Workers -> Conns \cup {NoConn}]
    /\ spc \in StopStates

\* start() has returned; a thread that has not been scheduled yet cannot be
\* told from one that has not been created yet.
Init ==
    /\ SocketsInit
    /\ running = TRUE
    /\ connections = [f \in Fds |-> NoConn]
    /\ live = {}
    /\ connFd = [c \in Conns |-> NoFd]
    /\ total = 0
    /\ peak = 0
    /\ wpc = [w \in Workers |-> "loop"]
    /\ batch = [w \in Workers |-> {}]
    /\ wfd = [w \in Workers |-> NoFd]
    /\ wconn = [w \in Workers |-> NoConn]
    /\ spc = "idle"

-----------------------------------------------------------------------------
Registered == {f \in Fds : connections[f] # NoConn}

\* Reading fd through a pointer: a freed object yields its old contents or
\* what the allocator wrote over them, which is no descriptor.
FdThrough(c) ==
    IF c \in live THEN {connFd[c]}
    ELSE IF c \in Conns THEN {connFd[c], NoFd} ELSE {NoFd}

Goto(w, label) == wpc' = [wpc EXCEPT ![w] = label]

\* The current call returns to worker_thread, which goes on with its events.
Return(w) ==
    /\ Goto(w, IF batch[w] = {} THEN "loop" ELSE "next")
    /\ wfd' = [wfd EXCEPT ![w] = NoFd]
    /\ wconn' = [wconn EXCEPT ![w] = NoConn]

-----------------------------------------------------------------------------
(* worker_thread                                                           *)

\* Fault: the loop is while (true).
ReadRunningIgnored(w) ==
    /\ wpc[w] = "loop"
    /\ Goto(w, "wait")
    /\ SocketsUnchanged
    /\ UNCHANGED <<server, batch, wfd, wconn, spc>>

ReadRunning(w) ==
    /\ wpc[w] = "loop"
    /\ Goto(w, IF running THEN "wait" ELSE "exited")
    /\ SocketsUnchanged
    /\ UNCHANGED <<server, batch, wfd, wconn, spc>>

\* epoll_wait() returns everything pending (MAX_EVENTS is never reached);
\* with nothing pending it times out after a millisecond.
WaitEvents(w) ==
    /\ wpc[w] = "wait"
    /\ batch' = [batch EXCEPT ![w] = PendingEvents]
    /\ Goto(w, IF PendingEvents = {} THEN "loop" ELSE "next")
    /\ SysWait
    /\ UNCHANGED <<server, wfd, wconn, spc>>

\* An event of a client: its Connection is read for the descriptor.
TakeClient(w, e) ==
    /\ wpc[w] = "next"
    /\ e \in batch[w]
    /\ e[2] # NoConn
    /\ \E f \in FdThrough(e[2]) : wfd' = [wfd EXCEPT ![w] = f]
    /\ batch' = [batch EXCEPT ![w] = @ \ {e}]
    /\ Goto(w, "lookup")
    /\ SocketsUnchanged
    /\ UNCHANGED <<server, wconn, spc>>

-----------------------------------------------------------------------------
(* accept_connections                                                      *)

Accept(w, p, f) ==
    /\ wpc[w] = "next"
    /\ ListenerEvent \in batch[w]
    /\ SysAccept(p, f)
    /\ batch' = [batch EXCEPT ![w] = @ \ {ListenerEvent}]
    /\ wfd' = [wfd EXCEPT ![w] = f]
    /\ Goto(w, "add")
    /\ UNCHANGED <<server, wconn, spc>>

\* accept() = -1: another worker was first (EAGAIN), no descriptor is left
\* (EMFILE), or stop() has closed the socket (EBADF).
AcceptFails(w) ==
    /\ wpc[w] = "next"
    /\ ListenerEvent \in batch[w]
    /\ backlog = {} \/ \A f \in Fds : Open(f)
    /\ batch' = [batch EXCEPT ![w] = @ \ {ListenerEvent}]
    /\ Goto(w, IF batch'[w] = {} THEN "loop" ELSE "next")
    /\ SocketsUnchanged
    /\ UNCHANGED <<server, wfd, wconn, spc>>

\* make_unique<Connection> and EPOLL_CTL_ADD.
AddToEpoll(w, c) ==
    /\ wpc[w] = "add"
    /\ c \in Conns \ live
    /\ live' = live \cup {c}
    /\ connFd' = [connFd EXCEPT ![c] = wfd[w]]
    /\ wconn' = [wconn EXCEPT ![w] = c]
    /\ SysAdd(wfd[w], c)
    /\ Goto(w, "insert")
    /\ UNCHANGED <<running, connections, total, peak, batch, wfd, spc>>

\* EPOLL_CTL_ADD = -1 (EBADF, EEXIST, or no memory or watches left): the
\* socket is closed and the Connection dies with its unique_ptr.
AddToEpollFails(w) ==
    /\ wpc[w] = "add"
    /\ SysClose({wfd[w]})
    /\ Return(w)
    /\ UNCHANGED <<server, batch, spc>>

\* Fault: connections_ holds plain pointers, and the replaced object is lost.
StoreRawPointer(w) ==
    /\ wpc[w] = "insert"
    /\ connections' = [connections EXCEPT ![wfd[w]] = wconn[w]]
    /\ total' = total + 1
    /\ LET size == Cardinality(Registered \cup {wfd[w]})
       IN  peak' = IF size > peak THEN size ELSE peak
    /\ Return(w)
    /\ SocketsUnchanged
    /\ UNCHANGED <<running, live, connFd, batch, spc>>

\* Fault: the size is read before the connection is stored.
StoreAfterPeak(w) ==
    /\ wpc[w] = "insert"
    /\ connections' = [connections EXCEPT ![wfd[w]] = wconn[w]]
    /\ live' = live \ {connections[wfd[w]]}
    /\ total' = total + 1
    /\ LET size == Cardinality(Registered)
       IN  peak' = IF size > peak THEN size ELSE peak
    /\ Return(w)
    /\ SocketsUnchanged
    /\ UNCHANGED <<running, connFd, batch, spc>>

\* The locked section: an entry already there is replaced and freed.
StoreConnection(w) ==
    /\ wpc[w] = "insert"
    /\ connections' = [connections EXCEPT ![wfd[w]] = wconn[w]]
    /\ live' = live \ {connections[wfd[w]]}
    /\ total' = total + 1
    /\ LET size == Cardinality(Registered \cup {wfd[w]})
       IN  peak' = IF size > peak THEN size ELSE peak
    /\ Return(w)
    /\ SocketsUnchanged
    /\ UNCHANGED <<running, connFd, batch, spc>>

-----------------------------------------------------------------------------
(* handle_client_events                                                    *)

Lookup(w) ==
    /\ wpc[w] = "lookup"
    /\ wfd[w] \in Registered
    /\ wconn' = [wconn EXCEPT ![w] = connections[wfd[w]]]
    /\ Goto(w, "recv")
    /\ SocketsUnchanged
    /\ UNCHANGED <<server, batch, wfd, spc>>

LookupFails(w) ==
    /\ wpc[w] = "lookup"
    /\ wfd[w] \notin Registered
    /\ Return(w)
    /\ SocketsUnchanged
    /\ UNCHANGED <<server, batch, spc>>

\* Fault: one recv() per event.
RecvOnce(w) ==
    /\ wpc[w] = "recv"
    /\ Open(wfd[w])
    /\ SysRecvData(fdTable[wfd[w]])
    /\ Return(w)
    /\ UNCHANGED <<server, batch, spc>>

RecvData(w) ==
    /\ wpc[w] = "recv"
    /\ Open(wfd[w])
    /\ SysRecvData(fdTable[wfd[w]])
    /\ UNCHANGED <<server, wpc, batch, wfd, wconn, spc>>

\* Fault: EAGAIN is taken for a disconnection.
RecvAgainCloses(w) ==
    /\ wpc[w] = "recv"
    /\ Open(wfd[w])
    /\ ~Readable(fdTable[wfd[w]])
    /\ Goto(w, "del")
    /\ SocketsUnchanged
    /\ UNCHANGED <<server, batch, wfd, wconn, spc>>

\* EAGAIN: the loop ends.
RecvAgain(w) ==
    /\ wpc[w] = "recv"
    /\ Open(wfd[w])
    /\ ~Readable(fdTable[wfd[w]])
    /\ Return(w)
    /\ SocketsUnchanged
    /\ UNCHANGED <<server, batch, spc>>

\* Any other error returns without close_connection: a reset connection, or
\* a descriptor that another thread has closed (EBADF).
RecvFails(w) ==
    /\ wpc[w] = "recv"
    /\ IF Open(wfd[w]) THEN SysRecvReset(fdTable[wfd[w]]) ELSE SocketsUnchanged
    /\ Return(w)
    /\ UNCHANGED <<server, batch, spc>>

\* Fault: the end of the stream is taken for "no more data".
RecvEofIgnored(w) ==
    /\ wpc[w] = "recv"
    /\ Open(wfd[w])
    /\ unread[fdTable[wfd[w]]] = 0
    /\ peer[fdTable[wfd[w]]] \in {"fin", "err"}
    /\ Return(w)
    /\ SocketsUnchanged
    /\ UNCHANGED <<server, batch, spc>>

\* recv() = 0.
RecvEof(w) ==
    /\ wpc[w] = "recv"
    /\ Open(wfd[w])
    /\ unread[fdTable[wfd[w]]] = 0
    /\ peer[fdTable[wfd[w]]] \in {"fin", "err"}
    /\ Goto(w, "del")
    /\ SocketsUnchanged
    /\ UNCHANGED <<server, batch, wfd, wconn, spc>>

-----------------------------------------------------------------------------
(* close_connection, which reads conn.fd before each of its three calls    *)

CloseDel(w) ==
    /\ wpc[w] = "del"
    /\ \E f \in FdThrough(wconn[w]) : SysDel(f)
    /\ Goto(w, "close")
    /\ UNCHANGED <<server, batch, wfd, wconn, spc>>

\* Fault: the descriptor is left to the Connection, which has no destructor.
CloseFdForgotten(w) ==
    /\ wpc[w] = "close"
    /\ Goto(w, "erase")
    /\ SocketsUnchanged
    /\ UNCHANGED <<server, batch, wfd, wconn, spc>>

CloseFd(w) ==
    /\ wpc[w] = "close"
    /\ \E f \in FdThrough(wconn[w]) : SysClose({f})
    /\ Goto(w, "erase")
    /\ UNCHANGED <<server, batch, wfd, wconn, spc>>

\* Fault: no return after close_connection().
CloseEraseGoesOn(w) ==
    /\ wpc[w] = "erase"
    /\ \E f \in FdThrough(wconn[w]) :
        /\ live' = live \ {connections[g] : g \in Registered \cap {f}}
        /\ connections' = [g \in Fds |-> IF g = f THEN NoConn ELSE connections[g]]
    /\ Goto(w, "recv")
    /\ SocketsUnchanged
    /\ UNCHANGED <<running, connFd, total, peak, batch, wfd, wconn, spc>>

\* Fault: each close_connection() counts one connection less.
CloseEraseCounts(w) ==
    /\ wpc[w] = "erase"
    /\ \E f \in FdThrough(wconn[w]) :
        /\ live' = live \ {connections[g] : g \in Registered \cap {f}}
        /\ connections' = [g \in Fds |-> IF g = f THEN NoConn ELSE connections[g]]
    /\ total' = total - 1
    /\ Return(w)
    /\ SocketsUnchanged
    /\ UNCHANGED <<running, connFd, peak, batch, spc>>

CloseErase(w) ==
    /\ wpc[w] = "erase"
    /\ \E f \in FdThrough(wconn[w]) :
        /\ live' = live \ {connections[g] : g \in Registered \cap {f}}
        /\ connections' = [g \in Fds |-> IF g = f THEN NoConn ELSE connections[g]]
    /\ Return(w)
    /\ SocketsUnchanged
    /\ UNCHANGED <<running, connFd, total, peak, batch, spc>>

WorkerStep(w) ==
    \/ ReadRunning(w)
    \/ WaitEvents(w)
    \/ \E e \in batch[w] : TakeClient(w, e)
    \/ \E p \in backlog, f \in Fds : Accept(w, p, f)
    \/ AcceptFails(w)
    \/ \E c \in Conns : AddToEpoll(w, c)
    \/ AddToEpollFails(w)
    \/ StoreConnection(w)
    \/ Lookup(w)
    \/ LookupFails(w)
    \/ RecvData(w)
    \/ RecvAgain(w)
    \/ RecvFails(w)
    \/ RecvEof(w)
    \/ CloseDel(w)
    \/ CloseFd(w)
    \/ CloseErase(w)

-----------------------------------------------------------------------------
(* stop()                                                                  *)

StopBegins ==
    /\ spc = "idle"
    /\ running
    /\ running' = FALSE
    /\ spc' = "closeListener"
    /\ SocketsUnchanged
    /\ UNCHANGED <<connections, live, connFd, total, peak, wpc, batch, wfd, wconn>>

StopClosesListener ==
    /\ spc = "closeListener"
    /\ SysCloseListener
    /\ spc' = "join"
    /\ UNCHANGED <<server, wpc, batch, wfd, wconn>>

\* Fault: the threads are detached.
StopDetaches ==
    /\ spc = "join"
    /\ spc' = "closeEpoll"
    /\ SocketsUnchanged
    /\ UNCHANGED <<server, wpc, batch, wfd, wconn>>

StopJoins ==
    /\ spc = "join"
    /\ \A w \in Workers : wpc[w] = "exited"
    /\ spc' = "closeEpoll"
    /\ SocketsUnchanged
    /\ UNCHANGED <<server, wpc, batch, wfd, wconn>>

StopClosesEpoll ==
    /\ spc = "closeEpoll"
    /\ interest' = [f \in Fds |-> NoConn]
    /\ ready' = {}
    /\ spc' = "closeConns"
    /\ UNCHANGED <<peer, unread, sent, backlog, listening, fdTable>>
    /\ UNCHANGED <<server, wpc, batch, wfd, wconn>>

\* Fault: the map is cleared and no socket is closed.
StopClearsOnly ==
    /\ spc = "closeConns"
    /\ live' = live \ {connections[f] : f \in Registered}
    /\ connections' = [f \in Fds |-> NoConn]
    /\ spc' = "stopped"
    /\ SocketsUnchanged
    /\ UNCHANGED <<running, connFd, total, peak, wpc, batch, wfd, wconn>>

\* The locked section: every connection in the map is closed and freed.
StopClosesConnections ==
    /\ spc = "closeConns"
    /\ SysClose({connFd[connections[f]] : f \in Registered})
    /\ live' = live \ {connections[f] : f \in Registered}
    /\ connections' = [f \in Fds |-> NoConn]
    /\ spc' = "stopped"
    /\ UNCHANGED <<running, connFd, total, peak, wpc, batch, wfd, wconn>>

StopStep ==
    \/ StopClosesListener
    \/ StopJoins
    \/ StopClosesEpoll
    \/ StopClosesConnections

\* stop() has returned and nothing is left to do.
Finished == spc = "stopped" /\ UNCHANGED vars

\* What the clients do leaves the server's memory alone.
ClientStep == PeerStep /\ UNCHANGED <<server, wpc, batch, wfd, wconn, spc>>

Next ==
    \/ ClientStep
    \/ \E w \in Workers : WorkerStep(w)
    \/ StopBegins
    \/ StopStep
    \/ Finished

Spec == Init /\ [][Next]_vars

\* The operating system runs every thread; clients owe the server nothing and
\* nobody has to call stop().
FairSpec ==
    /\ Spec
    /\ \A w \in Workers : WF_vars(WorkerStep(w))
    /\ WF_vars(StopStep)

-----------------------------------------------------------------------------
(* Properties for any number of workers                                    *)

\* c belongs to the unique_ptr of a worker in accept_connections.
HeldBy(w, c) == wpc[w] = "insert" /\ wconn[w] = c

\* A map entry is an allocated Connection and sits under its own descriptor.
EntriesOwned ==
    \A f \in Registered : connections[f] \in live /\ connFd[connections[f]] = f

\* An accepting worker's Connection is allocated, is the worker's alone and is
\* in no map entry yet.
HeldOwned ==
    \A w \in Workers : wpc[w] = "insert" =>
        /\ wconn[w] \in live
        /\ wfd[w] \in Fds
        /\ connFd[wconn[w]] = wfd[w]
        /\ \A f \in Registered : connections[f] # wconn[w]
        /\ \A v \in Workers : HeldBy(v, wconn[w]) => v = w

\* An allocated Connection is in the map or held.
NothingLeaks ==
    \A c \in live :
        \/ \E f \in Registered : connections[f] = c
        \/ \E w \in Workers : HeldBy(w, c)

\* Whatever the interleaving of accept_connections and close_connection, every
\* Connection has one owner, one map entry or one accepting worker, and the
\* entry it sits in is that of its own descriptor: nothing leaks and nothing
\* is freed twice.
OneOwner == EntriesOwned /\ HeldOwned /\ NothingLeaks

\* After stop() no Connection object is left on the heap.
StopFreesAll == spc = "stopped" => live = {}

\* The two connection counters main() prints bracket the map's size.
PeakBound == Cardinality(Registered) <= peak /\ peak <= total

\* stop() returns: the workers it joins notice running_ whatever clients do.
StopReturns == spc # "idle" ~> spc = "stopped"

-----------------------------------------------------------------------------
(* Properties that need handlers not to overlap: one worker                *)

\* No thread reads a Connection that has been freed: the events a worker still
\* has to handle and the one it handles point to allocated objects.
NoDangling ==
    \A w \in Workers :
        /\ \A e \in batch[w] : e[2] = NoConn \/ e[2] \in live
        /\ wpc[w] \in {"recv", "del", "close", "erase"} => wconn[w] \in live

\* The map and the descriptor table agree, except for the descriptor a worker
\* is registering or closing at the moment.
TableAgrees ==
    \A f \in Fds :
        \/ Open(f) <=> f \in Registered
        \/ \E w \in Workers :
            \/ wpc[w] \in {"add", "insert"} /\ wfd[w] = f
            \/ wpc[w] = "erase" /\ connFd[wconn[w]] = f

\* Worker w will still call recv() on f, or close it, on its way.
WillServe(w, f) ==
    \/ \E e \in batch[w] : e[1] = f
    \/ wpc[w] \in {"lookup", "recv", "del", "close"} /\ wfd[w] = f

\* An edge-triggered event is reported once, so whoever takes it has to act on
\* it: a watched socket that is readable is on the ready list or in the hands
\* of a worker (handle_client_events, "Process all available data").  A
\* connection whose reset was reported by recv() is left alone, as the code
\* leaves it.
NoMissedEdge ==
    \A f \in Fds :
        interest[f] # NoConn /\ Readable(fdTable[f]) /\ peer[fdTable[f]] # "err" =>
            f \in ready \/ \E w \in Workers : WillServe(w, f)

\* A client's connection is closed only after the client closed its end and
\* all of its data was read ("Client disconnected"), when it could not be
\* registered, or by stop().
OnlyDisconnectedClosed ==
    [][\A f \in Fds :
        Open(f) /\ fdTable'[f] # fdTable[f] =>
            \/ spc = "closeConns"
            \/ \E w \in Workers : wpc[w] = "add" /\ wfd[w] = f
            \/ peer[fdTable[f]] \in {"fin", "err"} /\ unread[fdTable[f]] = 0]_vars

\* After stop() no accepted socket is left open ("Close all client
\* connections").
StopClosesAll == spc = "stopped" => \A f \in Fds : ~Open(f)

\* Data of a client that epoll watches is read in the end, or the connection
\* is closed ("Process all available data from the client").
DataIsRead ==
    \A p \in Peers : unread[p] > 0 /\ Watching(p) # {} ~> unread[p] = 0

\* A client that closes its end while the server runs is noticed: its
\* descriptor is given back.
EofIsNoticed ==
    \A p \in Peers : peer[p] = "fin" /\ Watching(p) # {} ~> peer[p] = "gone"

-----------------------------------------------------------------------------
(* The abstract specification                                              *)

\* The worker that is registering descriptor f.
Registering(f) == \E w \in Workers : wpc[w] \in {"add", "insert"} /\ wfd[w] = f

SessionOf(p) ==
    IF p \in backlog THEN "waiting"
    ELSE IF \E f \in Fds : fdTable[f] = p /\ Registering(f) THEN "new"
    ELSE IF \E f \in Fds : fdTable[f] = p THEN "held"
    ELSE IF peer[p] = "gone" THEN "over" ELSE "none"

Sessions == INSTANCE ClientSessions WITH
    Clients <- Peers,
    session <- [p \in Peers |-> SessionOf(p)],
    ended <- {p \in Peers : peer[p] \in {"fin", "rst", "err"}},
    server <- IF spc = "stopped" THEN "down" ELSE IF listening THEN "up" ELSE "closing"

\* The server implements ClientSessions.
SessionsImplemented == Sessions!Spec
=============================================================================
