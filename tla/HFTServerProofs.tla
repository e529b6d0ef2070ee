-------------------------- MODULE HFTServerProofs --------------------------
(***************************************************************************)
(* Proofs about HFTServer for every number of workers, clients and         *)
(* descriptors.                                                            *)
(***************************************************************************)
EXTENDS HFTServer, FiniteSetTheorems, TLAPS

-----------------------------------------------------------------------------
(* The system calls keep the kernel's variables in their types.            *)

USE DEF NoFd

\* Whatever the clients do, the kernel's state stays well formed.
LEMMA PeerStepType == SocketsTypeOK /\ PeerStep => SocketsTypeOK'
<1> SUFFICES ASSUME SocketsTypeOK, NEW p \in Peers,
                    PeerConnect(p) \/ PeerSend(p) \/ PeerClose(p) \/ PeerReset(p)
             PROVE  SocketsTypeOK'
    BY DEF PeerStep
<1>1. CASE PeerConnect(p)
    BY <1>1 DEF PeerConnect, SocketsTypeOK, PeerStates
<1>2. CASE PeerSend(p)
    BY <1>2 DEF PeerSend, SocketsTypeOK, PeerStates, Watching
<1>3. CASE PeerClose(p)
    BY <1>3 DEF PeerClose, SocketsTypeOK, PeerStates, Watching
<1>4. CASE PeerReset(p)
    BY <1>4 DEF PeerReset, SocketsTypeOK, PeerStates, Watching
<1> QED BY <1>1, <1>2, <1>3, <1>4

\* Closing any set of descriptors leaves the kernel's state well formed.
LEMMA SysCloseType ==
    ASSUME SocketsTypeOK, NEW S, SysClose(S)
    PROVE  SocketsTypeOK'
BY DEF SysClose, SocketsTypeOK, PeerStates

\* A descriptor read through a pointer is in the type of descriptors.
LEMMA FdThroughType ==
    ASSUME TypeOK, NEW c \in Conns \cup {NoConn}
    PROVE  FdThrough(c) \subseteq Fds \cup {NoFd}
BY DEF FdThrough, TypeOK

\* Returning to worker_thread keeps the worker's variables in their types.
LEMMA ReturnType ==
    ASSUME TypeOK, NEW w \in Workers, Return(w)
    PROVE  /\ wpc' \in [Workers -> WorkerStates]
           /\ wfd' \in [Workers -> Fds \cup {NoFd}]
           /\ wconn' \in [Workers -> Conns \cup {NoConn}]
BY DEF Return, Goto, TypeOK, WorkerStates

-----------------------------------------------------------------------------
(* Type correctness                                                        *)

\* Every step of a worker keeps the types.
LEMMA WorkerType ==
    ASSUME TypeOK, NEW w \in Workers, WorkerStep(w)
    PROVE  TypeOK'
<1> USE DEF Goto, WorkerStates
<1>1. CASE ReadRunning(w)
    BY <1>1 DEF ReadRunning, SocketsUnchanged, server, TypeOK, SocketsTypeOK
<1>2. CASE WaitEvents(w)
  <2>1. PendingEvents \subseteq (Fds \cup {NoFd}) \X (Conns \cup {NoConn})
    BY DEF PendingEvents, ListenerEvent, TypeOK, SocketsTypeOK
  <2> QED BY <1>2, <2>1 DEF WaitEvents, SysWait, server, TypeOK, SocketsTypeOK
<1>3. ASSUME NEW e \in batch[w], TakeClient(w, e) PROVE TypeOK'
  <2>1. e[2] \in Conns \cup {NoConn}
    BY DEF TypeOK
  <2>2. FdThrough(e[2]) \subseteq Fds \cup {NoFd}
    BY <2>1, FdThroughType
  <2> QED BY <1>3, <2>2 DEF TakeClient, SocketsUnchanged, server, TypeOK, SocketsTypeOK
<1>4. ASSUME NEW p \in backlog, NEW f \in Fds, Accept(w, p, f) PROVE TypeOK'
    BY <1>4 DEF Accept, SysAccept, server, TypeOK, SocketsTypeOK
<1>5. CASE AcceptFails(w)
    BY <1>5 DEF AcceptFails, SocketsUnchanged, server, TypeOK, SocketsTypeOK
<1>6. ASSUME NEW c \in Conns, AddToEpoll(w, c) PROVE TypeOK'
    BY <1>6 DEF AddToEpoll, SysAdd, Open, TypeOK, SocketsTypeOK
<1>7. CASE AddToEpollFails(w)
    BY <1>7, SysCloseType, ReturnType DEF AddToEpollFails, server, TypeOK
<1>8. CASE StoreConnection(w)
  <2>1. peak' \in Nat
    <3>1. IsFiniteSet(Registered)
        BY FdsAssumption, FS_Subset DEF Registered
    <3>2. Cardinality(Registered \cup {wfd[w]}) \in Nat
        BY <3>1, FS_AddElement, FS_CardinalityType
    <3> QED BY <1>8, <3>2 DEF StoreConnection, TypeOK
  <2>2. SocketsTypeOK'
    BY <1>8 DEF StoreConnection, SocketsUnchanged, TypeOK, SocketsTypeOK
  <2>3. /\ connections' = [connections EXCEPT ![wfd[w]] = wconn[w]]
        /\ live' = live \ {connections[wfd[w]]}
        /\ total' = total + 1
        /\ Return(w)
        /\ UNCHANGED <<running, connFd, batch, spc>>
    BY <1>8 DEF StoreConnection
  <2>4. /\ connections' \in [Fds -> Conns \cup {NoConn}]
        /\ live' \in SUBSET Conns
        /\ total' \in Nat
    <3>1. connections' \in [Fds -> Conns \cup {NoConn}]
        BY <2>3 DEF TypeOK
    <3>2. live' \in SUBSET Conns
        BY <2>3 DEF TypeOK
    <3>3. total' \in Nat
        BY <2>3 DEF TypeOK
    <3> QED BY <3>1, <3>2, <3>3
  <2>5. /\ wpc' \in [Workers -> WorkerStates]
        /\ wfd' \in [Workers -> Fds \cup {NoFd}]
        /\ wconn' \in [Workers -> Conns \cup {NoConn}]
    BY <2>3, ReturnType
  <2> QED BY <2>1, <2>2, <2>3, <2>4, <2>5 DEF TypeOK
<1>9. CASE Lookup(w)
    BY <1>9 DEF Lookup, Registered, SocketsUnchanged, server, TypeOK, SocketsTypeOK
<1>10. CASE LookupFails(w)
    BY <1>10, ReturnType DEF LookupFails, SocketsUnchanged, server, TypeOK, SocketsTypeOK
<1>11. CASE RecvData(w)
  <2>1. fdTable[wfd[w]] \in Peers
    BY <1>11 DEF RecvData, Open, TypeOK, SocketsTypeOK
  <2>2. SocketsTypeOK'
    BY <1>11, <2>1 DEF RecvData, SysRecvData, TypeOK, SocketsTypeOK
  <2> QED BY <1>11, <2>2 DEF RecvData, server, TypeOK
<1>12. CASE RecvAgain(w)
    BY <1>12, ReturnType DEF RecvAgain, SocketsUnchanged, server, TypeOK, SocketsTypeOK
<1>13. CASE RecvFails(w)
  <2>1. SocketsTypeOK'
    BY <1>13 DEF RecvFails, SysRecvReset, SocketsUnchanged, TypeOK, SocketsTypeOK, PeerStates
  <2> QED BY <1>13, <2>1, ReturnType DEF RecvFails, server, TypeOK
<1>14. CASE RecvEof(w)
    BY <1>14 DEF RecvEof, SocketsUnchanged, server, TypeOK, SocketsTypeOK
<1>15. CASE CloseDel(w)
    BY <1>15 DEF CloseDel, SysDel, server, TypeOK, SocketsTypeOK
<1>16. CASE CloseFd(w)
    BY <1>16, SysCloseType DEF CloseFd, server, TypeOK
<1>17. CASE CloseErase(w)
    BY <1>17, ReturnType DEF CloseErase, SocketsUnchanged, TypeOK, SocketsTypeOK
<1> QED
    BY <1>1, <1>2, <1>3, <1>4, <1>5, <1>6, <1>7, <1>8, <1>9, <1>10, <1>11, <1>12,
       <1>13, <1>14, <1>15, <1>16, <1>17 DEF WorkerStep

\* Every step of stop() keeps the types.
LEMMA StopType == TypeOK /\ (StopBegins \/ StopStep) => TypeOK'
<1> SUFFICES ASSUME TypeOK, StopBegins \/ StopStep PROVE TypeOK'
    OBVIOUS
<1> USE DEF StopStates
<1>1. CASE StopBegins
    BY <1>1 DEF StopBegins, SocketsUnchanged, TypeOK, SocketsTypeOK
<1>2. CASE StopClosesListener
    BY <1>2 DEF StopClosesListener, SysCloseListener, server, TypeOK, SocketsTypeOK, PeerStates
<1>3. CASE StopJoins
    BY <1>3 DEF StopJoins, SocketsUnchanged, server, TypeOK, SocketsTypeOK
<1>4. CASE StopClosesEpoll
    BY <1>4 DEF StopClosesEpoll, server, TypeOK, SocketsTypeOK
<1>5. CASE StopClosesConnections
    BY <1>5, SysCloseType DEF StopClosesConnections, TypeOK
<1> QED BY <1>1, <1>2, <1>3, <1>4, <1>5 DEF StopStep

\* TypeOK is inductive.
LEMMA TypeStep == TypeOK /\ [Next]_vars => TypeOK'
<1> SUFFICES ASSUME TypeOK, [Next]_vars PROVE TypeOK'
    OBVIOUS
<1>1. CASE ClientStep
    BY <1>1, PeerStepType DEF ClientStep, server, TypeOK
<1>2. ASSUME NEW w \in Workers, WorkerStep(w) PROVE TypeOK'
    BY <1>2, WorkerType
<1>3. CASE StopBegins \/ StopStep
    BY <1>3, StopType
<1>4. CASE UNCHANGED vars
    BY <1>4 DEF vars, TypeOK, SocketsTypeOK
<1> QED BY <1>1, <1>2, <1>3, <1>4 DEF Next, Finished

\* The initial state has the types.
LEMMA InitType == Init => TypeOK
BY DEF Init, SocketsInit, TypeOK, SocketsTypeOK, PeerStates, WorkerStates, StopStates

\* Every variable of the server and of its kernel keeps its type, in
\* particular a worker's descriptor and pointer and the counters.
THEOREM TypeCorrect == Spec => []TypeOK
<1>1. Init => TypeOK
    BY InitType
<1>2. TypeOK /\ [Next]_vars => TypeOK'
    BY TypeStep
<1> QED BY <1>1, <1>2, PTL DEF Spec

-----------------------------------------------------------------------------
(* Ownership of the Connection objects                                     *)

\* stop() closes the epoll instance and frees the connections only when no
\* worker can touch them any more.
JoinBarrier ==
    spc \in {"closeEpoll", "closeConns", "stopped"} =>
        \A w \in Workers : wpc[w] = "exited"

Ownership == TypeOK /\ JoinBarrier /\ OneOwner /\ StopFreesAll

\* stop() passes its join() once all workers have returned, and a worker that
\* has returned never runs again.
LEMMA JoinStep == TypeOK /\ JoinBarrier /\ [Next]_vars => JoinBarrier'
<1> SUFFICES ASSUME TypeOK, JoinBarrier, [Next]_vars PROVE JoinBarrier'
    OBVIOUS
<1>1. CASE ClientStep
    BY <1>1 DEF ClientStep, JoinBarrier
<1>2. ASSUME NEW w \in Workers, WorkerStep(w) PROVE JoinBarrier'
  <2>1. wpc[w] # "exited"
    BY <1>2 DEF WorkerStep, ReadRunning, WaitEvents, TakeClient, Accept, AcceptFails,
        AddToEpoll, AddToEpollFails, StoreConnection, Lookup, LookupFails, RecvData,
        RecvAgain, RecvFails, RecvEof, CloseDel, CloseFd, CloseErase
  <2>2. spc' = spc
    BY <1>2 DEF WorkerStep, ReadRunning, WaitEvents, TakeClient, Accept, AcceptFails,
        AddToEpoll, AddToEpollFails, StoreConnection, Lookup, LookupFails, RecvData,
        RecvAgain, RecvFails, RecvEof, CloseDel, CloseFd, CloseErase
  <2> QED BY <2>1, <2>2 DEF JoinBarrier
<1>3. CASE StopBegins
    BY <1>3 DEF StopBegins, JoinBarrier
<1>4. CASE StopStep
    BY <1>4 DEF StopStep, StopClosesListener, StopJoins, StopClosesEpoll,
        StopClosesConnections, JoinBarrier
<1>5. CASE UNCHANGED vars
    BY <1>5 DEF vars, JoinBarrier
<1> QED BY <1>1, <1>2, <1>3, <1>4, <1>5 DEF Next, Finished

\* A step that neither allocates nor frees, on either side of which the worker
\* that takes it holds nothing, keeps ownership.
LEMMA QuietStep ==
    ASSUME TypeOK, OneOwner, NEW w \in Workers,
           UNCHANGED <<connections, live, connFd>>,
           wpc[w] # "insert", wpc'[w] # "insert",
           \A v \in Workers \ {w} :
               wpc'[v] = wpc[v] /\ wfd'[v] = wfd[v] /\ wconn'[v] = wconn[v]
    PROVE  OneOwner'
<1>1. EntriesOwned'
    BY DEF OneOwner, EntriesOwned, Registered
<1>2. HeldOwned'
    BY DEF OneOwner, HeldOwned, HeldBy, Registered
<1>3. NothingLeaks'
    BY DEF OneOwner, NothingLeaks, HeldBy, Registered
<1> QED BY <1>1, <1>2, <1>3 DEF OneOwner

\* make_unique hands out an address that nobody owns.
LEMMA AddKeepsOwner ==
    ASSUME TypeOK, OneOwner, NEW w \in Workers, NEW c \in Conns, AddToEpoll(w, c)
    PROVE  OneOwner'
<1>1. /\ wpc[w] = "add"
      /\ c \notin live
      /\ wfd[w] \in Fds
      /\ live' = live \cup {c}
      /\ connFd' = [connFd EXCEPT ![c] = wfd[w]]
      /\ wconn' = [wconn EXCEPT ![w] = c]
      /\ wpc' = [wpc EXCEPT ![w] = "insert"]
      /\ UNCHANGED <<connections, wfd>>
    BY DEF AddToEpoll, SysAdd, Open, Goto
<1>2. \A f \in Registered : connections[f] # c /\ connections[f] \in Conns
    BY <1>1 DEF OneOwner, EntriesOwned, TypeOK, Registered
<1>3. \A v \in Workers : wpc[v] = "insert" => wconn[v] # c /\ wconn[v] \in live
    BY <1>1 DEF OneOwner, HeldOwned
<1>4. EntriesOwned'
    BY <1>1, <1>2 DEF OneOwner, EntriesOwned, Registered, TypeOK
<1>5. HeldOwned'
    BY <1>1, <1>2, <1>3 DEF OneOwner, HeldOwned, HeldBy, Registered, TypeOK
<1>6. NothingLeaks'
    BY <1>1 DEF OneOwner, NothingLeaks, HeldBy, Registered, TypeOK
<1> QED BY <1>4, <1>5, <1>6 DEF OneOwner

\* Storing a Connection gives it from the worker to the map; what it replaces
\* is freed.
LEMMA StoreKeepsOwner ==
    ASSUME TypeOK, OneOwner, NEW w \in Workers, StoreConnection(w)
    PROVE  OneOwner'
<1> DEFINE old == connections[wfd[w]]
<1>1. /\ wpc[w] = "insert"
      /\ connections' = [connections EXCEPT ![wfd[w]] = wconn[w]]
      /\ live' = live \ {old}
      /\ wpc' = [wpc EXCEPT ![w] = IF batch[w] = {} THEN "loop" ELSE "next"]
      /\ wfd' = [wfd EXCEPT ![w] = NoFd]
      /\ wconn' = [wconn EXCEPT ![w] = NoConn]
      /\ UNCHANGED connFd
    BY DEF StoreConnection, Return, Goto
<1>2. /\ wconn[w] \in live
      /\ wconn[w] \in Conns
      /\ wconn[w] # NoConn
      /\ wfd[w] \in Fds
      /\ connFd[wconn[w]] = wfd[w]
      /\ \A f \in Registered : connections[f] # wconn[w]
      /\ \A v \in Workers : wpc[v] = "insert" /\ wconn[v] = wconn[w] => v = w
    BY <1>1, ConnsAssumption DEF OneOwner, HeldOwned, HeldBy, TypeOK
<1>3. old # wconn[w]
    BY <1>2 DEF Registered
<1>4. \A f \in Fds : f # wfd[w] /\ connections[f] # NoConn => connections[f] # old
    BY <1>2 DEF OneOwner, EntriesOwned, Registered
<1>5. \A v \in Workers : wpc[v] = "insert" => wconn[v] # old
    BY <1>2, ConnsAssumption DEF OneOwner, HeldOwned, Registered, TypeOK
<1>6. Registered' = Registered \cup {wfd[w]}
    BY <1>1, <1>2 DEF Registered, TypeOK
<1> HIDE DEF old
<1>7. EntriesOwned'
    BY <1>1, <1>2, <1>3, <1>4, <1>6 DEF OneOwner, EntriesOwned, Registered, TypeOK
<1>8. \A v \in Workers : wpc'[v] = "insert" =>
          v # w /\ wpc[v] = "insert" /\ wconn'[v] = wconn[v] /\ wfd'[v] = wfd[v]
    BY <1>1 DEF TypeOK
<1>9. \A f \in Registered' : connections'[f] = wconn[w] \/ (f \in Registered /\ connections'[f] = connections[f])
    BY <1>1, <1>6 DEF TypeOK, Registered
<1>10. HeldOwned'
    BY <1>1, <1>2, <1>5, <1>8, <1>9 DEF OneOwner, HeldOwned, HeldBy
<1>11. NothingLeaks'
  <2> SUFFICES ASSUME NEW c \in live'
               PROVE  \/ \E f \in Registered' : connections'[f] = c
                      \/ \E v \in Workers : HeldBy(v, c)'
    BY DEF NothingLeaks
  <2>1. c \in live /\ c # old
    BY <1>1
  <2>2. CASE \E f \in Registered : connections[f] = c
    BY <1>1, <1>6, <2>1, <2>2 DEF old, Registered, TypeOK
  <2>3. CASE \E v \in Workers : HeldBy(v, c)
    BY <1>1, <1>2, <1>6, <2>3 DEF HeldBy, Registered, TypeOK
  <2> QED BY <2>1, <2>2, <2>3 DEF OneOwner, NothingLeaks
<1> QED BY <1>7, <1>10, <1>11 DEF OneOwner

\* erase frees what the map owns under that descriptor, and nothing else.
LEMMA EraseKeepsOwner ==
    ASSUME TypeOK, OneOwner, NEW w \in Workers, CloseErase(w)
    PROVE  OneOwner'
<1>1. PICK f \in FdThrough(wconn[w]) :
          /\ live' = live \ {connections[g] : g \in Registered \cap {f}}
          /\ connections' = [g \in Fds |-> IF g = f THEN NoConn ELSE connections[g]]
    BY DEF CloseErase
<1>2. /\ wpc[w] = "erase"
      /\ wpc' = [wpc EXCEPT ![w] = IF batch[w] = {} THEN "loop" ELSE "next"]
      /\ wfd' = [wfd EXCEPT ![w] = NoFd]
      /\ wconn' = [wconn EXCEPT ![w] = NoConn]
      /\ UNCHANGED connFd
    BY DEF CloseErase, Return, Goto
<1>3. Registered' = Registered \ {f}
    BY <1>1 DEF Registered
<1>4. \A g \in Registered' : connections'[g] = connections[g] /\ g \in Registered /\ g # f
    BY <1>1, <1>3 DEF Registered
<1>5. \A g \in Registered' : connections[g] \in live'
    BY <1>1, <1>4 DEF OneOwner, EntriesOwned
<1>6. EntriesOwned'
    BY <1>2, <1>4, <1>5 DEF OneOwner, EntriesOwned
<1>7. \A v \in Workers : wpc'[v] = "insert" =>
          v # w /\ wpc[v] = "insert" /\ wconn'[v] = wconn[v] /\ wfd'[v] = wfd[v]
    BY <1>2 DEF TypeOK
<1>8. \A v \in Workers : wpc[v] = "insert" => wconn[v] \in live'
    BY <1>1 DEF OneOwner, HeldOwned
<1>9. HeldOwned'
    BY <1>2, <1>4, <1>7, <1>8 DEF OneOwner, HeldOwned, HeldBy
<1>10. NothingLeaks'
  <2> SUFFICES ASSUME NEW c \in live'
               PROVE  \/ \E g \in Registered' : connections'[g] = c
                      \/ \E v \in Workers : HeldBy(v, c)'
    BY DEF NothingLeaks
  <2>1. CASE \E g \in Registered : connections[g] = c
    BY <1>1, <1>3, <1>4, <2>1
  <2>2. CASE \E v \in Workers : HeldBy(v, c)
    BY <1>2, <2>2 DEF HeldBy, TypeOK
  <2> QED BY <1>1, <2>1, <2>2 DEF OneOwner, NothingLeaks
<1> QED BY <1>6, <1>9, <1>10 DEF OneOwner

\* No step of a worker gives a Connection two owners or none.
LEMMA WorkerKeepsOwner ==
    ASSUME TypeOK, OneOwner, NEW w \in Workers, WorkerStep(w)
    PROVE  OneOwner'
<1>1. ASSUME NEW c \in Conns, AddToEpoll(w, c) PROVE OneOwner'
    BY <1>1, AddKeepsOwner
<1>2. CASE StoreConnection(w)
    BY <1>2, StoreKeepsOwner
<1>3. CASE CloseErase(w)
    BY <1>3, EraseKeepsOwner
<1> DEFINE Quiet ==
      /\ UNCHANGED <<connections, live, connFd>>
      /\ wpc[w] # "insert"
      /\ wpc'[w] # "insert"
      /\ \A v \in Workers \ {w} :
             wpc'[v] = wpc[v] /\ wfd'[v] = wfd[v] /\ wconn'[v] = wconn[v]
<1>4. Quiet => OneOwner'
    BY QuietStep
<1> USE DEF Goto, Return, server
<1>5. CASE ReadRunning(w)
  <2>1. Quiet
    BY <1>5 DEF ReadRunning, TypeOK
  <2> QED BY <2>1, <1>4
<1>6. CASE WaitEvents(w)
  <2>1. Quiet
    BY <1>6 DEF WaitEvents, TypeOK
  <2> QED BY <2>1, <1>4
<1>7. ASSUME NEW e \in batch[w], TakeClient(w, e) PROVE OneOwner'
  <2>1. Quiet
    BY <1>7 DEF TakeClient, TypeOK
  <2> QED BY <2>1, <1>4
<1>8. ASSUME NEW p \in backlog, NEW f \in Fds, Accept(w, p, f) PROVE OneOwner'
  <2>1. Quiet
    BY <1>8 DEF Accept, TypeOK
  <2> QED BY <2>1, <1>4
<1>9. CASE AcceptFails(w)
  <2>1. Quiet
    BY <1>9 DEF AcceptFails, TypeOK
  <2> QED BY <2>1, <1>4
<1>10. CASE AddToEpollFails(w)
  <2>1. Quiet
    BY <1>10 DEF AddToEpollFails, TypeOK
  <2> QED BY <2>1, <1>4
<1>11. CASE Lookup(w) \/ LookupFails(w)
  <2>1. Quiet
    BY <1>11 DEF Lookup, LookupFails, TypeOK
  <2> QED BY <2>1, <1>4
<1>12. CASE RecvData(w) \/ RecvAgain(w)
  <2>1. Quiet
    BY <1>12 DEF RecvData, RecvAgain, TypeOK
  <2> QED BY <2>1, <1>4
<1>13. CASE RecvFails(w) \/ RecvEof(w)
  <2>1. Quiet
    BY <1>13 DEF RecvFails, RecvEof, TypeOK
  <2> QED BY <2>1, <1>4
<1>14. CASE CloseDel(w) \/ CloseFd(w)
  <2>1. Quiet
    BY <1>14 DEF CloseDel, CloseFd, TypeOK
  <2> QED BY <2>1, <1>4
<1> QED
    BY <1>1, <1>2, <1>3, <1>5, <1>6, <1>7, <1>8, <1>9, <1>10, <1>11, <1>12, <1>13,
       <1>14 DEF WorkerStep

\* stop() frees all that is left: past join() no worker holds a Connection, so
\* the map owns every one of them.
LEMMA StopFrees ==
    ASSUME TypeOK, JoinBarrier, OneOwner, StopClosesConnections
    PROVE  OneOwner' /\ live' = {}
<1>1. /\ live' = live \ {connections[f] : f \in Registered}
      /\ connections' = [f \in Fds |-> NoConn]
      /\ UNCHANGED <<wpc, wfd, wconn, connFd>>
    BY DEF StopClosesConnections
<1>2. \A w \in Workers : wpc[w] = "exited"
    BY DEF JoinBarrier, StopClosesConnections
<1>3. Registered' = {}
    BY <1>1 DEF Registered
<1>4. live' = {}
    BY <1>1, <1>2 DEF OneOwner, NothingLeaks, HeldBy
<1>5. EntriesOwned'
    BY <1>3 DEF EntriesOwned
<1>6. HeldOwned'
    BY <1>1, <1>2 DEF HeldOwned
<1>7. NothingLeaks'
    BY <1>4 DEF NothingLeaks
<1> QED BY <1>4, <1>5, <1>6, <1>7 DEF OneOwner

\* Ownership is inductive.
LEMMA OwnershipStep == Ownership /\ [Next]_vars => Ownership'
<1> SUFFICES ASSUME Ownership, [Next]_vars PROVE Ownership'
    OBVIOUS
<1>1. TypeOK' /\ JoinBarrier'
    BY TypeStep, JoinStep DEF Ownership
<1>2. OneOwner'
  <2>1. CASE UNCHANGED <<connections, live, connFd, wpc, wfd, wconn>>
    BY <2>1 DEF Ownership, OneOwner, EntriesOwned, HeldOwned, NothingLeaks, HeldBy, Registered
  <2>2. ASSUME NEW w \in Workers, WorkerStep(w) PROVE OneOwner'
    BY <2>2, WorkerKeepsOwner DEF Ownership
  <2>3. CASE StopClosesConnections
    BY <2>3, StopFrees DEF Ownership
  <2> QED BY <2>1, <2>2, <2>3 DEF Next, ClientStep, StopBegins, StopStep, StopClosesListener,
          StopJoins, StopClosesEpoll, Finished, vars, server
<1>3. StopFreesAll'
  <2>1. CASE spc = "stopped"
    <3>1. \A w \in Workers : ~WorkerStep(w)
        BY <2>1 DEF Ownership, JoinBarrier, WorkerStep, ReadRunning, WaitEvents, TakeClient,
           Accept, AcceptFails, AddToEpoll, AddToEpollFails, StoreConnection, Lookup,
           LookupFails, RecvData, RecvAgain, RecvFails, RecvEof, CloseDel, CloseFd, CloseErase
    <3> QED BY <2>1, <3>1 DEF Ownership, StopFreesAll, Next, ClientStep, StopBegins, StopStep,
            StopClosesListener, StopJoins, StopClosesEpoll, StopClosesConnections,
            Finished, vars, server
  <2>2. CASE spc # "stopped" /\ StopClosesConnections
    BY <2>2, StopFrees DEF Ownership, StopFreesAll
  <2>3. CASE spc # "stopped" /\ ~StopClosesConnections
    <3>1. ASSUME NEW w \in Workers, WorkerStep(w) PROVE spc' = spc
        BY <3>1 DEF WorkerStep, ReadRunning, WaitEvents, TakeClient, Accept, AcceptFails,
           AddToEpoll, AddToEpollFails, StoreConnection, Lookup, LookupFails, RecvData,
           RecvAgain, RecvFails, RecvEof, CloseDel, CloseFd, CloseErase
    <3>2. spc' # "stopped"
        BY <2>3, <3>1 DEF Next, ClientStep, StopBegins, StopStep, StopClosesListener,
           StopJoins, StopClosesEpoll, Finished, vars
    <3> QED BY <3>2 DEF StopFreesAll
  <2> QED BY <2>1, <2>2, <2>3
<1> QED BY <1>1, <1>2, <1>3 DEF Ownership

\* The initial state satisfies Ownership.
LEMMA OwnershipInit == Init => Ownership
<1> SUFFICES ASSUME Init PROVE Ownership
    OBVIOUS
<1>1. TypeOK
    BY InitType
<1>2. Registered = {}
    BY DEF Init, Registered
<1>3. OneOwner
    BY <1>2 DEF Init, OneOwner, EntriesOwned, HeldOwned, NothingLeaks
<1> QED BY <1>1, <1>3 DEF Init, Ownership, JoinBarrier, StopFreesAll

-----------------------------------------------------------------------------
(* Connections and descriptors                                             *)

\* A connection that is under way waits in the backlog or has one descriptor;
\* nothing waits for a listening socket that is closed.
SocketsSound ==
    /\ \A f \in Fds : Open(f) => fdTable[f] \notin backlog
    /\ \A f, g \in Fds : Open(f) /\ fdTable[f] = fdTable[g] => f = g
    /\ \A p \in Peers :
        (p \in backlog \/ \E f \in Fds : fdTable[f] = p) <=> peer[p] \notin {"idle", "gone"}
    /\ ~listening => backlog = {}

\* A step that leaves these four alone, or in which a connection that is under
\* way only goes on to another state, keeps SocketsSound.
LEMMA SameSockets ==
    ASSUME SocketsSound, UNCHANGED <<backlog, fdTable, listening>>,
           \A p \in Peers : peer'[p] \in {"idle", "gone"} <=> peer[p] \in {"idle", "gone"}
    PROVE  SocketsSound'
BY DEF SocketsSound, Open

\* What the clients do keeps SocketsSound.
LEMMA PeerSocketsSound == TypeOK /\ SocketsSound /\ PeerStep => SocketsSound'
<1> SUFFICES ASSUME TypeOK, SocketsSound, NEW p \in Peers,
                    PeerConnect(p) \/ PeerSend(p) \/ PeerClose(p) \/ PeerReset(p)
             PROVE  SocketsSound'
    BY DEF PeerStep
<1>1. CASE PeerConnect(p)
  <2>1. \A f \in Fds : fdTable[f] # p
    BY <1>1 DEF PeerConnect, SocketsSound
  <2> QED BY <1>1, <2>1 DEF PeerConnect, SocketsSound, Open, TypeOK, SocketsTypeOK
<1>2. CASE PeerSend(p)
    BY <1>2, SameSockets DEF PeerSend
<1>3. CASE PeerClose(p)
    BY <1>3, SameSockets DEF PeerClose, TypeOK, SocketsTypeOK
<1>4. CASE PeerReset(p)
    BY <1>4, SameSockets DEF PeerReset, TypeOK, SocketsTypeOK
<1> QED BY <1>1, <1>2, <1>3, <1>4

\* accept() moves a connection from the backlog to a descriptor.
LEMMA AcceptSocketsSound ==
    ASSUME TypeOK, SocketsSound, NEW p \in backlog, NEW f \in Fds, SysAccept(p, f)
    PROVE  SocketsSound'
<1>1. /\ ~Open(f)
      /\ backlog' = backlog \ {p}
      /\ fdTable' = [fdTable EXCEPT ![f] = p]
      /\ UNCHANGED <<peer, listening>>
    BY DEF SysAccept, LowestFree
<1>2. p \in Peers /\ p # NoPeer /\ fdTable[f] = NoPeer
    BY <1>1, PeersAssumption DEF Open, TypeOK, SocketsTypeOK
<1>3. \A g \in Fds : fdTable[g] # p
    BY <1>2 DEF SocketsSound, Open
<1>4. \A g \in Fds : fdTable'[g] = IF g = f THEN p ELSE fdTable[g]
    BY <1>1 DEF TypeOK, SocketsTypeOK
<1>5. (\A g \in Fds : Open(g) => fdTable[g] \notin backlog)'
    BY <1>1, <1>4 DEF SocketsSound, Open
<1>6. (\A g, h \in Fds : Open(g) /\ fdTable[g] = fdTable[h] => g = h)'
    BY <1>3, <1>4 DEF SocketsSound, Open
<1>7. ASSUME NEW q \in Peers
      PROVE  ((q \in backlog \/ \E g \in Fds : fdTable[g] = q)
                  <=> peer[q] \notin {"idle", "gone"})'
  <2>1. CASE q = p
    BY <1>1, <1>4, <2>1 DEF SocketsSound
  <2>2. CASE q # p
    <3>1. (\E g \in Fds : fdTable'[g] = q) <=> (\E g \in Fds : fdTable[g] = q)
        BY <1>2, <1>4, <2>2, PeersAssumption
    <3> QED BY <1>1, <2>2, <3>1 DEF SocketsSound
  <2> QED BY <2>1, <2>2
<1> QED BY <1>1, <1>5, <1>6, <1>7 DEF SocketsSound

\* close() ends the connections of the descriptors it closes, and no other.
LEMMA CloseSocketsSound ==
    ASSUME TypeOK, SocketsSound, NEW S, SysClose(S)
    PROVE  SocketsSound'
<1> DEFINE over == {fdTable[f] : f \in S \cap Fds}
<1>1. /\ \A f \in Fds : fdTable'[f] = IF f \in S THEN NoPeer ELSE fdTable[f]
      /\ \A p \in Peers : peer'[p] = IF p \in over THEN "gone" ELSE peer[p]
      /\ UNCHANGED <<backlog, listening>>
    BY DEF SysClose
<1>2. \A p \in Peers : p # NoPeer
    BY PeersAssumption
<1>3. ASSUME NEW p \in Peers
      PROVE  ((p \in backlog \/ \E f \in Fds : fdTable[f] = p)
                  <=> peer[p] \notin {"idle", "gone"})'
  <2>1. CASE p \in over
    <3>1. PICK f \in S \cap Fds : fdTable[f] = p
        BY <2>1
    <3>2. p \notin backlog /\ \A g \in Fds : fdTable[g] = p => g = f
        BY <1>2, <3>1 DEF SocketsSound, Open
    <3> QED BY <1>1, <1>2, <2>1, <3>1, <3>2
  <2>2. CASE p \notin over
    <3>1. \A f \in Fds : fdTable'[f] = p <=> fdTable[f] = p
        BY <1>1, <1>2, <2>2
    <3> QED BY <1>1, <2>2, <3>1 DEF SocketsSound
  <2> QED BY <2>1, <2>2
<1> QED BY <1>1, <1>3 DEF SocketsSound, Open

\* SocketsSound is inductive.
LEMMA SocketsSoundStep == TypeOK /\ SocketsSound /\ [Next]_vars => SocketsSound'
<1> SUFFICES ASSUME TypeOK, SocketsSound, [Next]_vars PROVE SocketsSound'
    OBVIOUS
<1>1. CASE UNCHANGED <<peer, backlog, fdTable, listening>>
    BY <1>1, SameSockets
<1>2. CASE PeerStep
    BY <1>2, PeerSocketsSound
<1>3. ASSUME NEW w \in Workers, NEW p \in backlog, NEW f \in Fds, Accept(w, p, f)
      PROVE  SocketsSound'
    BY <1>3, AcceptSocketsSound DEF Accept
<1>4. ASSUME NEW S, SysClose(S) PROVE SocketsSound'
    BY <1>4, CloseSocketsSound
<1>5. ASSUME NEW w \in Workers, RecvFails(w) PROVE SocketsSound'
  <2>1. CASE Open(wfd[w])
    <3> DEFINE p == fdTable[wfd[w]]
    <3>1. /\ UNCHANGED <<backlog, fdTable, listening>>
          /\ peer[p] = "rst"
          /\ peer' = [peer EXCEPT ![p] = "err"]
        BY <1>5, <2>1 DEF RecvFails, SysRecvReset
    <3> HIDE DEF p
    <3>2. \A q \in Peers : peer'[q] \in {"idle", "gone"} <=> peer[q] \in {"idle", "gone"}
        BY <3>1 DEF TypeOK, SocketsTypeOK
    <3> QED BY <3>1, <3>2, SameSockets
  <2>2. CASE ~Open(wfd[w])
    BY <1>1, <1>5, <2>2 DEF RecvFails, SocketsUnchanged
  <2> QED BY <2>1, <2>2
<1>6. CASE StopClosesListener
  <2>1. /\ backlog' = {}
        /\ \A p \in Peers : peer'[p] = IF p \in backlog THEN "gone" ELSE peer[p]
        /\ UNCHANGED fdTable
    BY <1>6 DEF StopClosesListener, SysCloseListener
  <2>2. \A p \in Peers : p \in backlog => \A f \in Fds : fdTable[f] # p
    BY PeersAssumption DEF SocketsSound, Open
  <2>3. ASSUME NEW p \in Peers
        PROVE  (\E f \in Fds : fdTable'[f] = p) <=> peer'[p] \notin {"idle", "gone"}
    BY <2>1, <2>2 DEF SocketsSound
  <2> QED BY <2>1, <2>3 DEF SocketsSound, Open
<1>7. ASSUME NEW w \in Workers, WorkerStep(w) PROVE SocketsSound'
  <2>1. CASE AddToEpollFails(w) \/ CloseFd(w)
    BY <1>4, <2>1 DEF AddToEpollFails, CloseFd
  <2>2. CASE ~(AddToEpollFails(w) \/ CloseFd(w) \/ RecvFails(w)
                 \/ \E p \in backlog, f \in Fds : Accept(w, p, f))
    BY <1>1, <1>7, <2>2 DEF WorkerStep, ReadRunning, WaitEvents, SysWait, TakeClient,
       AcceptFails, AddToEpoll, SysAdd, StoreConnection, Lookup, LookupFails, RecvData,
       SysRecvData, RecvAgain, RecvEof, CloseDel, SysDel, CloseErase, SocketsUnchanged
  <2> QED BY <1>3, <1>5, <2>1, <2>2
<1>8. CASE StopBegins \/ StopJoins \/ StopClosesEpoll \/ UNCHANGED vars
    BY <1>1, <1>8 DEF StopBegins, StopJoins, StopClosesEpoll, SocketsUnchanged, vars
<1> QED BY <1>2, <1>4, <1>6, <1>7, <1>8 DEF Next, ClientStep, StopStep, StopClosesConnections, Finished

\* SocketsSound holds in every reachable state.
LEMMA SocketsInvariant == Spec => []SocketsSound
<1>1. Init => SocketsSound
    BY PeersAssumption DEF Init, SocketsInit, SocketsSound, Open
<1>2. TypeOK /\ SocketsSound /\ [Next]_vars => SocketsSound'
    BY SocketsSoundStep
<1> QED BY <1>1, <1>2, TypeCorrect, PTL DEF Spec

-----------------------------------------------------------------------------
(* The connection counters                                                 *)

\* Every step but the locked section of accept_connections leaves the
\* counters alone and enters nothing into connections_.
LEMMA OthersEnterNothing ==
    ASSUME TypeOK, [Next]_vars, ~ \E w \in Workers : StoreConnection(w)
    PROVE  UNCHANGED <<total, peak>> /\ Registered' \subseteq Registered
<1>1. CASE UNCHANGED <<connections, total, peak>>
    BY <1>1 DEF Registered
<1>2. ASSUME NEW w \in Workers, CloseErase(w)
      PROVE  UNCHANGED <<total, peak>> /\ Registered' \subseteq Registered
    BY <1>2 DEF CloseErase, Registered
<1>3. CASE StopClosesConnections
    BY <1>3 DEF StopClosesConnections, Registered
<1>4. ASSUME NEW w \in Workers, WorkerStep(w), ~CloseErase(w)
      PROVE  UNCHANGED <<connections, total, peak>>
    BY <1>4 DEF WorkerStep, ReadRunning, WaitEvents, TakeClient, Accept, AcceptFails, AddToEpoll,
       AddToEpollFails, Lookup, LookupFails, RecvData, RecvAgain, RecvFails, RecvEof, CloseDel,
       CloseFd, server
<1>5. CASE ClientStep \/ StopBegins \/ StopClosesListener \/ StopJoins \/ StopClosesEpoll
             \/ Finished \/ UNCHANGED vars
    BY <1>5, <1>1 DEF ClientStep, StopBegins, StopClosesListener, StopJoins, StopClosesEpoll,
       Finished, server, vars
<1> QED BY <1>1, <1>2, <1>3, <1>4, <1>5 DEF Next, StopStep

\* The locked section enters at most one descriptor and counts it.
LEMMA StoreCounts ==
    ASSUME TypeOK, PeakBound, NEW w \in Workers, StoreConnection(w)
    PROVE  PeakBound'
<1> DEFINE All == Registered \cup {wfd[w]}
<1>1. IsFiniteSet(Registered) /\ Cardinality(Registered) \in Nat
    BY FdsAssumption, FS_Subset, FS_CardinalityType DEF Registered
<1>2. IsFiniteSet(All) /\ Cardinality(All) \in Nat /\ Cardinality(All) <= Cardinality(Registered) + 1
  <2>1. /\ IsFiniteSet(All)
        /\ Cardinality(All) = IF wfd[w] \in Registered THEN Cardinality(Registered)
                              ELSE Cardinality(Registered) + 1
    BY <1>1, FS_AddElement
  <2>2. Cardinality(All) \in Nat
    BY <2>1, FS_CardinalityType
  <2> HIDE DEF All
  <2> QED BY <1>1, <2>1, <2>2
<1>3. Registered' \subseteq All
    BY DEF StoreConnection, Registered, TypeOK
<1>4. Cardinality(Registered') <= Cardinality(All) /\ Cardinality(Registered') \in Nat
    BY <1>2, <1>3, FS_Subset, FS_CardinalityType
<1>5. total' = total + 1 /\ peak' = IF Cardinality(All) > peak THEN Cardinality(All) ELSE peak
    BY DEF StoreConnection
<1> HIDE DEF All
<1> QED BY <1>1, <1>2, <1>4, <1>5 DEF PeakBound, TypeOK

LEMMA PeakStep == TypeOK /\ PeakBound /\ [Next]_vars => PeakBound'
<1> SUFFICES ASSUME TypeOK, PeakBound, [Next]_vars PROVE PeakBound'
    OBVIOUS
<1>1. CASE \E w \in Workers : StoreConnection(w)
    BY <1>1, StoreCounts
<1>2. CASE ~ \E w \in Workers : StoreConnection(w)
  <2>1. UNCHANGED <<total, peak>> /\ Registered' \subseteq Registered
    BY <1>2, OthersEnterNothing
  <2>2. IsFiniteSet(Registered) /\ Cardinality(Registered) \in Nat
    BY FdsAssumption, FS_Subset, FS_CardinalityType DEF Registered
  <2>3. Cardinality(Registered') <= Cardinality(Registered) /\ Cardinality(Registered') \in Nat
    BY <2>1, <2>2, FS_Subset, FS_CardinalityType
  <2> QED BY <2>1, <2>2, <2>3 DEF PeakBound, TypeOK
<1> QED BY <1>1, <1>2

LEMMA PeakInit == Init => PeakBound
<1> SUFFICES ASSUME Init PROVE PeakBound
    OBVIOUS
<1>1. Registered = {}
    BY DEF Init, Registered
<1> QED BY <1>1, FS_EmptySet DEF Init, PeakBound

-----------------------------------------------------------------------------
(* The theorems                                                            *)

\* Ownership holds in every reachable state.
LEMMA OwnershipInvariant == Spec => []Ownership
BY OwnershipInit, OwnershipStep, PTL DEF Spec

\* With any number of workers that accept, serve and close connections at the
\* same time, a Connection always has exactly one owner.
THEOREM ConnectionsHaveOneOwner == Spec => []OneOwner
BY OwnershipInvariant, PTL DEF Ownership

\* stop() leaves no Connection behind, whatever the workers were doing.
THEOREM StopLeavesNoConnection == Spec => []StopFreesAll
BY OwnershipInvariant, PTL DEF Ownership

\* The two connection counters main() prints bracket the size of
\* connections_, however many workers accept and close at once.
THEOREM CountersBracket == Spec => []PeakBound
BY PeakInit, PeakStep, TypeCorrect, PTL DEF Spec
=============================================================================
