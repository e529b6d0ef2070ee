------------------------ MODULE HFTServerSoloProofs ------------------------
(***************************************************************************)
(* Proofs about HFTServer when handlers do not overlap: one worker thread  *)
(* (--threads 1), any number of clients, descriptors and addresses.        *)
(***************************************************************************)
EXTENDS HFTServerProofs

OneWorker == \E w \in Workers : Workers = {w}

-----------------------------------------------------------------------------
(* The inductive invariant                                                 *)

Serving(w) == wpc[w] \in {"lookup", "recv", "del", "close", "erase"}
Accepting(w) == wpc[w] \in {"add", "insert"}

\* The ready list holds watched descriptors only.
ReadyWatched == \A f \in ready : interest[f] # NoConn

\* An event still to be handled is the listener's, or that of a connection in
\* the map other than the one being served.
BatchSound(w) ==
    /\ wpc[w] \in {"loop", "wait", "exited"} => batch[w] = {}
    /\ \A e \in batch[w] :
        \/ e = ListenerEvent
        \/ /\ e[1] \in Registered
           /\ e[2] = connections[e[1]]
           /\ Serving(w) => e[1] # wfd[w]

\* What the worker knows of its descriptor and Connection at each place.
CallSound(w) ==
    /\ Accepting(w) => Open(wfd[w]) /\ wfd[w] \notin Registered
    /\ wpc[w] = "add" => interest[wfd[w]] = NoConn
    /\ Serving(w) => wfd[w] \in Registered /\ (Open(wfd[w]) <=> wpc[w] # "erase")
    /\ Serving(w) /\ wpc[w] # "lookup" => wconn[w] = connections[wfd[w]]
    /\ wpc[w] \in {"del", "close"} =>
        peer[fdTable[wfd[w]]] \in {"fin", "err"} /\ unread[fdTable[wfd[w]]] = 0

\* Descriptors, the map and epoll agree but for the worker's own descriptor.
TableSound(w) ==
    \A f \in Fds :
        /\ Open(f) => f \in Registered \/ (Accepting(w) /\ wfd[w] = f)
        /\ f \in Registered => Open(f) \/ (wpc[w] = "erase" /\ wfd[w] = f)
        /\ interest[f] # NoConn =>
            /\ Open(f)
            /\ \/ interest[f] = connections[f]
               \/ wpc[w] = "insert" /\ wfd[w] = f /\ interest[f] = wconn[w]

\* NoMissedEdge, with w the one worker.
EdgeKept(w) ==
    \A f \in Fds :
        interest[f] # NoConn /\ Readable(fdTable[f]) /\ peer[fdTable[f]] # "err" =>
            f \in ready \/ WillServe(w, f)

Solo(w) == ReadyWatched /\ BatchSound(w) /\ CallSound(w) /\ TableSound(w) /\ EdgeKept(w)

USE DEF Goto, Serving, Accepting

-----------------------------------------------------------------------------
(* worker_thread keeps Solo                                                *)

\* The test of running_ changes nothing Solo speaks of.
LEMMA ReadRunningSolo ==
    ASSUME TypeOK, NEW w \in Workers, Solo(w), ReadRunning(w)
    PROVE  Solo(w)'
<1>1. /\ wpc[w] = "loop"
      /\ wpc'[w] \in {"wait", "exited"}
      /\ UNCHANGED <<peer, unread, sent, backlog, listening, fdTable, interest, ready,
                     connections, batch, wfd, wconn>>
    BY DEF ReadRunning, SocketsUnchanged, server, TypeOK
<1>2. ReadyWatched'
    BY <1>1 DEF Solo, ReadyWatched
<1>3. BatchSound(w)'
    BY <1>1 DEF Solo, BatchSound
<1>4. CallSound(w)'
    BY <1>1 DEF CallSound
<1>5. TableSound(w)'
    BY <1>1 DEF Solo, TableSound, Open, Registered
<1>6. EdgeKept(w)'
    BY <1>1 DEF Solo, EdgeKept, WillServe, Readable
<1> QED BY <1>2, <1>3, <1>4, <1>5, <1>6 DEF Solo

\* epoll_wait moves every readable descriptor from the ready list to the
\* worker's events.
LEMMA WaitEventsSolo ==
    ASSUME TypeOK, NEW w \in Workers, Solo(w), WaitEvents(w)
    PROVE  Solo(w)'
<1>1. /\ wpc[w] = "wait"
      /\ wpc'[w] = IF PendingEvents = {} THEN "loop" ELSE "next"
      /\ batch'[w] = PendingEvents
      /\ ready' = {}
      /\ UNCHANGED <<peer, unread, fdTable, interest, connections, wfd, wconn>>
    BY DEF WaitEvents, SysWait, server, TypeOK
<1>2. \A f \in ready : Readable(fdTable[f]) => <<f, interest[f]>> \in PendingEvents
    BY DEF PendingEvents
<1>3. \A e \in PendingEvents :
          e = ListenerEvent \/ (e[1] \in ready /\ e[2] = interest[e[1]])
    BY DEF PendingEvents
<1>4. \A f \in ready : f \in Registered /\ interest[f] = connections[f]
    BY <1>1 DEF Solo, ReadyWatched, TableSound, Registered, TypeOK, SocketsTypeOK
<1>5. ReadyWatched'
    BY <1>1 DEF ReadyWatched
<1>6. BatchSound(w)'
    BY <1>1, <1>3, <1>4 DEF BatchSound, Registered
<1>7. CallSound(w)'
    BY <1>1 DEF CallSound
<1>8. TableSound(w)'
    BY <1>1 DEF Solo, TableSound, Open, Registered
<1>9. EdgeKept(w)'
  <2> SUFFICES ASSUME NEW f \in Fds, interest[f] # NoConn, Readable(fdTable[f]),
                      peer[fdTable[f]] # "err"
               PROVE  \E e \in PendingEvents : e[1] = f
    BY <1>1 DEF EdgeKept, WillServe, Readable
  <2>1. f \in ready
    BY <1>1 DEF Solo, EdgeKept, WillServe, BatchSound
  <2>2. <<f, interest[f]>> \in PendingEvents
    BY <1>2, <2>1
  <2> QED BY <2>2
<1> QED BY <1>5, <1>6, <1>7, <1>8, <1>9 DEF Solo

\* The event's Connection is allocated, so what is read through it is the
\* descriptor the event is about.
LEMMA TakeClientSolo ==
    ASSUME TypeOK, OneOwner, NEW w \in Workers, Solo(w),
           NEW e \in batch[w], TakeClient(w, e)
    PROVE  Solo(w)'
<1>1. /\ wpc[w] = "next"
      /\ e[2] # NoConn
      /\ wpc'[w] = "lookup"
      /\ wfd'[w] \in FdThrough(e[2])
      /\ batch'[w] = batch[w] \ {e}
      /\ UNCHANGED <<peer, unread, fdTable, interest, ready, connections, wconn>>
    BY DEF TakeClient, SocketsUnchanged, server, TypeOK
<1>2. e[1] \in Registered /\ e[2] = connections[e[1]]
    BY <1>1 DEF Solo, BatchSound, ListenerEvent
<1>3. wfd'[w] = e[1]
    BY <1>1, <1>2 DEF FdThrough, OneOwner, EntriesOwned
<1>4. Open(e[1])
    BY <1>1, <1>2 DEF Solo, TableSound, Registered
<1>5. ReadyWatched'
    BY <1>1 DEF Solo, ReadyWatched
<1>6. BatchSound(w)'
  <2> SUFFICES ASSUME NEW d \in batch'[w], d # ListenerEvent
               PROVE  d[1] \in Registered /\ d[2] = connections[d[1]] /\ d[1] # e[1]
    BY <1>1, <1>3 DEF BatchSound, Registered
  <2>1. d \in batch[w] /\ d # e /\ d[1] \in Registered /\ d[2] = connections[d[1]]
    BY <1>1 DEF Solo, BatchSound
  <2>2. d = <<d[1], d[2]>> /\ e = <<e[1], e[2]>>
    BY <2>1 DEF TypeOK
  <2> QED BY <1>2, <2>1, <2>2
<1>7. CallSound(w)'
    BY <1>1, <1>2, <1>3, <1>4 DEF CallSound, Open, Registered
<1>8. TableSound(w)'
    BY <1>1 DEF Solo, TableSound, Open, Registered
<1>9. EdgeKept(w)'
    BY <1>1, <1>3 DEF Solo, EdgeKept, WillServe, Readable
<1> QED BY <1>5, <1>6, <1>7, <1>8, <1>9 DEF Solo

-----------------------------------------------------------------------------
(* accept_connections keeps Solo                                           *)

\* The listener's event is about no descriptor of a connection.
LEMMA ListenerIsNoClient == \A f \in Fds : ListenerEvent[1] # f
BY FdsAssumption DEF ListenerEvent, NoFd

\* accept() hands out a descriptor that is not open, so neither in the map nor
\* watched.
LEMMA AcceptSolo ==
    ASSUME TypeOK, NEW w \in Workers, Solo(w),
           NEW p \in backlog, NEW f \in Fds, Accept(w, p, f)
    PROVE  Solo(w)'
<1>1. /\ wpc[w] = "next"
      /\ ~Open(f)
      /\ wpc'[w] = "add"
      /\ wfd'[w] = f
      /\ batch'[w] = batch[w] \ {ListenerEvent}
      /\ fdTable' = [fdTable EXCEPT ![f] = p]
      /\ UNCHANGED <<peer, unread, interest, ready, connections, wconn>>
    BY DEF Accept, SysAccept, LowestFree, server, TypeOK
<1>2. p # NoPeer
    BY PeersAssumption DEF TypeOK, SocketsTypeOK
<1>3. f \notin Registered /\ interest[f] = NoConn
    BY <1>1 DEF Solo, TableSound
<1>4. ReadyWatched'
    BY <1>1 DEF Solo, ReadyWatched
<1>5. BatchSound(w)'
    BY <1>1 DEF Solo, BatchSound, Registered
<1>6. CallSound(w)'
    BY <1>1, <1>2, <1>3 DEF CallSound, Open, Registered, TypeOK, SocketsTypeOK
<1>7. TableSound(w)'
    BY <1>1, <1>2, <1>3 DEF Solo, TableSound, Open, Registered, TypeOK, SocketsTypeOK
<1>8. EdgeKept(w)'
    BY <1>1, <1>3, ListenerIsNoClient
       DEF Solo, EdgeKept, WillServe, Readable, TypeOK, SocketsTypeOK
<1> QED BY <1>4, <1>5, <1>6, <1>7, <1>8 DEF Solo

\* An accept() that fails drops the listener's event only.
LEMMA AcceptFailsSolo ==
    ASSUME TypeOK, NEW w \in Workers, Solo(w), AcceptFails(w)
    PROVE  Solo(w)'
<1>1. /\ wpc[w] = "next"
      /\ batch'[w] = batch[w] \ {ListenerEvent}
      /\ wpc'[w] = IF batch'[w] = {} THEN "loop" ELSE "next"
      /\ UNCHANGED <<peer, unread, fdTable, interest, ready, connections, wfd, wconn>>
    BY DEF AcceptFails, SocketsUnchanged, server, TypeOK
<1>2. ReadyWatched'
    BY <1>1 DEF Solo, ReadyWatched
<1>3. BatchSound(w)'
    BY <1>1 DEF Solo, BatchSound, Registered
<1>4. CallSound(w)'
    BY <1>1 DEF CallSound
<1>5. TableSound(w)'
    BY <1>1 DEF Solo, TableSound, Open, Registered
<1>6. EdgeKept(w)'
    BY <1>1, ListenerIsNoClient DEF Solo, EdgeKept, WillServe, Readable
<1> QED BY <1>2, <1>3, <1>4, <1>5, <1>6 DEF Solo

\* EPOLL_CTL_ADD of a socket that is readable already reports it, so no edge is
\* lost between accept() and the registration.
LEMMA AddToEpollSolo ==
    ASSUME TypeOK, NEW w \in Workers, Solo(w), NEW c \in Conns, AddToEpoll(w, c)
    PROVE  Solo(w)'
<1>1. /\ wpc[w] = "add"
      /\ wpc'[w] = "insert"
      /\ wconn'[w] = c
      /\ Open(wfd[w])
      /\ interest' = [interest EXCEPT ![wfd[w]] = c]
      /\ ready' = IF Readable(fdTable[wfd[w]]) THEN ready \cup {wfd[w]} ELSE ready
      /\ UNCHANGED <<peer, unread, fdTable, connections, batch, wfd>>
    BY DEF AddToEpoll, SysAdd, TypeOK
<1>2. c # NoConn /\ wfd[w] \in Fds
    BY <1>1, ConnsAssumption DEF Open
<1>3. ReadyWatched'
    BY <1>1, <1>2 DEF Solo, ReadyWatched, TypeOK, SocketsTypeOK
<1>4. BatchSound(w)'
    BY <1>1 DEF Solo, BatchSound, Registered
<1>5. CallSound(w)'
    BY <1>1 DEF Solo, CallSound, Open, Registered
<1>6. TableSound(w)'
    BY <1>1, <1>2 DEF Solo, TableSound, Open, Registered, TypeOK, SocketsTypeOK
<1>7. EdgeKept(w)'
    BY <1>1, <1>2 DEF Solo, EdgeKept, WillServe, Readable, TypeOK, SocketsTypeOK
<1> QED BY <1>3, <1>4, <1>5, <1>6, <1>7 DEF Solo

\* Closing a descriptor that is not in the map, or is being closed by the
\* worker, takes it out of epoll and ends its connection.
LEMMA SysCloseFacts ==
    ASSUME TypeOK, NEW f \in Fds, SysClose({f})
    PROVE  /\ fdTable' = [fdTable EXCEPT ![f] = NoPeer]
           /\ interest' = [interest EXCEPT ![f] = NoConn]
           /\ ready' = ready \ {f}
           /\ \A g \in Fds \ {f} :
                fdTable[g] # NoPeer /\ Readable(fdTable[g])' =>
                    /\ Readable(fdTable[g])
                    /\ peer'[fdTable[g]] = peer[fdTable[g]]
                    /\ unread'[fdTable[g]] = unread[fdTable[g]]
<1>1. /\ fdTable' = [g \in Fds |-> IF g \in {f} THEN NoPeer ELSE fdTable[g]]
      /\ interest' = [g \in Fds |-> IF g \in {f} THEN NoConn ELSE interest[g]]
      /\ ready' = ready \ {f}
    BY DEF SysClose
<1>2. \A p \in Peers : \/ peer'[p] = "gone" /\ unread'[p] = 0
                       \/ peer'[p] = peer[p] /\ unread'[p] = unread[p]
    BY DEF SysClose
<1>3. \A g \in Fds \ {f} : fdTable'[g] = fdTable[g]
    BY <1>1
<1>4. \A g \in Fds : fdTable[g] # NoPeer => fdTable[g] \in Peers
    BY DEF TypeOK, SocketsTypeOK
<1>5. \A g \in Fds \ {f} :
        fdTable[g] # NoPeer /\ Readable(fdTable[g])' =>
            /\ Readable(fdTable[g])
            /\ peer'[fdTable[g]] = peer[fdTable[g]]
            /\ unread'[fdTable[g]] = unread[fdTable[g]]
    BY <1>2, <1>3, <1>4 DEF Readable
<1> QED BY <1>1, <1>5 DEF TypeOK, SocketsTypeOK

\* A socket that epoll refuses is closed again.
LEMMA AddToEpollFailsSolo ==
    ASSUME TypeOK, NEW w \in Workers, Solo(w), AddToEpollFails(w)
    PROVE  Solo(w)'
<1> DEFINE f == wfd[w]
<1>1. /\ wpc[w] = "add"
      /\ SysClose({f})
      /\ wpc'[w] = IF batch[w] = {} THEN "loop" ELSE "next"
      /\ UNCHANGED <<connections, batch>>
    BY DEF AddToEpollFails, Return, server, TypeOK
<1>2. f \in Fds /\ f \notin Registered
    BY <1>1 DEF Solo, CallSound, Open
<1> HIDE DEF f
<1>3. /\ fdTable' = [fdTable EXCEPT ![f] = NoPeer]
      /\ interest' = [interest EXCEPT ![f] = NoConn]
      /\ ready' = ready \ {f}
    BY <1>1, <1>2, SysCloseFacts
<1>4. \A g \in Fds \ {f} :
         fdTable[g] # NoPeer /\ Readable(fdTable[g])' =>
             Readable(fdTable[g]) /\ peer'[fdTable[g]] = peer[fdTable[g]]
    BY <1>1, <1>2, SysCloseFacts
<1>5. ReadyWatched'
    BY <1>3 DEF Solo, ReadyWatched, TypeOK, SocketsTypeOK
<1>6. BatchSound(w)'
    BY <1>1 DEF Solo, BatchSound, Registered
<1>7. CallSound(w)'
    BY <1>1 DEF CallSound
<1>8. TableSound(w)'
    BY <1>1, <1>2, <1>3 DEF f, Solo, TableSound, Open, Registered, TypeOK, SocketsTypeOK
<1>9. EdgeKept(w)'
  <2> SUFFICES ASSUME NEW g \in Fds, interest'[g] # NoConn, Readable(fdTable[g])',
                      peer'[fdTable'[g]] # "err"
               PROVE  g \in ready' \/ \E e \in batch'[w] : e[1] = g
    BY DEF EdgeKept, WillServe
  <2>1. g # f /\ interest[g] # NoConn /\ fdTable'[g] = fdTable[g]
    BY <1>3 DEF TypeOK, SocketsTypeOK
  <2>2. fdTable[g] # NoPeer
    BY <2>1 DEF Solo, TableSound, Open
  <2>3. Readable(fdTable[g]) /\ peer'[fdTable[g]] = peer[fdTable[g]]
    BY <1>4, <2>1, <2>2
  <2>4. g \in ready \/ \E e \in batch[w] : e[1] = g
    BY <1>1, <2>1, <2>3 DEF Solo, EdgeKept, WillServe
  <2> QED BY <1>1, <1>3, <2>1, <2>4
<1> QED BY <1>5, <1>6, <1>7, <1>8, <1>9 DEF Solo

\* The new entry is the one epoll already points to.
LEMMA StoreConnectionSolo ==
    ASSUME TypeOK, OneOwner, NEW w \in Workers, Solo(w), StoreConnection(w)
    PROVE  Solo(w)'
<1>1. /\ wpc[w] = "insert"
      /\ connections' = [connections EXCEPT ![wfd[w]] = wconn[w]]
      /\ wpc'[w] = IF batch[w] = {} THEN "loop" ELSE "next"
      /\ UNCHANGED <<peer, unread, fdTable, interest, ready, batch>>
    BY DEF StoreConnection, Return, SocketsUnchanged, TypeOK
<1>2. wfd[w] \in Fds /\ wfd[w] \notin Registered /\ wconn[w] # NoConn /\ Open(wfd[w])
    BY <1>1, ConnsAssumption DEF Solo, CallSound, Open, OneOwner, HeldOwned, TypeOK
<1>3. Registered' = Registered \cup {wfd[w]}
    BY <1>1, <1>2 DEF Registered, TypeOK
<1>4. \A f \in Registered : connections'[f] = connections[f]
    BY <1>1, <1>2 DEF Registered, TypeOK
<1>5. ReadyWatched'
    BY <1>1 DEF Solo, ReadyWatched
<1>6. BatchSound(w)'
    BY <1>1, <1>3, <1>4 DEF Solo, BatchSound
<1>7. CallSound(w)'
    BY <1>1 DEF CallSound
<1>8. TableSound(w)'
    BY <1>1, <1>2, <1>3 DEF Solo, TableSound, Open, Registered, TypeOK, SocketsTypeOK
<1>9. EdgeKept(w)'
    BY <1>1 DEF Solo, EdgeKept, WillServe, Readable
<1> QED BY <1>5, <1>6, <1>7, <1>8, <1>9 DEF Solo

-----------------------------------------------------------------------------
(* handle_client_events keeps Solo                                         *)

\* The descriptor is in the map, so the lookup finds its Connection.
LEMMA LookupSolo ==
    ASSUME TypeOK, NEW w \in Workers, Solo(w), Lookup(w) \/ LookupFails(w)
    PROVE  Solo(w)'
<1>1. /\ wpc[w] = "lookup"
      /\ wpc'[w] = "recv"
      /\ wconn'[w] = connections[wfd[w]]
      /\ UNCHANGED <<peer, unread, fdTable, interest, ready, connections, batch, wfd>>
    BY DEF Lookup, LookupFails, Solo, CallSound, SocketsUnchanged, server, TypeOK
<1>2. ReadyWatched'
    BY <1>1 DEF Solo, ReadyWatched
<1>3. BatchSound(w)'
    BY <1>1 DEF Solo, BatchSound, Registered
<1>4. CallSound(w)'
    BY <1>1 DEF Solo, CallSound, Open, Registered
<1>5. TableSound(w)'
    BY <1>1 DEF Solo, TableSound, Open, Registered
<1>6. EdgeKept(w)'
    BY <1>1 DEF Solo, EdgeKept, WillServe, Readable
<1> QED BY <1>2, <1>3, <1>4, <1>5, <1>6 DEF Solo

\* Reading data leaves the descriptor in the worker's hands.
LEMMA RecvDataSolo ==
    ASSUME TypeOK, NEW w \in Workers, Solo(w), RecvData(w)
    PROVE  Solo(w)'
<1> DEFINE p == fdTable[wfd[w]]
<1>1. /\ wpc[w] = "recv"
      /\ unread[p] > 0
      /\ unread' = [unread EXCEPT ![p] = @ - 1]
      /\ UNCHANGED <<peer, fdTable, interest, ready, connections, wpc, batch, wfd, wconn>>
    BY DEF RecvData, SysRecvData, server
<1>2. p \in Peers
    BY DEF RecvData, Open, TypeOK, SocketsTypeOK
<1> HIDE DEF p
<1>3. \A q : Readable(q)' => Readable(q)
    BY <1>1, <1>2 DEF Readable, TypeOK, SocketsTypeOK
<1>4. ReadyWatched'
    BY <1>1 DEF Solo, ReadyWatched
<1>5. BatchSound(w)'
    BY <1>1 DEF Solo, BatchSound, Registered
<1>6. CallSound(w)'
    BY <1>1 DEF Solo, CallSound, Open, Registered
<1>7. TableSound(w)'
    BY <1>1 DEF Solo, TableSound, Open, Registered
<1>8. EdgeKept(w)'
    BY <1>1, <1>3 DEF Solo, EdgeKept, WillServe
<1> QED BY <1>4, <1>5, <1>6, <1>7, <1>8 DEF Solo

\* Leaving the receive loop early, on EAGAIN or on an error, leaves nothing
\* behind that a new edge would not report.
LEMMA RecvStopsSolo ==
    ASSUME TypeOK, NEW w \in Workers, Solo(w), RecvAgain(w) \/ RecvFails(w)
    PROVE  Solo(w)'
<1> DEFINE p == fdTable[wfd[w]]
<1>1. /\ wpc[w] = "recv"
      /\ wpc'[w] = IF batch[w] = {} THEN "loop" ELSE "next"
      /\ UNCHANGED <<unread, fdTable, interest, ready, connections, batch>>
      /\ \/ UNCHANGED peer /\ ~Readable(p)
         \/ peer[p] = "rst" /\ peer' = [peer EXCEPT ![p] = "err"]
  <2>1. Open(wfd[w])
    BY DEF RecvAgain, RecvFails, Solo, CallSound
  <2>2. CASE RecvAgain(w)
    BY <2>2 DEF RecvAgain, Return, SocketsUnchanged, server, TypeOK
  <2>3. CASE RecvFails(w)
    BY <2>1, <2>3 DEF RecvFails, SysRecvReset, Return, server, TypeOK
  <2> QED BY <2>2, <2>3
<1>2. p \in Peers
    BY <1>1 DEF Solo, CallSound, Open, TypeOK, SocketsTypeOK
<1>3. \A q \in Peers : Readable(q)' /\ peer'[q] # "err" =>
          q # p /\ Readable(q) /\ peer[q] # "err"
    BY <1>1, <1>2 DEF Readable, TypeOK, SocketsTypeOK
<1>4. ReadyWatched'
    BY <1>1 DEF Solo, ReadyWatched
<1>5. BatchSound(w)'
    BY <1>1 DEF Solo, BatchSound, Registered
<1>6. CallSound(w)'
    BY <1>1 DEF CallSound
<1>7. TableSound(w)'
    BY <1>1 DEF Solo, TableSound, Open, Registered
<1>8. EdgeKept(w)'
  <2> SUFFICES ASSUME NEW g \in Fds, interest'[g] # NoConn, Readable(fdTable[g])',
                      peer'[fdTable'[g]] # "err"
               PROVE  g \in ready' \/ \E e \in batch'[w] : e[1] = g
    BY DEF EdgeKept, WillServe
  <2>1. fdTable'[g] = fdTable[g] /\ fdTable[g] \in Peers /\ interest[g] # NoConn
    BY <1>1 DEF Solo, TableSound, Open, TypeOK, SocketsTypeOK
  <2>2. fdTable[g] # p /\ Readable(fdTable[g]) /\ peer[fdTable[g]] # "err"
    BY <1>1, <1>3, <2>1 DEF Readable
  <2>3. g # wfd[w]
    BY <2>2
  <2>4. g \in ready \/ \E e \in batch[w] : e[1] = g
    BY <1>1, <2>1, <2>2, <2>3 DEF Solo, EdgeKept, WillServe
  <2> QED BY <1>1, <2>4
<1> QED BY <1>4, <1>5, <1>6, <1>7, <1>8 DEF Solo

\* At end of stream the worker goes on to close the connection it serves.
LEMMA RecvEofSolo ==
    ASSUME TypeOK, NEW w \in Workers, Solo(w), RecvEof(w)
    PROVE  Solo(w)'
<1>1. /\ wpc[w] = "recv"
      /\ unread[fdTable[wfd[w]]] = 0
      /\ peer[fdTable[wfd[w]]] \in {"fin", "err"}
      /\ wpc'[w] = "del"
      /\ UNCHANGED <<peer, unread, fdTable, interest, ready, connections, batch, wfd, wconn>>
    BY DEF RecvEof, SocketsUnchanged, server, TypeOK
<1>2. ReadyWatched'
    BY <1>1 DEF Solo, ReadyWatched
<1>3. BatchSound(w)'
    BY <1>1 DEF Solo, BatchSound, Registered
<1>4. CallSound(w)'
    BY <1>1 DEF Solo, CallSound, Open, Registered
<1>5. TableSound(w)'
    BY <1>1 DEF Solo, TableSound, Open, Registered
<1>6. EdgeKept(w)'
    BY <1>1 DEF Solo, EdgeKept, WillServe, Readable
<1> QED BY <1>2, <1>3, <1>4, <1>5, <1>6 DEF Solo

-----------------------------------------------------------------------------
(* close_connection keeps Solo                                             *)

\* conn.fd is the descriptor handle_client_events was called with: the
\* Connection is the one in the map, which is allocated.
LEMMA ClosesOwnFd ==
    ASSUME TypeOK, OneOwner, NEW w \in Workers, Solo(w),
           wpc[w] \in {"del", "close", "erase"}
    PROVE  wfd[w] \in Registered /\ FdThrough(wconn[w]) = {wfd[w]}
<1>1. wfd[w] \in Registered /\ wconn[w] = connections[wfd[w]]
    BY DEF Solo, CallSound
<1> QED BY <1>1 DEF FdThrough, OneOwner, EntriesOwned

\* EPOLL_CTL_DEL takes the worker's own descriptor out of epoll.
LEMMA CloseDelSolo ==
    ASSUME TypeOK, OneOwner, NEW w \in Workers, Solo(w), CloseDel(w)
    PROVE  Solo(w)'
<1> DEFINE f == wfd[w]
<1>1. f \in Fds /\ FdThrough(wconn[w]) = {f}
    BY ClosesOwnFd DEF CloseDel, Registered
<1>2. /\ wpc[w] = "del"
      /\ wpc'[w] = "close"
      /\ interest' = [g \in Fds |-> IF g = f THEN NoConn ELSE interest[g]]
      /\ ready' = ready \ {f}
      /\ UNCHANGED <<peer, unread, fdTable, connections, batch, wfd, wconn>>
    BY <1>1 DEF CloseDel, SysDel, server, TypeOK
<1>3. ReadyWatched'
    BY <1>2 DEF Solo, ReadyWatched, TypeOK, SocketsTypeOK
<1>4. BatchSound(w)'
    BY <1>2 DEF Solo, BatchSound, Registered
<1>5. CallSound(w)'
    BY <1>2 DEF Solo, CallSound, Open, Registered
<1>6. TableSound(w)'
    BY <1>2 DEF Solo, TableSound, Open, Registered
<1>7. EdgeKept(w)'
    BY <1>2 DEF Solo, EdgeKept, WillServe, Readable
<1> QED BY <1>3, <1>4, <1>5, <1>6, <1>7 DEF Solo

\* close() frees the worker's own descriptor, still in the map.
LEMMA CloseFdSolo ==
    ASSUME TypeOK, OneOwner, NEW w \in Workers, Solo(w), CloseFd(w)
    PROVE  Solo(w)'
<1> DEFINE f == wfd[w]
<1>1. f \in Fds /\ f \in Registered /\ FdThrough(wconn[w]) = {f}
    BY ClosesOwnFd DEF CloseFd, Registered
<1>2. /\ wpc[w] = "close"
      /\ wpc'[w] = "erase"
      /\ SysClose({f})
      /\ UNCHANGED <<connections, batch, wfd, wconn>>
    BY <1>1 DEF CloseFd, server, TypeOK
<1> HIDE DEF f
<1>3. /\ fdTable' = [fdTable EXCEPT ![f] = NoPeer]
      /\ interest' = [interest EXCEPT ![f] = NoConn]
      /\ ready' = ready \ {f}
    BY <1>1, <1>2, SysCloseFacts
<1>4. \A g \in Fds \ {f} :
         fdTable[g] # NoPeer /\ Readable(fdTable[g])' =>
             Readable(fdTable[g]) /\ peer'[fdTable[g]] = peer[fdTable[g]]
    BY <1>1, <1>2, SysCloseFacts
<1>5. ReadyWatched'
    BY <1>3 DEF Solo, ReadyWatched, TypeOK, SocketsTypeOK
<1>6. BatchSound(w)'
    BY <1>2 DEF Solo, BatchSound, Registered
<1>7. CallSound(w)'
    BY <1>1, <1>2, <1>3 DEF f, Solo, CallSound, Open, Registered, TypeOK, SocketsTypeOK
<1>8. TableSound(w)'
    BY <1>1, <1>2, <1>3 DEF f, Solo, TableSound, Open, Registered, TypeOK, SocketsTypeOK
<1>9. EdgeKept(w)'
  <2> SUFFICES ASSUME NEW g \in Fds, interest'[g] # NoConn, Readable(fdTable[g])',
                      peer'[fdTable'[g]] # "err"
               PROVE  g \in ready' \/ \E e \in batch'[w] : e[1] = g
    BY DEF EdgeKept, WillServe
  <2>1. g # f /\ interest[g] # NoConn /\ fdTable'[g] = fdTable[g]
    BY <1>3 DEF TypeOK, SocketsTypeOK
  <2>2. fdTable[g] # NoPeer
    BY <2>1 DEF Solo, TableSound, Open
  <2>3. Readable(fdTable[g]) /\ peer'[fdTable[g]] = peer[fdTable[g]]
    BY <1>4, <2>1, <2>2
  <2>4. g \in ready \/ \E e \in batch[w] : e[1] = g
    BY <2>1, <2>3 DEF f, Solo, EdgeKept, WillServe
  <2> QED BY <1>2, <1>3, <2>1, <2>4
<1> QED BY <1>5, <1>6, <1>7, <1>8, <1>9 DEF Solo

\* erase removes the entry of the descriptor that was closed, which nobody can
\* have opened again in between.
LEMMA CloseEraseSolo ==
    ASSUME TypeOK, OneOwner, NEW w \in Workers, Solo(w), CloseErase(w)
    PROVE  Solo(w)'
<1> DEFINE f == wfd[w]
<1>1. f \in Fds /\ FdThrough(wconn[w]) = {f}
    BY ClosesOwnFd DEF CloseErase, Registered
<1>2. /\ wpc[w] = "erase"
      /\ wpc'[w] = IF batch[w] = {} THEN "loop" ELSE "next"
      /\ connections' = [g \in Fds |-> IF g = f THEN NoConn ELSE connections[g]]
      /\ UNCHANGED <<peer, unread, fdTable, interest, ready, batch>>
    BY <1>1 DEF CloseErase, Return, SocketsUnchanged, TypeOK
<1>3. ~Open(f)
    BY <1>2 DEF Solo, CallSound
<1>4. Registered' = Registered \ {f}
    BY <1>2 DEF Registered
<1>5. ReadyWatched'
    BY <1>2 DEF Solo, ReadyWatched
<1>6. BatchSound(w)'
    BY <1>2, <1>4 DEF Solo, BatchSound, Registered
<1>7. CallSound(w)'
    BY <1>2 DEF CallSound
<1>8. TableSound(w)'
    BY <1>2, <1>3, <1>4 DEF Solo, TableSound, Open
<1>9. EdgeKept(w)'
    BY <1>2 DEF Solo, EdgeKept, WillServe, Readable
<1> QED BY <1>5, <1>6, <1>7, <1>8, <1>9 DEF Solo

-----------------------------------------------------------------------------
(* The other steps keep Solo                                               *)

\* A step of the kernel alone keeps Solo when it puts every watched descriptor
\* that becomes readable on the ready list and leaves ended connections alone.
LEMMA KernelStepSolo ==
    ASSUME TypeOK, NEW w \in Workers, Solo(w),
           UNCHANGED <<fdTable, interest, connections, wpc, batch, wfd, wconn>>,
           ready \subseteq ready',
           \A f \in ready' : interest[f] # NoConn,
           \A f \in Fds : Readable(fdTable[f])' /\ peer'[fdTable[f]] # "err" =>
               \/ interest[f] = NoConn
               \/ f \in ready'
               \/ Readable(fdTable[f]) /\ peer[fdTable[f]] # "err",
           \A f \in Fds :
               /\ Open(f)
               /\ peer[fdTable[f]] \in {"fin", "err"}
               /\ unread[fdTable[f]] = 0
               => /\ peer'[fdTable[f]] = peer[fdTable[f]]
                  /\ unread'[fdTable[f]] = 0
    PROVE  Solo(w)'
<1>1. ReadyWatched'
    BY DEF ReadyWatched
<1>2. BatchSound(w)'
    BY DEF Solo, BatchSound, Registered
<1>3. CallSound(w)'
    BY DEF Solo, CallSound, Open, Registered
<1>4. TableSound(w)'
    BY DEF Solo, TableSound, Open, Registered
<1>5. EdgeKept(w)'
    BY DEF Solo, EdgeKept, WillServe
<1> QED BY <1>1, <1>2, <1>3, <1>4, <1>5 DEF Solo

\* Whatever a client does shows as an edge on a watched descriptor.
LEMMA ClientStepSolo ==
    ASSUME TypeOK, NEW w \in Workers, Solo(w), ClientStep
    PROVE  Solo(w)'
<1>1. UNCHANGED <<fdTable, interest, connections, wpc, batch, wfd, wconn>>
    BY DEF ClientStep, PeerStep, PeerConnect, PeerSend, PeerClose, PeerReset, server
<1>2. PICK p \in Peers : PeerConnect(p) \/ PeerSend(p) \/ PeerClose(p) \/ PeerReset(p)
    BY DEF ClientStep, PeerStep
<1>3. peer[p] \in {"idle", "open"}
    BY <1>2 DEF PeerConnect, PeerSend, PeerClose, PeerReset
<1>4. \A q \in Peers \ {p} : peer'[q] = peer[q] /\ unread'[q] = unread[q]
    BY <1>2 DEF PeerConnect, PeerSend, PeerClose, PeerReset, TypeOK, SocketsTypeOK
<1>5. \/ ready' = ready \cup Watching(p)
      \/ ready' = ready /\ unread' = unread /\ peer[p] = "idle" /\ peer'[p] = "open"
    BY <1>2 DEF PeerConnect, PeerSend, PeerClose, PeerReset, TypeOK, SocketsTypeOK
<1>6. \A f \in ready' : interest[f] # NoConn
    BY <1>5 DEF Solo, ReadyWatched, Watching
<1>7. ASSUME NEW f \in Fds, Readable(fdTable[f])', peer'[fdTable[f]] # "err"
      PROVE  \/ interest[f] = NoConn
             \/ f \in ready'
             \/ Readable(fdTable[f]) /\ peer[fdTable[f]] # "err"
  <2>1. unread'[fdTable[f]] > 0 \/ peer'[fdTable[f]] \in {"fin", "rst", "err"}
    BY <1>1, <1>7 DEF Readable
  <2>2. CASE fdTable[f] \in Peers \ {p}
    BY <1>4, <1>7, <2>1, <2>2 DEF Readable
  <2>3. CASE fdTable[f] = p
    BY <1>5, <2>1, <2>3 DEF Watching, Readable
  <2>4. CASE fdTable[f] = NoPeer
    BY <2>4 DEF Solo, TableSound, Open
  <2> QED BY <2>2, <2>3, <2>4 DEF TypeOK, SocketsTypeOK
<1>8. ASSUME NEW f \in Fds, Open(f), peer[fdTable[f]] \in {"fin", "err"}, unread[fdTable[f]] = 0
      PROVE  peer'[fdTable[f]] = peer[fdTable[f]] /\ unread'[fdTable[f]] = 0
    BY <1>3, <1>4, <1>8 DEF Open, TypeOK, SocketsTypeOK
<1> QED BY <1>1, <1>5, <1>6, <1>7, <1>8, KernelStepSolo

\* Every step of the worker keeps Solo.
LEMMA WorkerSolo ==
    ASSUME TypeOK, OneOwner, NEW w \in Workers, Solo(w), WorkerStep(w)
    PROVE  Solo(w)'
BY ReadRunningSolo, WaitEventsSolo, TakeClientSolo, AcceptSolo, AcceptFailsSolo,
   AddToEpollSolo, AddToEpollFailsSolo, StoreConnectionSolo, LookupSolo, RecvDataSolo,
   RecvStopsSolo, RecvEofSolo, CloseDelSolo, CloseFdSolo, CloseEraseSolo DEF WorkerStep

\* stop() keeps Solo, and its last step closes every descriptor: past join()
\* they are those of the map.
LEMMA StopSolo ==
    ASSUME Ownership, SocketsSound, NEW w \in Workers, Solo(w), StopBegins \/ StopStep
    PROVE  Solo(w)' /\ (StopClosesConnections => \A f \in Fds : ~Open(f)')
<1> TypeOK /\ OneOwner /\ JoinBarrier
    BY DEF Ownership
<1>1. CASE StopBegins
  <2>1. SocketsUnchanged /\ UNCHANGED <<connections, wpc, batch, wfd, wconn>>
    BY <1>1 DEF StopBegins
  <2>2. Solo(w)'
    BY <2>1, KernelStepSolo DEF SocketsUnchanged, Solo, ReadyWatched, Readable
  <2> QED BY <1>1, <2>2 DEF StopBegins, StopClosesConnections
<1>2. CASE StopClosesListener
  <2>1. /\ UNCHANGED <<fdTable, interest, ready, connections, wpc, batch, wfd, wconn>>
        /\ \A p \in Peers \ backlog : peer'[p] = peer[p] /\ unread'[p] = unread[p]
    BY <1>2 DEF StopClosesListener, SysCloseListener, server
  <2>2. \A f \in Fds : Open(f) => fdTable[f] \in Peers \ backlog
    BY DEF SocketsSound, Open, TypeOK, SocketsTypeOK
  <2>3. \A f \in Fds : interest[f] # NoConn => Open(f)
    BY DEF Solo, TableSound
  <2>4. Solo(w)'
    BY <2>1, <2>2, <2>3, KernelStepSolo DEF Solo, ReadyWatched, Readable
  <2> QED BY <1>2, <2>4 DEF StopClosesListener, StopClosesConnections
<1>3. CASE StopJoins
  <2>1. SocketsUnchanged /\ UNCHANGED <<connections, wpc, batch, wfd, wconn>>
    BY <1>3 DEF StopJoins, server
  <2>2. Solo(w)'
    BY <2>1, KernelStepSolo DEF SocketsUnchanged, Solo, ReadyWatched, Readable
  <2> QED BY <1>3, <2>2 DEF StopJoins, StopClosesConnections
<1>4. CASE StopClosesEpoll
  <2>1. /\ interest' = [f \in Fds |-> NoConn]
        /\ ready' = {}
        /\ UNCHANGED <<peer, unread, fdTable, connections, wpc, batch, wfd, wconn>>
    BY <1>4 DEF StopClosesEpoll, server
  <2>2. wpc[w] = "exited"
    BY <1>4 DEF StopClosesEpoll, JoinBarrier
  <2>3. ReadyWatched' /\ BatchSound(w)' /\ CallSound(w)'
    BY <2>1, <2>2 DEF Solo, ReadyWatched, BatchSound, CallSound
  <2>4. TableSound(w)'
    BY <2>1 DEF Solo, TableSound, Open, Registered
  <2>5. EdgeKept(w)'
    BY <2>1 DEF EdgeKept
  <2> QED BY <1>4, <2>3, <2>4, <2>5 DEF Solo, StopClosesEpoll, StopClosesConnections
<1>5. CASE StopClosesConnections
  <2>1. /\ SysClose({connFd[connections[f]] : f \in Registered})
        /\ connections' = [f \in Fds |-> NoConn]
        /\ UNCHANGED <<wpc, batch, wfd, wconn>>
    BY <1>5 DEF StopClosesConnections
  <2>2. wpc[w] = "exited"
    BY <1>5 DEF StopClosesConnections, JoinBarrier
  <2>3. {connFd[connections[f]] : f \in Registered} = Registered
    BY DEF OneOwner, EntriesOwned
  <2>4. /\ fdTable' = [f \in Fds |-> IF f \in Registered THEN NoPeer ELSE fdTable[f]]
        /\ interest' = [f \in Fds |-> IF f \in Registered THEN NoConn ELSE interest[f]]
        /\ ready' = ready \ Registered
    BY <2>1, <2>3 DEF SysClose
  <2>5. \A f \in Fds : ~Open(f)'
    BY <2>2, <2>4 DEF Solo, TableSound, Open
  <2>6. \A f \in Fds : interest'[f] = NoConn
    BY <2>2, <2>4 DEF Solo, TableSound
  <2>7. Registered' = {}
    BY <2>1 DEF Registered
  <2>8. ReadyWatched'
    BY <2>4 DEF Solo, ReadyWatched, TypeOK, SocketsTypeOK
  <2>9. BatchSound(w)' /\ CallSound(w)'
    BY <2>1, <2>2 DEF Solo, BatchSound, CallSound
  <2>10. TableSound(w)'
    BY <2>5, <2>6, <2>7 DEF TableSound
  <2>11. EdgeKept(w)'
    BY <2>6 DEF EdgeKept
  <2> QED BY <2>5, <2>8, <2>9, <2>10, <2>11 DEF Solo
<1> QED BY <1>1, <1>2, <1>3, <1>4, <1>5 DEF StopStep

-----------------------------------------------------------------------------
(* The invariant and the theorems                                          *)

SoloInv ==
    /\ Ownership
    /\ SocketsSound
    /\ \A w \in Workers : Solo(w)
    /\ StopClosesAll

\* The initial state satisfies SoloInv.
LEMMA SoloInit == Init => SoloInv
<1> SUFFICES ASSUME Init PROVE SoloInv
    OBVIOUS
<1>1. Ownership /\ SocketsSound
    BY OwnershipInit, PeersAssumption DEF Init, SocketsInit, SocketsSound, Open
<1>2. ASSUME NEW w \in Workers PROVE Solo(w)
  <2>1. Registered = {} /\ \A f \in Fds : ~Open(f)
    BY DEF Init, SocketsInit, Registered, Open
  <2>2. ReadyWatched /\ BatchSound(w) /\ CallSound(w)
    BY DEF Init, SocketsInit, ReadyWatched, BatchSound, CallSound
  <2>3. TableSound(w) /\ EdgeKept(w)
    BY <2>1 DEF Init, SocketsInit, TableSound, EdgeKept
  <2> QED BY <2>2, <2>3 DEF Solo
<1>3. StopClosesAll
    BY DEF Init, StopClosesAll
<1> QED BY <1>1, <1>2, <1>3 DEF SoloInv

\* Once stop() has returned, only the clients take steps.
LEMMA NothingAfterStop ==
    ASSUME JoinBarrier, spc = "stopped", [Next]_vars
    PROVE  UNCHANGED <<fdTable, spc>>
<1>1. ASSUME NEW w \in Workers, WorkerStep(w) PROVE FALSE
    BY <1>1 DEF JoinBarrier, WorkerStep, ReadRunning, WaitEvents, TakeClient,
       Accept, AcceptFails, AddToEpoll, AddToEpollFails, StoreConnection, Lookup,
       LookupFails, RecvData, RecvAgain, RecvFails, RecvEof, CloseDel, CloseFd, CloseErase
<1>2. ~StopBegins /\ ~StopStep
    BY DEF StopBegins, StopStep, StopClosesListener, StopJoins, StopClosesEpoll,
       StopClosesConnections
<1> QED BY <1>1, <1>2 DEF Next, ClientStep, PeerStep, PeerConnect, PeerSend, PeerClose,
    PeerReset, Finished, vars

\* With one worker SoloInv is inductive.
LEMMA SoloStep ==
    ASSUME OneWorker, SoloInv, [Next]_vars
    PROVE  SoloInv'
<1>1. PICK w \in Workers : Workers = {w}
    BY DEF OneWorker
<1>2. TypeOK /\ OneOwner /\ JoinBarrier /\ Solo(w)
    BY DEF SoloInv, Ownership
<1>3. Ownership' /\ SocketsSound'
    BY OwnershipStep, SocketsSoundStep DEF SoloInv, Ownership
<1>4. Solo(w)'
  <2>1. CASE ClientStep
    BY <1>2, <2>1, ClientStepSolo
  <2>2. CASE \E v \in Workers : WorkerStep(v)
    BY <1>1, <1>2, <2>2, WorkerSolo
  <2>3. CASE StopBegins \/ StopStep
    BY <2>3, StopSolo DEF SoloInv
  <2>4. CASE UNCHANGED vars
    BY <1>2, <2>4, KernelStepSolo DEF vars, Solo, ReadyWatched, Readable
  <2> QED BY <2>1, <2>2, <2>3, <2>4 DEF Next, Finished
<1>5. StopClosesAll'
  <2>1. CASE spc = "stopped"
    BY <1>2, <2>1, NothingAfterStop DEF SoloInv, StopClosesAll, Open
  <2>2. CASE spc # "stopped" /\ StopClosesConnections
    BY <2>2, StopSolo DEF SoloInv, StopClosesAll, StopStep
  <2>3. CASE spc # "stopped" /\ ~StopClosesConnections
    <3>1. ASSUME NEW v \in Workers, WorkerStep(v) PROVE spc' = spc
        BY <3>1 DEF WorkerStep, ReadRunning, WaitEvents, TakeClient, Accept, AcceptFails,
           AddToEpoll, AddToEpollFails, StoreConnection, Lookup, LookupFails, RecvData,
           RecvAgain, RecvFails, RecvEof, CloseDel, CloseFd, CloseErase
    <3>2. spc' # "stopped"
        BY <2>3, <3>1 DEF Next, ClientStep, StopBegins, StopStep, StopClosesListener,
           StopJoins, StopClosesEpoll, Finished, vars
    <3> QED BY <3>2 DEF StopClosesAll
  <2> QED BY <2>1, <2>2, <2>3
<1> QED BY <1>1, <1>3, <1>4, <1>5 DEF SoloInv

\* SoloInv holds in every reachable state of a server with one worker.
LEMMA SoloInvariant == ASSUME OneWorker PROVE Spec => []SoloInv
<1>1. Init => SoloInv
    BY SoloInit
<1>2. SoloInv /\ [Next]_vars => SoloInv'
    BY SoloStep
<1> QED BY <1>1, <1>2, PTL DEF Spec

\* With one worker no handler reads a Connection that has been freed.
THEOREM SoloNoDangling == ASSUME OneWorker PROVE Spec => []NoDangling
<1>1. SoloInv => NoDangling
  <2> SUFFICES ASSUME SoloInv, NEW w \in Workers
               PROVE  /\ \A e \in batch[w] : e[2] = NoConn \/ e[2] \in live
                      /\ wpc[w] \in {"recv", "del", "close", "erase"} => wconn[w] \in live
    BY DEF NoDangling
  <2>1. \A f \in Registered : connections[f] \in live
    BY DEF SoloInv, Ownership, OneOwner, EntriesOwned
  <2>2. BatchSound(w) /\ CallSound(w)
    BY DEF SoloInv, Solo
  <2> QED BY <2>1, <2>2 DEF BatchSound, CallSound, ListenerEvent
<1> QED BY <1>1, SoloInvariant, PTL

\* With one worker the map and the descriptor table agree outside the handlers.
THEOREM SoloTableAgrees == ASSUME OneWorker PROVE Spec => []TableAgrees
<1>1. SoloInv => TableAgrees
  <2> SUFFICES ASSUME SoloInv, NEW f \in Fds
               PROVE  \/ Open(f) <=> f \in Registered
                      \/ \E w \in Workers :
                          \/ wpc[w] \in {"add", "insert"} /\ wfd[w] = f
                          \/ wpc[w] = "erase" /\ connFd[wconn[w]] = f
    BY DEF TableAgrees
  <2>1. PICK w \in Workers : TableSound(w) /\ CallSound(w)
    BY DEF SoloInv, Solo, OneWorker
  <2>2. wpc[w] = "erase" => connFd[wconn[w]] = wfd[w]
    BY <2>1 DEF CallSound, SoloInv, Ownership, OneOwner, EntriesOwned
  <2> QED BY <2>1, <2>2 DEF TableSound
<1> QED BY <1>1, SoloInvariant, PTL

\* With one worker no edge-triggered event is lost: a readable socket is on the
\* ready list or in the worker's hands.
THEOREM SoloNoMissedEdge == ASSUME OneWorker PROVE Spec => []NoMissedEdge
<1>1. SoloInv => NoMissedEdge
    BY DEF SoloInv, Solo, EdgeKept, NoMissedEdge, OneWorker
<1> QED BY <1>1, SoloInvariant, PTL

\* With one worker stop() closes every accepted socket.
THEOREM SoloStopClosesAll == ASSUME OneWorker PROVE Spec => []StopClosesAll
<1>1. SoloInv => StopClosesAll
    BY DEF SoloInv
<1> QED BY <1>1, SoloInvariant, PTL

\* With one worker a connection is closed only when its client has closed it
\* and its data was read, when it could not be registered, or by stop().
THEOREM SoloOnlyDisconnected == ASSUME OneWorker PROVE Spec => OnlyDisconnectedClosed
<1> DEFINE Justified ==
      \A f \in Fds :
        Open(f) /\ fdTable'[f] # fdTable[f] =>
            \/ spc = "closeConns"
            \/ \E w \in Workers : wpc[w] = "add" /\ wfd[w] = f
            \/ peer[fdTable[f]] \in {"fin", "err"} /\ unread[fdTable[f]] = 0
<1>1. SoloInv /\ [Next]_vars => Justified
  <2> SUFFICES ASSUME SoloInv, [Next]_vars PROVE Justified
    OBVIOUS
  <2>1. CASE UNCHANGED fdTable
    BY <2>1
  <2>2. ASSUME NEW w \in Workers, NEW p \in backlog, NEW f \in Fds, Accept(w, p, f)
        PROVE  Justified
    <3>1. ~Open(f) /\ fdTable' = [fdTable EXCEPT ![f] = p]
        BY <2>2 DEF Accept, SysAccept, LowestFree
    <3> QED BY <3>1
  <2>3. ASSUME NEW w \in Workers, AddToEpollFails(w) PROVE Justified
    BY <2>3 DEF AddToEpollFails, SysClose
  <2>4. ASSUME NEW w \in Workers, CloseFd(w) PROVE Justified
    <3>1. TypeOK /\ OneOwner /\ Solo(w) /\ wpc[w] = "close"
        BY <2>4 DEF SoloInv, Ownership, CloseFd
    <3>2. FdThrough(wconn[w]) = {wfd[w]}
        BY <3>1, ClosesOwnFd
    <3>3. fdTable' = [f \in Fds |-> IF f \in {wfd[w]} THEN NoPeer ELSE fdTable[f]]
        BY <2>4, <3>2 DEF CloseFd, SysClose
    <3>4. peer[fdTable[wfd[w]]] \in {"fin", "err"} /\ unread[fdTable[wfd[w]]] = 0
        BY <3>1 DEF Solo, CallSound
    <3> QED BY <3>3, <3>4
  <2>5. CASE StopClosesConnections
    BY <2>5 DEF StopClosesConnections
  <2>6. ASSUME NEW w \in Workers, WorkerStep(w) PROVE Justified
    BY <2>1, <2>2, <2>3, <2>4, <2>6 DEF WorkerStep, ReadRunning, WaitEvents, SysWait,
       TakeClient, AcceptFails, AddToEpoll, SysAdd, StoreConnection, Lookup, LookupFails,
       RecvData, SysRecvData, RecvAgain, RecvFails, SysRecvReset, RecvEof, CloseDel, SysDel,
       CloseErase, SocketsUnchanged
  <2> QED BY <2>1, <2>5, <2>6 DEF Next, ClientStep, PeerStep, PeerConnect, PeerSend, PeerClose,
      PeerReset, StopBegins, StopStep, StopClosesListener, SysCloseListener, StopJoins,
      StopClosesEpoll, SocketsUnchanged, Finished, vars
<1> QED BY <1>1, SoloInvariant, PTL DEF Spec, OnlyDisconnectedClosed

-----------------------------------------------------------------------------
(* With one worker the server implements ClientSessions                    *)

Ends == {"fin", "rst", "err"}

\* The listening socket is closed by the second step of stop().
ListensUntilStop == listening <=> spc \in {"idle", "closeListener"}

-----------------------------------------------------------------------------
(* What a step of the server is for the clients                            *)

\* The worker registers f in its accept_connections, and no other descriptor.
LEMMA RegisteringSolo ==
    ASSUME NEW w \in Workers, Workers = {w}, NEW f
    PROVE  /\ Registering(f) <=> Accepting(w) /\ wfd[w] = f
           /\ Registering(f)' <=> (Accepting(w) /\ wfd[w] = f)'
  BY DEF Registering, Accepting

\* A connection whose state and descriptor stay the same is where it was.
LEMMA SameSession ==
    ASSUME NEW p \in Peers,
           p \in backlog' <=> p \in backlog,
           \A f \in Fds : fdTable'[f] = p <=> fdTable[f] = p,
           \A f \in Fds : fdTable[f] = p => (Registering(f)' <=> Registering(f)),
           peer'[p] = "gone" <=> peer[p] = "gone"
    PROVE  SessionOf(p)' = SessionOf(p)
  BY DEF SessionOf

\* The place of a connection that has a descriptor.
LEMMA SessionOfOpen ==
    ASSUME SocketsSound, NEW f \in Fds, fdTable[f] \in Peers, fdTable[f] # NoPeer
    PROVE  SessionOf(fdTable[f]) = IF Registering(f) THEN "new" ELSE "held"
<1>1. Open(f)
    BY DEF Open
<1>2. fdTable[f] \notin backlog /\ \A g \in Fds : fdTable[g] = fdTable[f] => g = f
    BY <1>1 DEF SocketsSound
<1> QED BY <1>2 DEF SessionOf

\* Steps that no client notices.
LEMMA Unnoticed ==
    ASSUME UNCHANGED <<backlog, fdTable, listening>>,
           spc' = "stopped" <=> spc = "stopped",
           \A p \in Peers : peer'[p] = "gone" <=> peer[p] = "gone",
           \A p \in Peers : peer'[p] \in Ends <=> peer[p] \in Ends,
           \A f \in Fds : Registering(f)' <=> Registering(f)
    PROVE  UNCHANGED Sessions!sessionVars
<1>1. \A p \in Peers : SessionOf(p)' = SessionOf(p)
    BY SameSession
<1> QED BY <1>1 DEF Sessions!sessionVars, Ends

\* One connection goes on.
LEMMA GoesOn ==
    ASSUME NEW p \in Peers, NEW from, NEW to,
           SessionOf(p) = from, SessionOf(p)' = to,
           \A q \in Peers : q # p => SessionOf(q)' = SessionOf(q)
    PROVE  Sessions!Move(p, from, to)
  BY DEF Sessions!Move

\* A client connects, sends or ends.
LEMMA ClientStepMaps ==
    ASSUME TypeOK, SocketsSound, ListensUntilStop, ClientStep
    PROVE  [Sessions!Next]_Sessions!sessionVars
<1>1. PICK p \in Peers : PeerConnect(p) \/ PeerSend(p) \/ PeerClose(p) \/ PeerReset(p)
    BY DEF ClientStep, PeerStep
<1>2. UNCHANGED <<listening, fdTable, wpc, wfd, spc>>
    BY <1>1 DEF ClientStep, PeerConnect, PeerSend, PeerClose, PeerReset
<1>3. \A f \in Fds : Registering(f)' <=> Registering(f)
    BY <1>2 DEF Registering
<1>4. CASE PeerConnect(p)
  <2>1. /\ listening /\ peer[p] = "idle" /\ p \notin backlog
        /\ \A f \in Fds : fdTable[f] # p
        /\ backlog' = backlog \cup {p}
        /\ \A q \in Peers : peer'[q] = IF q = p THEN "open" ELSE peer[q]
    BY <1>4 DEF PeerConnect, SocketsSound, TypeOK, SocketsTypeOK
  <2>2. SessionOf(p) = "none" /\ SessionOf(p)' = "waiting"
    BY <2>1 DEF SessionOf
  <2>3. \A q \in Peers : q # p => SessionOf(q)' = SessionOf(q)
    BY <1>2, <1>3, <2>1, SameSession
  <2>4. Sessions!Move(p, "none", "waiting")
    BY <2>2, <2>3, GoesOn
  <2>5. {q \in Peers : peer'[q] \in {"fin", "rst", "err"}} = {q \in Peers : peer[q] \in {"fin", "rst", "err"}}
    BY <2>1
  <2>6. Sessions!Arrive(p)
    BY <1>2, <2>1, <2>4, <2>5 DEF Sessions!Arrive, ListensUntilStop
  <2> QED BY <2>6 DEF Sessions!Next
<1>5. CASE PeerSend(p)
    BY <1>2, <1>3, <1>5, Unnoticed DEF PeerSend
<1>6. CASE PeerClose(p) \/ PeerReset(p)
  <2>1. /\ peer[p] = "open" /\ backlog' = backlog
        /\ peer'[p] \in Ends
        /\ \A q \in Peers : q # p => peer'[q] = peer[q]
    BY <1>6 DEF PeerClose, PeerReset, Ends, TypeOK, SocketsTypeOK
  <2>2. p \in backlog \/ \E f \in Fds : fdTable[f] = p
    BY <2>1 DEF SocketsSound
  <2>3. SessionOf(p) \in {"waiting", "new", "held"}
    BY <2>2 DEF SessionOf
  <2>4. \A q \in Peers : SessionOf(q)' = SessionOf(q)
    BY <1>2, <1>3, <2>1, SameSession DEF Ends
  <2>5. {q \in Peers : peer'[q] \in {"fin", "rst", "err"}} = {q \in Peers : peer[q] \in {"fin", "rst", "err"}} \cup {p}
    BY <2>1 DEF Ends
  <2>6. Sessions!End(p)
    BY <1>2, <2>3, <2>4, <2>5 DEF Sessions!End
  <2> QED BY <2>6 DEF Sessions!Next
<1> QED BY <1>1, <1>4, <1>5, <1>6

\* accept() takes a connection that waits.
LEMMA AcceptMaps ==
    ASSUME TypeOK, SocketsSound, ListensUntilStop, NEW w \in Workers, Workers = {w},
           NEW p \in backlog, NEW f \in Fds, Accept(w, p, f)
    PROVE  Sessions!Next
<1>1. /\ ~Open(f) /\ wpc[w] = "next"
      /\ backlog' = backlog \ {p}
      /\ fdTable' = [fdTable EXCEPT ![f] = p]
      /\ wfd' = [wfd EXCEPT ![w] = f] /\ wpc' = [wpc EXCEPT ![w] = "add"]
      /\ UNCHANGED <<peer, listening, spc>>
    BY DEF Accept, SysAccept, LowestFree, Goto
<1>2. p \in Peers /\ p # NoPeer /\ fdTable[f] = NoPeer
    BY <1>1, PeersAssumption DEF Open, TypeOK, SocketsTypeOK
<1>3. \A g \in Fds : fdTable'[g] = IF g = f THEN p ELSE fdTable[g]
    BY <1>1 DEF TypeOK, SocketsTypeOK
<1>4. wpc'[w] = "add" /\ wfd'[w] = f
    BY <1>1 DEF TypeOK
<1>5. \A g \in Fds : ~Registering(g) /\ (Registering(g)' <=> g = f)
    BY <1>1, <1>4, RegisteringSolo DEF Accepting
<1>6. SessionOf(p) = "waiting" /\ SessionOf(p)' = "new"
    BY <1>1, <1>3, <1>5 DEF SessionOf
<1>7. ASSUME NEW q \in Peers, q # p PROVE SessionOf(q)' = SessionOf(q)
  <2>1. \A g \in Fds : (fdTable'[g] = q <=> fdTable[g] = q) /\ (fdTable[g] = q => g # f)
    BY <1>2, <1>3, <1>7, PeersAssumption
  <2> QED BY <1>1, <1>5, <1>7, <2>1, SameSession
<1>8. Sessions!Move(p, "waiting", "new")
    BY <1>2, <1>6, <1>7, GoesOn
<1>9. listening /\ spc # "stopped"
    BY DEF SocketsSound, ListensUntilStop
<1> QED BY <1>1, <1>2, <1>8, <1>9 DEF Sessions!Next, Sessions!Take

\* The locked section completes a registration.
LEMMA StoreMaps ==
    ASSUME TypeOK, SocketsSound, JoinBarrier, NEW w \in Workers, Workers = {w}, Solo(w),
           StoreConnection(w)
    PROVE  Sessions!Next
<1>1. /\ wpc[w] = "insert" /\ wpc'[w] \in {"loop", "next"}
      /\ UNCHANGED <<peer, backlog, fdTable, listening, spc>>
    BY DEF StoreConnection, Return, Goto, SocketsUnchanged, TypeOK
<1> PICK f \in Fds : f = wfd[w] /\ Open(f)
    BY <1>1 DEF Solo, CallSound, Accepting, Open
<1> PICK p \in Peers : p = fdTable[f]
    BY DEF Open, TypeOK, SocketsTypeOK
<1>2. p # NoPeer
    BY PeersAssumption
<1>3. \A g \in Fds : ~Registering(g)' /\ (Registering(g) <=> g = f)
    BY <1>1, RegisteringSolo DEF Accepting
<1>4. SessionOf(p) = "new"
    BY <1>2, <1>3, SessionOfOpen
<1>5. p \notin backlog /\ \A g \in Fds : fdTable[g] = p => g = f
    BY <1>2 DEF SocketsSound, Open
<1>6. SessionOf(p)' = "held"
    BY <1>1, <1>2, <1>3, <1>5 DEF SessionOf
<1>7. \A q \in Peers : q # p => SessionOf(q)' = SessionOf(q)
    BY <1>1, <1>3, SameSession
<1>8. Sessions!Move(p, "new", "held")
    BY <1>2, <1>4, <1>6, <1>7, GoesOn
<1>9. spc # "stopped"
    BY <1>1 DEF JoinBarrier
<1> QED BY <1>1, <1>2, <1>8, <1>9 DEF Sessions!Next, Sessions!Register

\* close() of one descriptor ends the connection it refers to, and no other.
LEMMA CloseEnds ==
    ASSUME TypeOK, SocketsSound, NEW f \in Fds, Open(f), SysClose({f}),
           \A g \in Fds : g # f => (Registering(g)' <=> Registering(g))
    PROVE  /\ fdTable[f] \in Peers
           /\ Sessions!Move(fdTable[f], IF Registering(f) THEN "new" ELSE "held", "over")
           /\ {q \in Peers : peer'[q] \in {"fin", "rst", "err"}}
                  = {q \in Peers : peer[q] \in {"fin", "rst", "err"}} \ {fdTable[f]}
           /\ UNCHANGED listening
<1> PICK p \in Peers : p = fdTable[f]
    BY DEF Open, TypeOK, SocketsTypeOK
<1>1. p # NoPeer
    BY PeersAssumption
<1>2. /\ \A g \in Fds : fdTable'[g] = IF g = f THEN NoPeer ELSE fdTable[g]
      /\ \A q \in Peers : peer'[q] = IF q = p THEN "gone" ELSE peer[q]
      /\ UNCHANGED <<backlog, listening>>
    BY DEF SysClose
<1>3. p \notin backlog /\ \A g \in Fds : fdTable[g] = p => g = f
    BY DEF SocketsSound, Open
<1>4. \A g \in Fds : fdTable'[g] # p
    BY <1>1, <1>2, <1>3
<1>5. SessionOf(p) = IF Registering(f) THEN "new" ELSE "held"
    BY <1>1, SessionOfOpen
<1>6. SessionOf(p)' = "over"
    BY <1>1, <1>2, <1>3, <1>4 DEF SessionOf
<1>7. ASSUME NEW q \in Peers, q # p PROVE SessionOf(q)' = SessionOf(q)
  <2>1. \A g \in Fds : (fdTable'[g] = q <=> fdTable[g] = q) /\ (fdTable[g] = q => g # f)
    BY <1>1, <1>2, <1>7, PeersAssumption
  <2> QED BY <1>2, <1>7, <2>1, SameSession
<1>8. Sessions!Move(p, IF Registering(f) THEN "new" ELSE "held", "over")
    BY <1>1, <1>5, <1>6, <1>7, GoesOn
<1> QED BY <1>1, <1>2, <1>8

\* A connection that epoll does not take is dropped.
LEMMA AddFailsMaps ==
    ASSUME TypeOK, SocketsSound, JoinBarrier, NEW w \in Workers, Workers = {w}, Solo(w),
           AddToEpollFails(w)
    PROVE  Sessions!Next
<1> DEFINE f == wfd[w]
<1>1. wpc[w] = "add" /\ wpc'[w] \in {"loop", "next"} /\ SysClose({f}) /\ spc' = spc
    BY DEF AddToEpollFails, Return, Goto, TypeOK
<1>2. f \in Fds /\ Open(f)
    BY <1>1 DEF Solo, CallSound, Accepting, Open
<1>3. \A g \in Fds : ~Registering(g)' /\ (Registering(g) <=> g = f)
    BY <1>1, RegisteringSolo DEF Accepting
<1>4. /\ fdTable[f] \in Peers
      /\ Sessions!Move(fdTable[f], "new", "over")
      /\ {q \in Peers : peer'[q] \in {"fin", "rst", "err"}}
             = {q \in Peers : peer[q] \in {"fin", "rst", "err"}} \ {fdTable[f]}
      /\ UNCHANGED listening
    BY <1>1, <1>2, <1>3, CloseEnds
<1>5. spc # "stopped"
    BY <1>1 DEF JoinBarrier
<1> QED BY <1>1, <1>4, <1>5 DEF Sessions!Next, Sessions!Reject

\* close_connection releases a connection whose client has ended it.
LEMMA CloseFdMaps ==
    ASSUME TypeOK, OneOwner, SocketsSound, JoinBarrier, NEW w \in Workers, Workers = {w}, Solo(w),
           CloseFd(w)
    PROVE  Sessions!Next
<1> DEFINE f == wfd[w]
<1>1. wpc[w] = "close" /\ wpc'[w] = "erase" /\ spc' = spc
    BY DEF CloseFd, Goto, TypeOK
<1>2. SysClose({f})
    BY <1>1, ClosesOwnFd DEF CloseFd
<1>3. f \in Fds /\ Open(f) /\ peer[fdTable[f]] \in {"fin", "err"}
    BY <1>1 DEF Solo, CallSound, Serving, Open
<1>4. \A g \in Fds : ~Registering(g)' /\ ~Registering(g)
    BY <1>1, RegisteringSolo DEF Accepting
<1>5. /\ fdTable[f] \in Peers
      /\ Sessions!Move(fdTable[f], "held", "over")
      /\ {q \in Peers : peer'[q] \in {"fin", "rst", "err"}}
             = {q \in Peers : peer[q] \in {"fin", "rst", "err"}} \ {fdTable[f]}
      /\ UNCHANGED listening
    BY <1>2, <1>3, <1>4, CloseEnds
<1>6. spc # "stopped"
    BY <1>1 DEF JoinBarrier
<1> QED BY <1>1, <1>3, <1>5, <1>6 DEF Sessions!Next, Sessions!Release

\* The other steps of the worker: no client notices them.
LEMMA OthersUnnoticed ==
    ASSUME TypeOK, NEW w \in Workers, Workers = {w}, WorkerStep(w),
           ~AddToEpollFails(w), ~StoreConnection(w), ~CloseFd(w),
           \A p \in backlog, f \in Fds : ~Accept(w, p, f)
    PROVE  UNCHANGED Sessions!sessionVars
<1>1. UNCHANGED <<backlog, fdTable, listening, spc>>
    BY DEF WorkerStep, ReadRunning, WaitEvents, SysWait, TakeClient, AcceptFails,
       AddToEpoll, SysAdd, Lookup, LookupFails, RecvData, SysRecvData, RecvAgain,
       RecvFails, SysRecvReset, RecvEof, CloseDel, SysDel, CloseErase, SocketsUnchanged
<1>2. \A f \in Fds : Registering(f)' <=> Registering(f)
  <2>1. CASE \E c \in Conns : AddToEpoll(w, c)
    <3>1. wpc[w] = "add" /\ wpc'[w] = "insert" /\ wfd' = wfd
        BY <2>1 DEF AddToEpoll, Goto, TypeOK
    <3> QED BY <3>1, RegisteringSolo DEF Accepting
  <2>2. CASE \A c \in Conns : ~AddToEpoll(w, c)
    <3>1. ~Accepting(w)
        BY <2>2 DEF Accepting, WorkerStep, ReadRunning, WaitEvents, TakeClient, AcceptFails,
           Lookup, LookupFails, RecvData, RecvAgain, RecvFails, RecvEof, CloseDel, CloseErase
    <3>2. wpc'[w] \notin {"add", "insert"}
        BY <2>2, <3>1 DEF Accepting, WorkerStep, ReadRunning, WaitEvents, TakeClient,
           AcceptFails, Lookup, LookupFails, RecvData, RecvAgain, RecvFails, RecvEof,
           CloseDel, CloseErase, Goto, Return, TypeOK
    <3> QED BY <3>1, <3>2, RegisteringSolo DEF Accepting
  <2> QED BY <2>1, <2>2
<1>3. ASSUME NEW p \in Peers
      PROVE  (peer'[p] = "gone" <=> peer[p] = "gone") /\ (peer'[p] \in Ends <=> peer[p] \in Ends)
  <2>1. CASE UNCHANGED peer
    BY <2>1
  <2>2. CASE RecvFails(w) /\ Open(wfd[w])
    <3>1. PICK q \in Peers : q = fdTable[wfd[w]]
        BY <2>2 DEF Open, TypeOK, SocketsTypeOK
    <3>2. peer[q] = "rst" /\ peer' = [peer EXCEPT ![q] = "err"]
        BY <2>2, <3>1 DEF RecvFails, SysRecvReset
    <3> QED BY <3>2 DEF Ends, TypeOK, SocketsTypeOK
  <2>3. UNCHANGED peer \/ (RecvFails(w) /\ Open(wfd[w]))
    BY DEF WorkerStep, ReadRunning, WaitEvents, SysWait, TakeClient, AcceptFails,
       AddToEpoll, SysAdd, Lookup, LookupFails, RecvData, SysRecvData, RecvAgain,
       RecvFails, RecvEof, CloseDel, SysDel, CloseErase, SocketsUnchanged
  <2> QED BY <2>1, <2>2, <2>3
<1> QED BY <1>1, <1>2, <1>3, Unnoticed

-----------------------------------------------------------------------------
(* What stop() is for the clients                                          *)

\* Closing the listening socket refuses the connections that wait.
LEMMA CloseListenerMaps ==
    ASSUME TypeOK, SocketsSound, ListensUntilStop, StopClosesListener
    PROVE  Sessions!Next
<1>1. /\ spc = "closeListener" /\ spc' = "join" /\ ~listening'
      /\ backlog' = {}
      /\ \A p \in Peers : peer'[p] = IF p \in backlog THEN "gone" ELSE peer[p]
      /\ UNCHANGED <<fdTable, wpc, wfd>>
    BY DEF StopClosesListener, SysCloseListener
<1>2. listening
    BY <1>1 DEF ListensUntilStop
<1>3. \A f \in Fds : Registering(f)' <=> Registering(f)
    BY <1>1 DEF Registering
<1>4. \A p \in backlog : \A f \in Fds : fdTable[f] # p
    BY PeersAssumption DEF SocketsSound, Open, TypeOK, SocketsTypeOK
<1>5. ASSUME NEW p \in Peers
      PROVE  /\ SessionOf(p) = "waiting" <=> p \in backlog
             /\ SessionOf(p)' = IF p \in backlog THEN "over" ELSE SessionOf(p)
  <2>1. SessionOf(p) = "waiting" <=> p \in backlog
    BY DEF SessionOf
  <2>2. CASE p \in backlog
    BY <1>1, <1>4, <2>1, <2>2 DEF SessionOf
  <2>3. CASE p \notin backlog
    BY <1>1, <1>3, <2>1, <2>3, SameSession
  <2> QED BY <2>1, <2>2, <2>3
<1>6. [p \in Peers |-> SessionOf(p)]' =
          [p \in Peers |-> IF [q \in Peers |-> SessionOf(q)][p] = "waiting" THEN "over"
                           ELSE [q \in Peers |-> SessionOf(q)][p]]
    BY <1>5
<1>7. {p \in Peers : peer[p] \in {"fin", "rst", "err"}}' =
          {p \in {q \in Peers : peer[q] \in {"fin", "rst", "err"}} :
               [q \in Peers |-> SessionOf(q)][p] # "waiting"}
    BY <1>1, <1>5
<1>8. Sessions!Closing
    BY <1>1, <1>2, <1>6, <1>7 DEF Sessions!Closing
<1> QED BY <1>8 DEF Sessions!Next

\* The last step of stop() ends every session: past join() nobody registers
\* a connection, and each one under way has an entry in the map.
LEMMA CloseConnectionsMaps ==
    ASSUME Ownership, SocketsSound, ListensUntilStop, NEW w \in Workers, Workers = {w}, Solo(w),
           StopClosesConnections
    PROVE  Sessions!Next
<1> TypeOK /\ OneOwner /\ JoinBarrier
    BY DEF Ownership
<1>1. /\ spc = "closeConns" /\ spc' = "stopped"
      /\ SysClose({connFd[connections[f]] : f \in Registered})
      /\ UNCHANGED <<wpc, wfd>>
    BY DEF StopClosesConnections
<1>2. wpc[w] = "exited" /\ ~listening /\ backlog = {}
    BY <1>1 DEF JoinBarrier, ListensUntilStop, SocketsSound
<1>3. {connFd[connections[f]] : f \in Registered} = Registered
    BY DEF OneOwner, EntriesOwned
<1>4. \A f \in Fds : Open(f) <=> f \in Registered
    BY <1>2 DEF Solo, TableSound, Accepting
<1>5. /\ \A f \in Fds : fdTable'[f] = NoPeer
      /\ \A p \in Peers : peer'[p] = IF \E f \in Fds : fdTable[f] = p THEN "gone" ELSE peer[p]
      /\ UNCHANGED <<backlog, listening>>
  <2>1. \A f \in Fds : fdTable'[f] = IF f \in Registered THEN NoPeer ELSE fdTable[f]
    BY <1>1, <1>3 DEF SysClose
  <2>2. \A p \in Peers : peer'[p] = IF p \in {fdTable[f] : f \in Registered \cap Fds} THEN "gone" ELSE peer[p]
    BY <1>1, <1>3 DEF SysClose
  <2>3. \A p \in Peers : p \in {fdTable[f] : f \in Registered \cap Fds} <=> \E f \in Fds : fdTable[f] = p
    BY <1>4, PeersAssumption DEF Open, Registered
  <2> QED BY <1>1, <1>4, <2>1, <2>2, <2>3 DEF SysClose, Open
<1>6. \A f \in Fds : ~Registering(f) /\ ~Registering(f)'
    BY <1>1, <1>2, RegisteringSolo DEF Accepting
<1>7. ASSUME NEW p \in Peers
      PROVE  /\ SessionOf(p) # "new"
             /\ SessionOf(p)' = IF SessionOf(p) = "held" THEN "over" ELSE SessionOf(p)
             /\ peer'[p] \notin Ends
  <2>1. p # NoPeer
    BY PeersAssumption
  <2>2. SessionOf(p)' = IF peer'[p] = "gone" THEN "over" ELSE "none"
    BY <1>2, <1>5, <2>1 DEF SessionOf
  <2>3. SessionOf(p) = IF \E f \in Fds : fdTable[f] = p THEN "held"
                       ELSE IF peer[p] = "gone" THEN "over" ELSE "none"
    BY <1>2, <1>6 DEF SessionOf
  <2>4. (\E f \in Fds : fdTable[f] = p) \/ peer[p] \in {"idle", "gone"}
    BY <1>2 DEF SocketsSound
  <2> QED BY <1>5, <2>2, <2>3, <2>4 DEF Ends
<1>8. [p \in Peers |-> SessionOf(p)]' =
          [p \in Peers |-> IF [q \in Peers |-> SessionOf(q)][p] = "held" THEN "over"
                           ELSE [q \in Peers |-> SessionOf(q)][p]]
    BY <1>7
<1>9. {p \in Peers : peer[p] \in {"fin", "rst", "err"}}' = {}
    BY <1>7 DEF Ends
<1>10. Sessions!Down
    BY <1>1, <1>2, <1>7, <1>8, <1>9 DEF Sessions!Down
<1> QED BY <1>10 DEF Sessions!Next

-----------------------------------------------------------------------------
(* The refinement                                                          *)

\* The listening socket is closed once, by stop().
LEMMA ListensStep == TypeOK /\ ListensUntilStop /\ [Next]_vars => ListensUntilStop'
<1> SUFFICES ASSUME TypeOK, ListensUntilStop, [Next]_vars PROVE ListensUntilStop'
    OBVIOUS
<1>1. CASE ClientStep
    BY <1>1 DEF ListensUntilStop, ClientStep, PeerStep, PeerConnect, PeerSend, PeerClose, PeerReset
<1>2. ASSUME NEW w \in Workers, WorkerStep(w) PROVE UNCHANGED <<listening, spc>>
    BY <1>2 DEF WorkerStep, ReadRunning, WaitEvents, SysWait, TakeClient, Accept, SysAccept,
       AcceptFails, AddToEpoll, SysAdd, AddToEpollFails, SysClose, StoreConnection, Lookup,
       LookupFails, RecvData, SysRecvData, RecvAgain, RecvFails, SysRecvReset, RecvEof,
       CloseDel, SysDel, CloseFd, CloseErase, SocketsUnchanged
<1>3. CASE StopBegins \/ StopStep
    BY <1>3 DEF ListensUntilStop, StopBegins, StopStep, StopClosesListener, SysCloseListener,
       StopJoins, StopClosesEpoll, StopClosesConnections, SysClose, SocketsUnchanged
<1> QED BY <1>1, <1>2, <1>3 DEF Next, Finished, ListensUntilStop, vars

\* Every step of the server is a step of ClientSessions or a stutter.
LEMMA SessionsStep ==
    ASSUME OneWorker, SoloInv, ListensUntilStop, [Next]_vars
    PROVE  [Sessions!Next]_Sessions!sessionVars
<1>1. PICK w \in Workers : Workers = {w}
    BY DEF OneWorker
<1>2. TypeOK /\ OneOwner /\ JoinBarrier /\ Ownership /\ SocketsSound /\ Solo(w)
    BY DEF SoloInv, Ownership
<1>3. CASE ClientStep
    BY <1>2, <1>3, ClientStepMaps
<1>4. CASE WorkerStep(w)
  <2>1. CASE \E p \in backlog, f \in Fds : Accept(w, p, f)
    BY <1>1, <1>2, <2>1, AcceptMaps
  <2>2. CASE AddToEpollFails(w) \/ StoreConnection(w) \/ CloseFd(w)
    BY <1>1, <1>2, <2>2, AddFailsMaps, StoreMaps, CloseFdMaps
  <2> QED BY <1>1, <1>2, <1>4, <2>1, <2>2, OthersUnnoticed
<1>5. CASE StopClosesListener \/ StopClosesConnections
    BY <1>1, <1>2, <1>5, CloseListenerMaps, CloseConnectionsMaps
<1>6. CASE StopBegins \/ StopJoins \/ StopClosesEpoll \/ UNCHANGED vars
  <2>1. UNCHANGED <<peer, backlog, fdTable, listening, wpc, wfd>>
    BY <1>6 DEF StopBegins, StopJoins, StopClosesEpoll, SocketsUnchanged, vars
  <2>2. spc' = "stopped" <=> spc = "stopped"
    BY <1>6 DEF StopBegins, StopJoins, StopClosesEpoll, vars
  <2> QED BY <2>1, <2>2, Unnoticed DEF Registering
<1> QED BY <1>1, <1>3, <1>4, <1>5, <1>6 DEF Next, StopStep, Finished

\* With one worker the server implements ClientSessions: a connection goes
\* from waiting to registered to released as its client and stop() decide,
\* whatever becomes of other connections.
THEOREM SoloImplementsSessions == ASSUME OneWorker PROVE Spec => SessionsImplemented
<1>1. Init => Sessions!Init
  <2> SUFFICES ASSUME Init PROVE Sessions!Init
    OBVIOUS
  <2>1. \A p \in Peers : SessionOf(p) = "none"
    BY PeersAssumption DEF Init, SocketsInit, SessionOf
  <2> QED BY <2>1 DEF Init, SocketsInit, Sessions!Init
<1>2. Init => ListensUntilStop
    BY DEF Init, SocketsInit, ListensUntilStop
<1>3. SoloInv => TypeOK
    BY DEF SoloInv, Ownership
<1> QED BY <1>1, <1>2, <1>3, SoloInvariant, ListensStep, SessionsStep, PTL
    DEF Spec, SessionsImplemented, Sessions!Spec
=============================================================================
