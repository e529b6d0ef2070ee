------------------------ MODULE SharedBufferProofs --------------------------
(***************************************************************************)
(* What HFTServer and HFTTCPClient make of what they receive into their    *)
(* shared buffer, for any number of peers, workers and messages and any    *)
(* size of the buffer.                                                     *)
(*                                                                         *)
(* As long as no recv() wrote into the buffer while a thread was not done  *)
(* with it, one thread uses it at a time and what it received stays there; *)
(* as long as no recv() ended inside a message either, it begins with a    *)
(* whole message, the one after those received before.                     *)
(***************************************************************************)
EXTENDS Receivers, SequenceTheorems, FiniteSetTheorems, TLAPS

ClientThreads == {"receive", "epoll"}

-----------------------------------------------------------------------------
(* The invariant the others rest on                                        *)

SharedTyped ==
    /\ pc \in [Threads -> Places]
    /\ in \in [Peers -> Seq(Half)] /\ rest \in [Peers -> Nat] /\ written \in [Peers -> Nat]
    /\ peer \in [Peers -> {"up", "fin", "err", "closed"}]
    /\ taken \in Nat /\ count \in Nat /\ bytes \in Nat
    /\ buffer \in Seq(Half) /\ Len(buffer) <= BufferHalves
    /\ got \in [Threads -> Nat] /\ offset \in [Threads -> Nat]
    /\ \A t \in Threads : got[t] <= Len(buffer) /\ offset[t] <= BufferHalves
    /\ handled \in [Peers -> Seq(HandledMessage)]
    /\ conn \in [Workers -> Peers] /\ service \in [Workers -> {"orders", "quotes", "none"}]

\* Where the threads can be, and what a thread has received by then.
ServerPlaces ==
    /\ \A t \in Threads \ Workers : pc[t] = "none"
    /\ \A w \in Workers :
        /\ pc[w] \in {"idle", "recv", "frame", "find", "serve", "update"}
        /\ pc[w] \in {"find", "serve", "update"} => got[w] >= 2

ClientPlaces ==
    /\ \A t \in Threads \ ClientThreads : pc[t] = "none"
    /\ \A t \in ClientThreads :
        /\ pc[t] \in {"wait", "recv", "count", "deliver", "tally", "over"}
        /\ pc[t] = "deliver" => offset[t] <= got[t]
        /\ pc[t] = "tally" => offset[t] + 2 <= got[t]

\* One thread at a time is between its recv() and the last use of the buffer.
OneUser == ~overlap => \A t, u \in Threads : pc[t] \in InUse /\ pc[u] \in InUse => t = u

SharedSound ==
    /\ SharedTyped /\ OneUser
    /\ program = "server" => ServerPlaces
    /\ program = "client" => ClientPlaces

-----------------------------------------------------------------------------
(* Sequences                                                               *)

\* The two halves of a message in a buffer, and the first of them.
LEMMA ShortOf ==
    ASSUME NEW S, NEW s \in Seq(S), NEW n \in 0..Len(s)
    PROVE  /\ SubSeq(s, 1, n) \in Seq(S) /\ Len(SubSeq(s, 1, n)) = n
           /\ \A i \in 1..n : SubSeq(s, 1, n)[i] = s[i]
  OBVIOUS

\* What is left of s after n elements.
LEMMA RestOf ==
    ASSUME NEW S, NEW s \in Seq(S), NEW n \in 0..Len(s)
    PROVE  /\ SubSeq(s, n + 1, Len(s)) \in Seq(S)
           /\ Len(SubSeq(s, n + 1, Len(s))) = Len(s) - n
           /\ \A i \in 1..(Len(s) - n) : SubSeq(s, n + 1, Len(s))[i] = s[i + n]
  OBVIOUS

\* d written over the beginning of s.
LEMMA WrittenOver ==
    ASSUME NEW S, NEW s \in Seq(S), NEW d \in Seq(S),
           NEW r, r = d \o SubSeq(s, Len(d) + 1, Len(s))
    PROVE  /\ r \in Seq(S)
           /\ Len(r) >= Len(s) /\ Len(r) >= Len(d)
           /\ Len(r) = Len(s) \/ Len(r) = Len(d)
           /\ \A i \in 1..Len(d) : r[i] = d[i]
  <1> DEFINE n == Len(d)
             tail == SubSeq(s, n + 1, Len(s))
  <1>1. n \in Nat /\ Len(s) \in Nat
    OBVIOUS
  <1>2. CASE n <= Len(s)
    <2>1. n \in 0..Len(s)
      BY <1>1, <1>2
    <2>2. tail \in Seq(S) /\ Len(tail) = Len(s) - n
      <3> HIDE DEF n
      <3> QED BY <2>1, RestOf
    <2> HIDE DEF tail
    <2>3. d \o tail \in Seq(S) /\ Len(d \o tail) = n + Len(tail)
          /\ \A i \in 1..n : (d \o tail)[i] = d[i]
      BY <2>2
    <2>4. Len(d \o tail) = Len(s)
      <3> HIDE DEF n
      <3> QED BY <1>1, <2>2, <2>3
    <2> QED BY <1>2, <2>3, <2>4 DEF tail
  <1>3. CASE ~(n <= Len(s))
    <2>1. tail = <<>>
      <3> HIDE DEF n
      <3> QED BY <1>1, <1>3
    <2> HIDE DEF tail
    <2>2. d \o tail = d
      BY <2>1
    <2> QED BY <1>1, <1>3, <2>2 DEF tail
  <1> QED BY <1>2, <1>3

-----------------------------------------------------------------------------
(* recv() into the buffer                                                  *)

LEMMA RecvIntoTyped ==
    ASSUME SharedTyped, NEW p \in Peers, NEW t \in Threads, RecvInto(t, p)
    PROVE  LET a == Available(p, BufferHalves)
           IN  /\ a \in 0..Len(in[p]) /\ a <= BufferHalves
               /\ in' \in [Peers -> Seq(Half)]
               /\ \A q \in Peers \ {p} : in'[q] = in[q]
               /\ Len(in'[p]) = Len(in[p]) - a
               /\ \A i \in 1..(Len(in[p]) - a) : in'[p][i] = in[p][i + a]
               /\ taken' = taken + a /\ taken' \in Nat
               /\ rest' = rest /\ peer' = peer /\ peer[p] # "closed"
               /\ split' = (split \/ in[p][a][3] = 1)
               /\ buffer' \in Seq(Half) /\ Len(buffer') <= BufferHalves
               /\ a <= Len(buffer') /\ Len(buffer) <= Len(buffer')
               /\ \A i \in 1..a : buffer'[i] = in[p][i]
               /\ got' = [got EXCEPT ![t] = a] /\ got' \in [Threads -> Nat]
               /\ \A u \in Threads : got'[u] <= Len(buffer')
  <1> DEFINE a == Available(p, BufferHalves)
             stream == in[p]
             data == Received(p, BufferHalves)
             left == SubSeq(stream, a + 1, Len(stream))
  <1>1. stream \in Seq(Half) /\ Len(stream) \in Nat /\ taken \in Nat /\ buffer \in Seq(Half)
        /\ Len(buffer) \in Nat /\ BufferHalves \in Nat /\ got \in [Threads -> Nat]
    BY BufferAssumption DEF SharedTyped
  <1>2. a \in 0..Len(stream) /\ a <= BufferHalves
    BY <1>1 DEF Available
  <1>3. /\ peer[p] # "closed"
        /\ in' = [in EXCEPT ![p] = left]
        /\ taken' = taken + a /\ rest' = rest /\ peer' = peer
        /\ split' = (split \/ in[p][a][3] = 1)
        /\ buffer' = data \o SubSeq(buffer, a + 1, Len(buffer))
        /\ got' = [got EXCEPT ![t] = a]
    BY DEF RecvInto, SysRecv
  <1>4. data = SubSeq(stream, 1, a)
    BY DEF Received
  <1> HIDE DEF a, data, stream
  <1>5. data \in Seq(Half) /\ Len(data) = a /\ \A i \in 1..a : data[i] = stream[i]
    BY <1>1, <1>2, <1>4, ShortOf
  <1>6. left \in Seq(Half) /\ Len(left) = Len(stream) - a
        /\ \A i \in 1..(Len(stream) - a) : left[i] = stream[i + a]
    BY <1>1, <1>2, RestOf
  <1> HIDE DEF left
  <1>7. in' \in [Peers -> Seq(Half)] /\ in'[p] = left /\ \A q \in Peers \ {p} : in'[q] = in[q]
    BY <1>3, <1>6 DEF SharedTyped
  <1>8. /\ buffer' \in Seq(Half) /\ Len(buffer) <= Len(buffer') /\ a <= Len(buffer')
        /\ Len(buffer') = Len(buffer) \/ Len(buffer') = a
        /\ \A i \in 1..a : buffer'[i] = data[i]
    <2>1. buffer' = data \o SubSeq(buffer, Len(data) + 1, Len(buffer))
      BY <1>3, <1>5
    <2> DEFINE new == buffer'
    <2> HIDE DEF new
    <2>2. /\ new \in Seq(Half) /\ Len(buffer) <= Len(new) /\ Len(data) <= Len(new)
          /\ Len(new) = Len(buffer) \/ Len(new) = Len(data)
          /\ \A i \in 1..Len(data) : new[i] = data[i]
      <3>1. new = data \o SubSeq(buffer, Len(data) + 1, Len(buffer))
        BY <2>1 DEF new
      <3>2. buffer \in Seq(Half) /\ data \in Seq(Half)
        BY <1>1, <1>5
      <3>3. /\ new \in Seq(Half) /\ Len(new) >= Len(buffer) /\ Len(new) >= Len(data)
            /\ Len(new) = Len(buffer) \/ Len(new) = Len(data)
            /\ \A i \in 1..Len(data) : new[i] = data[i]
        BY <3>1, <3>2, WrittenOver
      <3> QED BY <3>2, <3>3
    <2> QED BY <1>5, <2>2 DEF new
  <1>9. Len(buffer') <= BufferHalves
    BY <1>2, <1>8 DEF SharedTyped
  <1>10. got' \in [Threads -> Nat] /\ taken' \in Nat
    BY <1>1, <1>2, <1>3
  <1>11. ASSUME NEW u \in Threads PROVE got'[u] <= Len(buffer')
    <2>1. got[u] \in Nat /\ got[u] <= Len(buffer) /\ Len(buffer') \in Nat
      BY <1>1, <1>8 DEF SharedTyped
    <2>2. CASE u = t
      BY <1>1, <1>3, <1>8, <2>2
    <2>3. CASE u # t
      <3>1. got'[u] = got[u]
        BY <1>1, <1>3, <2>3
      <3> QED BY <1>1, <1>8, <2>1, <3>1
    <2> QED BY <2>2, <2>3
  <1>12. \A i \in 1..a : buffer'[i] = stream[i]
    BY <1>5, <1>8
  <1> QED BY <1>2, <1>3, <1>6, <1>7, <1>8, <1>9, <1>10, <1>11, <1>12 DEF a, stream

-----------------------------------------------------------------------------
(* The other steps on the variables of the two programs                    *)

LEMMA OneMore ==
    ASSUME NEW S, NEW s \in Seq(S), NEW e \in S
    PROVE  /\ Append(s, e) \in Seq(S) /\ Len(Append(s, e)) = Len(s) + 1
           /\ \A i \in 1..Len(s) : Append(s, e)[i] = s[i]
           /\ Append(s, e)[Len(s) + 1] = e
  OBVIOUS

LEMMA TwoMore ==
    ASSUME NEW S, NEW s \in Seq(S), NEW d \in S, NEW e \in S
    PROVE  /\ s \o <<d, e>> \in Seq(S) /\ Len(s \o <<d, e>>) = Len(s) + 2
           /\ \A i \in 1..Len(s) : (s \o <<d, e>>)[i] = s[i]
           /\ (s \o <<d, e>>)[Len(s) + 1] = d /\ (s \o <<d, e>>)[Len(s) + 2] = e
  OBVIOUS

LEMMA Joined ==
    ASSUME NEW a, NEW b, NEW c
    PROVE  <<a, b>> \o <<c>> = <<a, b, c>>
  <1> DEFINE S == {a, b, c}
  <1>1. <<a, b>> \in Seq(S) /\ <<c>> \in Seq(S) /\ Len(<<a, b>>) = 2 /\ Len(<<c>>) = 1
    OBVIOUS
  <1> DEFINE r == <<a, b>> \o <<c>>
  <1>2. r \in Seq(S) /\ Len(r) = 3 /\ r[1] = a /\ r[2] = b /\ r[3] = c
    BY <1>1
  <1>3. <<a, b, c>> \in Seq(S) /\ Len(<<a, b, c>>) = 3
    OBVIOUS
  <1>4. \A i \in 1..3 : r[i] = <<a, b, c>>[i]
    BY <1>2
  <1> HIDE DEF r, S
  <1>5. r = <<a, b, c>>
    BY <1>2, <1>3, <1>4, SeqEqual
  <1> QED BY <1>5 DEF r

\* The other end adds to its own stream only.
LEMMA PeerTyped ==
    ASSUME SharedTyped, NEW p \in Peers, PeerWrites(p) \/ SecondHalf(p) \/ PeerLeaves(p)
    PROVE  /\ UNCHANGED <<pc, buffer, got, offset, taken, split, count, bytes, handled, overlap>>
           /\ in' \in [Peers -> Seq(Half)] /\ rest' \in [Peers -> Nat] /\ written' \in [Peers -> Nat]
           /\ peer' \in [Peers -> {"up", "fin", "err", "closed"}]
  <1>1. in[p] \in Seq(Half) /\ rest[p] \in Nat /\ written[p] \in Nat /\ written[p] + 1 \in Nat
    BY DEF SharedTyped
  <1>2. CASE PeerWrites(p)
    <2> DEFINE d == <<p, written[p] + 1, 1>>
               e == <<p, written[p] + 1, 2>>
    <2>1. d \in Half /\ e \in Half
      BY <1>1 DEF Half
    <2>2. \/ in' = [in EXCEPT ![p] = @ \o <<d, e>>] /\ rest' = rest
          \/ in' = [in EXCEPT ![p] = Append(@, d)] /\ rest' = [rest EXCEPT ![p] = written[p] + 1]
      BY <1>2 DEF PeerWrites, Write
    <2> HIDE DEF d, e
    <2>3. in' \in [Peers -> Seq(Half)] /\ rest' \in [Peers -> Nat]
      <3>1. Append(in[p], d) \in Seq(Half) /\ in[p] \o <<d, e>> \in Seq(Half)
        BY <1>1, <2>1, OneMore, TwoMore
      <3>2. PICK s \in Seq(Half) : in' = [in EXCEPT ![p] = s]
        BY <2>2, <3>1
      <3>3. in' \in [Peers -> Seq(Half)]
        BY <3>2 DEF SharedTyped
      <3>4. rest' = rest \/ rest' = [rest EXCEPT ![p] = written[p] + 1]
        BY <2>2
      <3>5. rest' \in [Peers -> Nat]
        BY <1>1, <3>4 DEF SharedTyped
      <3> QED BY <3>3, <3>5
    <2> QED BY <1>1, <1>2, <2>3 DEF SharedTyped, PeerWrites, Write
  <1>3. CASE SecondHalf(p)
    <2>1. <<p, rest[p], 2>> \in Half
      BY <1>1 DEF Half
    <2>2. in' \in [Peers -> Seq(Half)]
      BY <1>1, <1>3, <2>1, OneMore DEF SharedTyped, SecondHalf, RestArrives
    <2> QED BY <1>3, <2>2 DEF SharedTyped, SecondHalf, RestArrives
  <1>4. CASE PeerLeaves(p)
    BY <1>4 DEF SharedTyped, PeerLeaves, PeerEnds
  <1> QED BY <1>2, <1>3, <1>4

\* The message that is handled, and that it is appended to those before it.
LEMMA HandleTyped ==
    ASSUME SharedTyped, NEW t \in Threads, NEW p \in Peers, NEW o \in Nat, o + 2 <= got[t],
           Handle(t, p, o)
    PROVE  LET first == buffer[o + 1]
               whole == buffer[o + 2] = <<first[1], first[2], 2>> /\ first[3] = 1
               m == <<first[1], IF whole THEN first[2] ELSE 0, got[t]>>
           IN  /\ first \in Half /\ buffer[o + 2] \in Half /\ m \in HandledMessage
               /\ handled' = IF overlap THEN handled ELSE [handled EXCEPT ![p] = Append(@, m)]
               /\ handled' \in [Peers -> Seq(HandledMessage)]
  <1> DEFINE first == buffer[o + 1]
             whole == buffer[o + 2] = <<first[1], first[2], 2>> /\ first[3] = 1
             n == IF whole THEN first[2] ELSE 0
             m == <<first[1], n, got[t]>>
  <1>1. o + 1 \in 1..Len(buffer) /\ o + 2 \in 1..Len(buffer) /\ got[t] \in Nat /\ buffer \in Seq(Half)
    <2>1. got[t] \in Nat /\ got[t] <= Len(buffer) /\ buffer \in Seq(Half) /\ Len(buffer) \in Nat
      BY DEF SharedTyped
    <2> QED BY <2>1
  <1>2. first \in Half /\ buffer[o + 2] \in Half
    BY <1>1
  <1> HIDE DEF first, whole
  <1>3. first[1] \in Peers /\ first[2] \in Nat /\ n \in Nat
    BY <1>2 DEF Half
  <1>4. MessageAt(o) = <<first[1], n>>
    BY DEF MessageAt, first, whole
  <1> HIDE DEF n
  <1>5. MessageAt(o) \o <<got[t]>> = m
    BY <1>4, Joined
  <1>6. m \in HandledMessage
    BY <1>1, <1>3 DEF HandledMessage
  <1>7. handled' = IF overlap THEN handled ELSE [handled EXCEPT ![p] = Append(@, m)]
    BY <1>5 DEF Handle
  <1> HIDE DEF m
  <1>8. handled' \in [Peers -> Seq(HandledMessage)]
    BY <1>6, <1>7, OneMore DEF SharedTyped
  <1> QED BY <1>2, <1>6, <1>7, <1>8 DEF m, n, first, whole

-----------------------------------------------------------------------------
(* Every step keeps SharedSound                                            *)

LEMMA SoundInit == Init /\ SharedProgram => SharedSound
  <1> SUFFICES ASSUME Init, SharedProgram PROVE SharedSound
    OBVIOUS
  <1>1. pc \in [Threads -> Places]
    BY DEF Init, Start, Places, TripPrograms, Threads
  <1>2. program = "server" => ServerPlaces
    BY DEF Init, Start, TripPrograms, Threads, ServerPlaces
  <1>3. program = "client" => ClientPlaces
    BY DEF Init, Start, TripPrograms, Threads, ClientPlaces, ClientThreads
  <1>4. SharedTyped
    BY <1>1, RemoteAssumption, BufferAssumption DEF Init, SharedTyped
  <1>5. OneUser
    BY <1>2, <1>3, <1>4 DEF SharedProgram, OneUser, InUse, ServerPlaces, ClientPlaces, ClientThreads,
       Init, Start, Threads, TripPrograms
  <1> QED BY <1>2, <1>3, <1>4, <1>5 DEF SharedSound

\* No thread begins to use the buffer.
LEMMA SameUsers ==
    ASSUME OneUser, overlap' = overlap, \A t \in Threads : pc'[t] \in InUse => pc[t] \in InUse
    PROVE  OneUser'
  BY DEF OneUser

LEMMA RecvUser ==
    ASSUME SharedTyped, NEW t \in Threads, NEW p, RecvInto(t, p), NEW there,
           pc' = [pc EXCEPT ![t] = there]
    PROVE  OneUser'
  <1>1. overlap' = (overlap \/ \E u \in Threads \ {t} : pc[u] \in InUse)
    BY DEF RecvInto
  <1>2. ~overlap' => \A u \in Threads \ {t} : pc'[u] \notin InUse
    BY <1>1 DEF SharedTyped
  <1> QED BY <1>2 DEF OneUser

LEMMA SoundPeer ==
    ASSUME SharedSound, NEW p \in Peers, PeerWrites(p) \/ SecondHalf(p) \/ PeerLeaves(p),
           UNCHANGED <<program, serverVars>>
    PROVE  SharedSound'
  <1>1. /\ UNCHANGED <<pc, buffer, got, offset, taken, count, bytes, handled, overlap, conn, service>>
        /\ in' \in [Peers -> Seq(Half)] /\ rest' \in [Peers -> Nat] /\ written' \in [Peers -> Nat]
        /\ peer' \in [Peers -> {"up", "fin", "err", "closed"}]
    BY PeerTyped DEF SharedSound, serverVars
  <1>2. SharedTyped'
    BY <1>1 DEF SharedSound, SharedTyped
  <1> QED BY <1>1, <1>2 DEF SharedSound, OneUser, ServerPlaces, ClientPlaces

LEMMA SoundServerRecv ==
    ASSUME SharedSound, program = "server", program' = program, NEW w \in Workers, ServerRecv(w)
    PROVE  SharedSound'
  <1>1. w \in Threads /\ SharedTyped /\ ServerPlaces /\ conn[w] \in Peers
    BY DEF Threads, SharedSound, SharedTyped
  <1>2. /\ pc[w] = "recv" /\ pc' = [pc EXCEPT ![w] = "frame"] /\ RecvInto(w, conn[w])
        /\ UNCHANGED <<offset, written, count, bytes, handled, conn, service>>
    BY DEF ServerRecv, Step, serverVars
  <1>3. /\ in' \in [Peers -> Seq(Half)] /\ taken' \in Nat /\ rest' = rest /\ peer' = peer
        /\ buffer' \in Seq(Half) /\ Len(buffer') <= BufferHalves
        /\ got' \in [Threads -> Nat] /\ \A u \in Threads : got'[u] <= Len(buffer')
        /\ \A u \in Threads : u # w => got'[u] = got[u]
    <2> DEFINE a == Available(conn[w], BufferHalves)
    <2>1. /\ in' \in [Peers -> Seq(Half)] /\ taken' \in Nat /\ rest' = rest /\ peer' = peer
          /\ buffer' \in Seq(Half) /\ Len(buffer') <= BufferHalves
          /\ got' \in [Threads -> Nat] /\ \A u \in Threads : got'[u] <= Len(buffer')
          /\ got' = [got EXCEPT ![w] = a]
      BY <1>1, <1>2, RecvIntoTyped
    <2> HIDE DEF a
    <2>2. \A u \in Threads : u # w => got'[u] = got[u]
      BY <1>1, <2>1 DEF SharedTyped
    <2> QED BY <2>1, <2>2
  <1>4. pc' \in [Threads -> Places]
    BY <1>1, <1>2 DEF SharedTyped, Places
  <1>5. SharedTyped'
    BY <1>1, <1>2, <1>3, <1>4 DEF SharedTyped
  <1>6. ServerPlaces'
    <2>1. \A t \in Threads : t # w => pc'[t] = pc[t]
      BY <1>1, <1>2 DEF SharedTyped
    <2>2. pc'[w] = "frame" /\ Workers \subseteq Threads
      BY <1>1, <1>2 DEF SharedTyped, Threads
    <2> QED BY <1>1, <1>3, <2>1, <2>2 DEF ServerPlaces
  <1>7. OneUser'
    BY <1>1, <1>2, RecvUser
  <1> QED BY <1>5, <1>6, <1>7 DEF SharedSound

\* The server's steps that leave the buffer and what was made of it alone.
LEMMA SoundServerMoves ==
    ASSUME SharedSound, program = "server", program' = program, NEW w \in Workers,
           \/ \E p \in Peers : TakeEvent(w, p)
           \/ ServerRecvNothing(w) \/ ServerRecvFails(w) \/ ServerRecvEof(w)
           \/ Frame(w) \/ FindService(w) \/ UpdateStats(w)
    PROVE  SharedSound'
  <1>1. w \in Threads /\ SharedTyped /\ ServerPlaces /\ OneUser /\ conn[w] \in Peers /\ got[w] \in Nat
    BY DEF Threads, SharedSound, SharedTyped
  <1>2. UNCHANGED <<in, rest, taken, buffer, offset, written, bytes, handled, overlap>>
    BY DEF TakeEvent, ServerRecvNothing, ServerRecvFails, ServerRecvEof, ReturnToWait, Frame,
       FindService, UpdateStats, SysRecvError, SysClose, netVars, sharedVars
  <1>3. PICK there \in Places :
            /\ pc' = [pc EXCEPT ![w] = there]
            /\ there \in {"idle", "recv", "frame", "find", "serve", "update"}
            /\ there \in {"find", "serve", "update"} => got[w] >= 2 /\ got' = got
            /\ there \in InUse => pc[w] \in InUse
    BY <1>1 DEF TakeEvent, ServerRecvNothing, ServerRecvFails, ServerRecvEof, ReturnToWait, Frame,
       FindService, UpdateStats, Step, Places, InUse, sharedVars, ServerPlaces
  <1>4. got' = got \/ got' = [got EXCEPT ![w] = 0]
    BY DEF TakeEvent, ServerRecvNothing, ServerRecvFails, ServerRecvEof, ReturnToWait, Frame,
       FindService, UpdateStats, sharedVars
  <1>5. peer' \in [Peers -> {"up", "fin", "err", "closed"}]
    <2>1. \/ peer' = peer
          \/ peer' = [peer EXCEPT ![conn[w]] = "fin"] \/ peer' = [peer EXCEPT ![conn[w]] = "closed"]
      BY DEF TakeEvent, ServerRecvNothing, ServerRecvFails, ServerRecvEof, Frame, FindService,
         UpdateStats, SysRecvError, SysClose, netVars
    <2>2. peer \in [Peers -> {"up", "fin", "err", "closed"}]
      BY <1>1 DEF SharedTyped
    <2> QED BY ONLY <2>1, <2>2
  <1>6. conn' \in [Workers -> Peers]
    BY <1>1, RemoteAssumption DEF TakeEvent, ServerRecvNothing, ServerRecvFails, ServerRecvEof,
       ReturnToWait, Frame, FindService, UpdateStats, serverVars, SharedTyped
  <1>7. service' \in [Workers -> {"orders", "quotes", "none"}]
    BY <1>1 DEF TakeEvent, ServerRecvNothing, ServerRecvFails, ServerRecvEof,
       ReturnToWait, Frame, FindService, UpdateStats, serverVars, SharedTyped, Registered
  <1>8. count' \in Nat
    <2>1. count \in Nat
      BY <1>1 DEF SharedTyped
    <2> QED BY <2>1 DEF TakeEvent, ServerRecvNothing, ServerRecvFails, ServerRecvEof, ReturnToWait,
            Frame, FindService, UpdateStats, sharedVars
  <1>9. pc' \in [Threads -> Places]
    BY <1>1, <1>3 DEF SharedTyped
  <1>10. got' \in [Threads -> Nat] /\ \A t \in Threads : got'[t] <= Len(buffer)
    <2>1. Len(buffer) \in Nat /\ got \in [Threads -> Nat] /\ \A t \in Threads : got[t] <= Len(buffer)
      BY <1>1 DEF SharedTyped
    <2>2. CASE got' = got
      BY <2>1, <2>2
    <2>3. CASE got' = [got EXCEPT ![w] = 0]
      BY <1>1, <2>1, <2>3
    <2> QED BY <1>4, <2>2, <2>3
  <1>11. SharedTyped'
    BY <1>1, <1>2, <1>5, <1>6, <1>7, <1>8, <1>9, <1>10 DEF SharedTyped
  <1>12. ServerPlaces'
    <2>1. ASSUME NEW t \in Threads, t # w PROVE pc'[t] = pc[t] /\ got'[t] = got[t]
      BY <1>1, <1>3, <1>4, <2>1 DEF SharedTyped
    <2>2. pc'[w] = there
      BY <1>1, <1>3 DEF SharedTyped
    <2>3. Workers \subseteq Threads
      BY DEF Threads
    <2> QED BY <1>1, <1>3, <2>1, <2>2, <2>3 DEF ServerPlaces
  <1>13. OneUser'
    <2>1. \A t \in Threads : pc'[t] \in InUse => pc[t] \in InUse
      BY <1>1, <1>3 DEF SharedTyped
    <2> QED BY <1>1, <1>2, <2>1, SameUsers
  <1> QED BY <1>11, <1>12, <1>13 DEF SharedSound

LEMMA SoundServe ==
    ASSUME SharedSound, program = "server", program' = program, NEW w \in Workers, Serve(w)
    PROVE  SharedSound'
  <1>1. w \in Threads /\ SharedTyped /\ ServerPlaces /\ OneUser /\ conn[w] \in Peers
    BY DEF Threads, SharedSound, SharedTyped
  <1>2. /\ UNCHANGED <<in, rest, peer, taken, buffer, got, offset, written, count, bytes, overlap>>
        /\ UNCHANGED <<conn, service>>
        /\ pc[w] = "serve" /\ pc' = [pc EXCEPT ![w] = "update"]
    BY DEF Serve, Step, netVars, serverVars
  <1>3. handled' \in [Peers -> Seq(HandledMessage)]
    <2>1. 0 + 2 <= got[w]
      BY <1>1, <1>2 DEF ServerPlaces, SharedTyped
    <2>2. CASE Handle(w, conn[w], 0)
      BY <1>1, <2>1, <2>2, HandleTyped
    <2>3. CASE UNCHANGED handled
      BY <1>1, <2>3 DEF SharedTyped
    <2> QED BY <2>2, <2>3 DEF Serve
  <1>4. pc' \in [Threads -> Places]
    BY <1>1, <1>2 DEF SharedTyped, Places
  <1>5. SharedTyped'
    BY <1>1, <1>2, <1>3, <1>4 DEF SharedTyped
  <1>6. ServerPlaces'
    BY <1>1, <1>2, <1>4 DEF ServerPlaces, SharedTyped
  <1>7. OneUser'
    <2>1. \A t \in Threads : pc'[t] \in InUse => pc[t] \in InUse
      BY <1>1, <1>2 DEF SharedTyped, InUse
    <2> QED BY <1>1, <1>2, <2>1, SameUsers
  <1> QED BY <1>5, <1>6, <1>7 DEF SharedSound

LEMMA SoundClientRecv ==
    ASSUME SharedSound, program = "client", program' = program, NEW t \in ClientThreads, ClientRecv(t),
           UNCHANGED serverVars
    PROVE  SharedSound'
  <1>1. t \in Threads /\ SharedTyped /\ ClientPlaces /\ Remote \in Peers
    BY RemoteAssumption DEF Threads, ClientThreads, SharedSound
  <1>2. /\ pc[t] = "recv" /\ pc' = [pc EXCEPT ![t] = "count"] /\ RecvInto(t, Remote)
        /\ UNCHANGED <<offset, written, count, bytes, handled, conn, service>>
    BY DEF ClientRecv, Step, serverVars
  <1>3. /\ in' \in [Peers -> Seq(Half)] /\ taken' \in Nat /\ rest' = rest /\ peer' = peer
        /\ buffer' \in Seq(Half) /\ Len(buffer') <= BufferHalves
        /\ got' \in [Threads -> Nat] /\ \A u \in Threads : got'[u] <= Len(buffer')
        /\ \A u \in Threads : u # t => got'[u] = got[u]
    <2> DEFINE a == Available(Remote, BufferHalves)
    <2>1. /\ in' \in [Peers -> Seq(Half)] /\ taken' \in Nat /\ rest' = rest /\ peer' = peer
          /\ buffer' \in Seq(Half) /\ Len(buffer') <= BufferHalves
          /\ got' \in [Threads -> Nat] /\ \A u \in Threads : got'[u] <= Len(buffer')
          /\ got' = [got EXCEPT ![t] = a]
      BY <1>1, <1>2, RecvIntoTyped
    <2> HIDE DEF a
    <2>2. \A u \in Threads : u # t => got'[u] = got[u]
      BY <1>1, <2>1 DEF SharedTyped
    <2> QED BY <2>1, <2>2
  <1>4. pc' \in [Threads -> Places]
    BY <1>1, <1>2 DEF SharedTyped, Places
  <1>5. SharedTyped'
    BY <1>1, <1>2, <1>3, <1>4 DEF SharedTyped
  <1>6. ClientPlaces'
    <2>1. \A u \in Threads : u # t => pc'[u] = pc[u]
      BY <1>1, <1>2 DEF SharedTyped
    <2>2. pc'[t] = "count" /\ ClientThreads \subseteq Threads
      BY <1>1, <1>2 DEF SharedTyped, Threads, ClientThreads
    <2> QED BY <1>1, <1>2, <1>3, <2>1, <2>2 DEF ClientPlaces
  <1>7. OneUser'
    BY <1>1, <1>2, RecvUser
  <1> QED BY <1>5, <1>6, <1>7 DEF SharedSound

\* The client's steps that leave the buffer and what was handled alone.
LEMMA SoundClientMoves ==
    ASSUME SharedSound, program = "client", program' = program, UNCHANGED serverVars,
           NEW t \in ClientThreads,
           \/ t = "epoll" /\ (EpollWait \/ EpollRecvNothing \/ EpollRecvFails)
           \/ t = "receive" /\ (ReceiveEof \/ ReceiveFails)
           \/ CountBytes(t) \/ DeliverNoMore(t) \/ Tally(t)
    PROVE  SharedSound'
  <1>1. /\ t \in Threads /\ ClientThreads \subseteq Threads
        /\ SharedTyped /\ ClientPlaces /\ OneUser /\ Remote \in Peers
    BY RemoteAssumption DEF Threads, ClientThreads, SharedSound
  <1>2. UNCHANGED <<in, rest, taken, buffer, got, written, handled, overlap, conn, service>>
    BY DEF EpollWait, EpollRecvNothing, EpollRecvFails, ReceiveEof, ReceiveFails, CountBytes,
       DeliverNoMore, Tally, SysRecvError, SysClose, netVars, sharedVars, serverVars
  <1>3. got[t] \in Nat /\ offset[t] \in Nat /\ got[t] <= Len(buffer) /\ Len(buffer) \in Nat
        /\ Len(buffer) <= BufferHalves /\ BufferHalves \in Nat /\ count \in Nat /\ bytes \in Nat
    BY <1>1, BufferAssumption DEF SharedTyped
  <1>4. /\ offset' = offset \/ \E n \in Nat : n <= got[t] /\ offset' = [offset EXCEPT ![t] = n]
        /\ bytes' \in Nat /\ count' \in Nat
    <2>1. CASE CountBytes(t)
      <3>1. offset' = [offset EXCEPT ![t] = 0] /\ bytes' = bytes + got[t] /\ count' = count
        BY <2>1 DEF CountBytes
      <3>2. 0 \in Nat /\ 0 <= got[t]
        BY <1>3
      <3>3. \E n \in Nat : n <= got[t] /\ offset' = [offset EXCEPT ![t] = n]
        BY <3>1, <3>2
      <3>4. bytes' \in Nat /\ count' \in Nat
        BY <1>3, <3>1
      <3> QED BY <3>3, <3>4
    <2>2. CASE Tally(t)
      <3>1. offset[t] + 2 <= got[t]
        BY <1>1, <2>2 DEF Tally, Step, ClientPlaces
      <3>2. offset' = [offset EXCEPT ![t] = offset[t] + 2] /\ bytes' = bytes /\ count' = count + 1
        BY <2>2 DEF Tally
      <3>3. offset[t] + 2 \in Nat
        BY <1>3
      <3>4. \E n \in Nat : n <= got[t] /\ offset' = [offset EXCEPT ![t] = n]
        BY <3>1, <3>2, <3>3
      <3>5. bytes' \in Nat /\ count' \in Nat
        BY <1>3, <3>2
      <3> QED BY <3>4, <3>5
    <2>3. CASE ~(CountBytes(t) \/ Tally(t))
      BY <1>3, <2>3 DEF EpollWait, EpollRecvNothing, EpollRecvFails, ReceiveEof, ReceiveFails,
         DeliverNoMore, sharedVars
    <2> QED BY <2>1, <2>2, <2>3
  <1>5. PICK there \in Places :
            /\ pc' = [pc EXCEPT ![t] = there]
            /\ there \in {"wait", "recv", "deliver", "over"}
            /\ there = "deliver" => offset' # offset \/ offset[t] <= got[t]
            /\ there \in InUse => pc[t] \in InUse
    <2>1. CASE CountBytes(t)
      <3>1. offset' = [offset EXCEPT ![t] = 0] /\ Step(t, "count", "deliver")
        BY <2>1 DEF CountBytes
      <3>2. offset' # offset \/ offset[t] = 0
        BY <1>1, <3>1 DEF SharedTyped
      <3> QED BY <1>3, <3>1, <3>2 DEF Step, Places, InUse
    <2>2. CASE Tally(t)
      <3>1. offset[t] + 2 <= got[t] /\ Step(t, "tally", "deliver")
        BY <1>1, <2>2 DEF Tally, Step, ClientPlaces
      <3> QED BY <1>3, <3>1 DEF Step, Places, InUse
    <2>3. CASE ~(CountBytes(t) \/ Tally(t))
      BY <2>3 DEF EpollWait, EpollRecvNothing, EpollRecvFails, ReceiveEof, ReceiveFails, DeliverNoMore,
         Step, Again, Places, InUse
    <2> QED BY <2>1, <2>2, <2>3
  <1>6. peer' \in [Peers -> {"up", "fin", "err", "closed"}]
    BY <1>1 DEF EpollWait, EpollRecvNothing, EpollRecvFails, ReceiveEof, ReceiveFails, CountBytes,
       DeliverNoMore, Tally, SysRecvError, SysClose, netVars, SharedTyped
  <1>7. pc' \in [Threads -> Places]
    BY <1>1, <1>5 DEF SharedTyped
  <1>8. /\ offset' \in [Threads -> Nat] /\ \A u \in Threads : offset'[u] <= BufferHalves
        /\ \A u \in Threads : u # t => offset'[u] = offset[u]
        /\ offset' # offset => offset'[t] <= got[t]
    <2>1. offset \in [Threads -> Nat] /\ \A u \in Threads : offset[u] <= BufferHalves
      BY <1>1 DEF SharedTyped
    <2>2. CASE offset' = offset
      BY <2>1, <2>2
    <2>3. CASE \E n \in Nat : n <= got[t] /\ offset' = [offset EXCEPT ![t] = n]
      <3>1. PICK n \in Nat : n <= got[t] /\ offset' = [offset EXCEPT ![t] = n]
        BY <2>3
      <3>2. n <= BufferHalves
        BY <1>3, <3>1
      <3> QED BY <1>1, <2>1, <3>1, <3>2
    <2> QED BY <1>4, <2>2, <2>3
  <1>9. SharedTyped'
    BY <1>1, <1>2, <1>4, <1>6, <1>7, <1>8 DEF SharedTyped
  <1>10. ClientPlaces'
    <2>1. \A u \in Threads : u # t => pc'[u] = pc[u]
      BY <1>1, <1>5 DEF SharedTyped
    <2>2. pc'[t] = there
      BY <1>1, <1>5 DEF SharedTyped
    <2>3. there = "deliver" => offset'[t] <= got[t]
      BY <1>5, <1>8
    <2> QED BY <1>1, <1>2, <1>5, <1>8, <2>1, <2>2, <2>3 DEF ClientPlaces
  <1>11. OneUser'
    <2>1. \A u \in Threads : pc'[u] \in InUse => pc[u] \in InUse
      BY <1>1, <1>5 DEF SharedTyped
    <2> QED BY <1>1, <1>2, <2>1, SameUsers
  <1> QED BY <1>9, <1>10, <1>11 DEF SharedSound

LEMMA SoundDeliver ==
    ASSUME SharedSound, program = "client", program' = program, UNCHANGED serverVars,
           NEW t \in ClientThreads, Deliver(t)
    PROVE  SharedSound'
  <1>1. /\ t \in Threads /\ ClientThreads \subseteq Threads
        /\ SharedTyped /\ ClientPlaces /\ OneUser /\ Remote \in Peers
    BY RemoteAssumption DEF Threads, ClientThreads, SharedSound
  <1>2. /\ UNCHANGED <<in, rest, peer, taken, buffer, got, offset, written, count, bytes, overlap>>
        /\ UNCHANGED <<conn, service>>
        /\ pc[t] = "deliver" /\ pc' = [pc EXCEPT ![t] = "tally"]
        /\ offset[t] + 2 <= got[t] /\ Handle(t, Remote, offset[t])
    BY DEF Deliver, Step, netVars, serverVars
  <1>3. handled' \in [Peers -> Seq(HandledMessage)]
    <2>1. offset[t] \in Nat
      BY <1>1 DEF SharedTyped
    <2> QED BY <1>1, <1>2, <2>1, HandleTyped
  <1>4. pc' \in [Threads -> Places]
    BY <1>1, <1>2 DEF SharedTyped, Places
  <1>5. SharedTyped'
    BY <1>1, <1>2, <1>3, <1>4 DEF SharedTyped
  <1>6. ClientPlaces'
    <2>1. \A u \in Threads : u # t => pc'[u] = pc[u]
      BY <1>1, <1>2 DEF SharedTyped
    <2>2. pc'[t] = "tally"
      BY <1>1, <1>2 DEF SharedTyped
    <2> QED BY <1>1, <1>2, <2>1, <2>2 DEF ClientPlaces
  <1>7. OneUser'
    <2>1. \A u \in Threads : pc'[u] \in InUse => pc[u] \in InUse
      BY <1>1, <1>2 DEF SharedTyped, InUse
    <2> QED BY <1>1, <1>2, <2>1, SameUsers
  <1> QED BY <1>5, <1>6, <1>7 DEF SharedSound

\* What a step of the server or of the client is.
LEMMA SharedSteps ==
    ASSUME SharedProgram, Next
    PROVE  /\ program' = program /\ UNCHANGED <<tripVars, latencyVars, seen>>
           /\ \/ UNCHANGED serverVars
                 /\ \E p \in Peers : PeerWrites(p) \/ SecondHalf(p) \/ PeerLeaves(p)
              \/ program = "server" /\ \E w \in Workers : WorkerStep(w)
              \/ /\ program = "client" /\ UNCHANGED serverVars
                 /\ \E t \in ClientThreads :
                        \/ t = "epoll" /\ (EpollWait \/ EpollRecvNothing \/ EpollRecvFails)
                        \/ t = "receive" /\ (ReceiveEof \/ ReceiveFails)
                        \/ ClientThreadStep(t)
  <1>1. CASE PeerStep
    BY <1>1 DEF PeerStep, Shared
  <1>2. CASE AnswerStep \/ Sigint
    BY <1>2 DEF AnswerStep, Sigint, Trip, ServerAnswers, RestOfAnswer, ServerEnds, TripProgram,
       TripPrograms, SharedProgram
  <1>3. ASSUME NEW t \in Threads, ThreadStep(t)
        PROVE  \/ program = "server" /\ t \in Workers /\ Shared(WorkerStep(t))
               \/ program = "client" /\ t = "epoll" /\ Shared(EpollStep /\ UNCHANGED serverVars)
               \/ program = "client" /\ t = "receive" /\ Shared(ReceiveStep /\ UNCHANGED serverVars)
    BY <1>3 DEF ThreadStep, SharedProgram
  <1> QED BY <1>1, <1>2, <1>3 DEF Next, Shared, EpollStep, ReceiveStep, ClientThreads

LEMMA SoundStep ==
    ASSUME SharedProgram, SharedSound, [Next]_vars
    PROVE  SharedSound'
  <1>1. CASE UNCHANGED vars
    BY <1>1 DEF vars, netVars, sharedVars, serverVars, SharedSound, SharedTyped, OneUser, ServerPlaces,
       ClientPlaces
  <1>2. CASE Next
    <2>1. program' = program
      BY <1>2, SharedSteps
    <2>2. CASE UNCHANGED serverVars
               /\ \E p \in Peers : PeerWrites(p) \/ SecondHalf(p) \/ PeerLeaves(p)
      BY <2>1, <2>2, SoundPeer
    <2>3. CASE program = "server" /\ \E w \in Workers : WorkerStep(w)
      BY <2>1, <2>3, SoundServerRecv, SoundServerMoves, SoundServe DEF WorkerStep
    <2>4. CASE /\ program = "client" /\ UNCHANGED serverVars
               /\ \E t \in ClientThreads :
                      \/ t = "epoll" /\ (EpollWait \/ EpollRecvNothing \/ EpollRecvFails)
                      \/ t = "receive" /\ (ReceiveEof \/ ReceiveFails)
                      \/ ClientThreadStep(t)
      BY <2>1, <2>4, SoundClientRecv, SoundClientMoves, SoundDeliver DEF ClientThreadStep
    <2> QED BY <1>2, <2>2, <2>3, <2>4, SharedSteps
  <1> QED BY <1>1, <1>2

-----------------------------------------------------------------------------
(* What is counted has arrived                                             *)

\* The workers that have a message and have not counted it.
WithMessage ==
    {w \in Workers : pc[w] \in {"find", "serve", "update"} \/ (pc[w] = "frame" /\ got[w] >= 2)}

\* The halves t has received and not yet counted or dropped.
Uncounted(t) ==
    CASE pc[t] = "count" -> got[t]
      [] pc[t] \in {"deliver", "tally"} -> got[t] - offset[t]
      [] OTHER -> 0

CountSound ==
    /\ program = "server" =>
        IsFiniteSet(WithMessage) /\ 2 * count + 2 * Cardinality(WithMessage) <= taken
    /\ program = "client" => 2 * count + Uncounted("receive") + Uncounted("epoll") <= taken

LEMMA CountInit == Init /\ SharedProgram => CountSound
  <1> SUFFICES ASSUME Init, SharedProgram PROVE CountSound
    OBVIOUS
  <1>1. program = "server" => WithMessage = {}
    BY DEF Init, Start, WithMessage, Threads
  <1>2. program = "client" => pc["receive"] = "recv" /\ pc["epoll"] = "wait"
    BY DEF Init, Start, TripPrograms, Threads
  <1>3. count = 0 /\ taken = 0
    BY DEF Init
  <1>4. program = "server" => IsFiniteSet(WithMessage) /\ Cardinality(WithMessage) = 0
    BY <1>1, FS_EmptySet
  <1>5. program = "client" => Uncounted("receive") = 0 /\ Uncounted("epoll") = 0
    BY <1>2 DEF Uncounted
  <1> QED BY <1>3, <1>4, <1>5 DEF CountSound

\* A step of w changes what w has.
LEMMA OthersKeepTheirs ==
    ASSUME SharedTyped, NEW w \in Workers, NEW there, pc' = [pc EXCEPT ![w] = there],
           \A u \in Workers \ {w} : got'[u] = got[u]
    PROVE  /\ w \in WithMessage' => WithMessage' = WithMessage \cup {w}
           /\ w \notin WithMessage' => WithMessage' = WithMessage \ {w}
  <1>1. \A u \in Workers \ {w} : u \in WithMessage' <=> u \in WithMessage
    BY DEF WithMessage, SharedTyped, Threads
  <1>2. WithMessage \subseteq Workers /\ WithMessage' \subseteq Workers
    BY DEF WithMessage
  <1> QED BY <1>1, <1>2

LEMMA CountServer ==
    ASSUME SharedSound, CountSound, program = "server", program' = program,
           NEW w \in Workers, WorkerStep(w)
    PROVE  CountSound'
  <1> DEFINE F == WithMessage
             n == Cardinality(F)
  <1>1. w \in Threads /\ SharedTyped /\ ServerPlaces /\ conn[w] \in Peers /\ got[w] \in Nat
        /\ count \in Nat /\ taken \in Nat
    BY DEF Threads, SharedSound, SharedTyped
  <1>2. IsFiniteSet(F) /\ 2 * count + 2 * n <= taken /\ n \in Nat
    BY FS_CardinalityType DEF CountSound
  <1>3. CASE ServerRecv(w)
    <2> DEFINE a == Available(conn[w], BufferHalves)
    <2>1. /\ pc[w] = "recv" /\ pc' = [pc EXCEPT ![w] = "frame"] /\ count' = count
          /\ RecvInto(w, conn[w])
      BY <1>3 DEF ServerRecv, Step
    <2>2. a \in Nat /\ taken' = taken + a /\ got' = [got EXCEPT ![w] = a]
      BY <1>1, <2>1, RecvIntoTyped, SMTT(20) DEF SharedTyped
    <2> HIDE DEF a
    <2>3. w \notin F /\ (w \in WithMessage' <=> a >= 2)
      BY <1>1, <2>1, <2>2 DEF WithMessage, SharedTyped
    <2>4. \A u \in Workers \ {w} : got'[u] = got[u]
      BY <1>1, <2>2 DEF SharedTyped, Threads
    <2>5. CASE a >= 2
      <3>1. WithMessage' = F \cup {w}
        BY <1>1, <2>1, <2>3, <2>4, <2>5, OthersKeepTheirs
      <3>2. IsFiniteSet(F \cup {w}) /\ Cardinality(F \cup {w}) = n + 1
        BY <1>2, <2>3, FS_AddElement
      <3> HIDE DEF F, n
      <3>3. 2 * count + 2 * (n + 1) <= taken + a
        BY <1>1, <1>2, <2>2, <2>5
      <3> QED BY <2>1, <2>2, <3>1, <3>2, <3>3 DEF CountSound
    <2>6. CASE ~(a >= 2)
      <3>1. WithMessage' = F
        BY <1>1, <2>1, <2>3, <2>4, <2>6, OthersKeepTheirs
      <3>2. 2 * count + 2 * n <= taken + a
        <4> HIDE DEF F, n
        <4> QED BY <1>1, <1>2, <2>2
      <3> QED BY <1>2, <2>1, <2>2, <3>1, <3>2 DEF CountSound
    <2> QED BY <2>5, <2>6
  <1>4. CASE UpdateStats(w)
    <2>1. /\ pc[w] = "update" /\ pc' = [pc EXCEPT ![w] = "recv"] /\ count' = count + 1
          /\ UNCHANGED <<got, taken>>
      BY <1>4 DEF UpdateStats, Step, netVars
    <2>2. w \in F /\ w \notin WithMessage'
      BY <1>1, <2>1 DEF WithMessage, SharedTyped
    <2>3. WithMessage' = F \ {w}
      BY <1>1, <2>1, <2>2, OthersKeepTheirs
    <2>4. IsFiniteSet(F \ {w}) /\ Cardinality(F \ {w}) = n - 1
      BY <1>2, <2>2, FS_RemoveElement
    <2> HIDE DEF F, n
    <2>5. 2 * (count + 1) + 2 * (n - 1) <= taken
      BY <1>1, <1>2
    <2> QED BY <2>1, <2>3, <2>4, <2>5 DEF CountSound
  <1>5. CASE ~(ServerRecv(w) \/ UpdateStats(w))
    <2>1. UNCHANGED <<count, taken>> /\ \A u \in Workers \ {w} : got'[u] = got[u]
      BY <1>1, <1>5 DEF WorkerStep, TakeEvent, ServerRecvNothing, ServerRecvFails, ServerRecvEof,
         ReturnToWait, Frame, FindService, Serve, SysRecvError, SysClose, netVars, sharedVars, SharedTyped,
         Threads
    <2>2. PICK there : pc' = [pc EXCEPT ![w] = there] /\ (w \in WithMessage' => w \in F)
      BY <1>1, <1>5 DEF WorkerStep, TakeEvent, ServerRecvNothing, ServerRecvFails, ServerRecvEof,
         ReturnToWait, Frame, FindService, Serve, Step, sharedVars, SharedTyped, WithMessage
    <2>3. WithMessage' = F \/ WithMessage' = F \ {w}
      <3>1. /\ w \in WithMessage' => WithMessage' = F \cup {w}
            /\ w \notin WithMessage' => WithMessage' = F \ {w}
        BY <1>1, <2>1, <2>2, OthersKeepTheirs
      <3>2. w \in WithMessage' => w \in F
        BY <2>2
      <3> HIDE DEF F
      <3> QED BY ONLY <3>1, <3>2
    <2>4. IsFiniteSet(WithMessage') /\ Cardinality(WithMessage') <= n /\ Cardinality(WithMessage') \in Nat
      <3>1. CASE WithMessage' = F
        BY <1>2, <3>1
      <3>2. CASE WithMessage' = F \ {w}
        <4>1. IsFiniteSet(F \ {w}) /\ (Cardinality(F \ {w}) = n - 1 \/ Cardinality(F \ {w}) = n)
          BY <1>2, FS_RemoveElement
        <4>2. Cardinality(F \ {w}) \in Nat
          BY <4>1, FS_CardinalityType
        <4> HIDE DEF n, F
        <4>3. Cardinality(F \ {w}) <= n
          BY <1>2, <4>1, <4>2
        <4> QED BY <3>2, <4>1, <4>2, <4>3
      <3> QED BY <2>3, <3>1, <3>2
    <2> DEFINE m == Cardinality(WithMessage')
    <2> HIDE DEF n, m
    <2>5. 2 * count + 2 * m <= taken
      BY <1>1, <1>2, <2>4 DEF m
    <2> QED BY <2>1, <2>4, <2>5 DEF CountSound, m
  <1> QED BY <1>3, <1>4, <1>5

LEMMA CountClient ==
    ASSUME SharedSound, CountSound, program = "client", program' = program, NEW t \in ClientThreads,
           \/ t = "epoll" /\ (EpollWait \/ EpollRecvNothing \/ EpollRecvFails)
           \/ t = "receive" /\ (ReceiveEof \/ ReceiveFails)
           \/ ClientThreadStep(t)
    PROVE  CountSound' /\ (BytesConserved => BytesConserved')
  <1> DEFINE Pending(u) == IF pc[u] = "count" THEN got[u] ELSE 0
             other == IF t = "receive" THEN "epoll" ELSE "receive"
  <1>1. /\ t \in Threads /\ other \in Threads /\ other # t /\ SharedTyped /\ ClientPlaces
        /\ Remote \in Peers /\ got[t] \in Nat /\ offset[t] \in Nat /\ got[other] \in Nat
        /\ offset[other] \in Nat /\ count \in Nat /\ taken \in Nat /\ bytes \in Nat
    BY RemoteAssumption DEF Threads, ClientThreads, SharedSound, SharedTyped
  <1>2. {t, other} = {"receive", "epoll"}
    BY DEF ClientThreads
  <1>3. \E there : pc' = [pc EXCEPT ![t] = there]
    BY DEF ClientThreadStep, EpollWait, EpollRecvNothing, EpollRecvFails, ReceiveEof, ReceiveFails,
       ClientRecv, CountBytes, Deliver, DeliverNoMore, Tally, Step
  <1>4. pc'[other] = pc[other]
    BY <1>1, <1>3 DEF SharedTyped
  <1>5. got'[other] = got[other] /\ offset'[other] = offset[other]
    BY <1>1 DEF ClientThreadStep, EpollWait, EpollRecvNothing, EpollRecvFails, ReceiveEof, ReceiveFails,
       ClientRecv, RecvInto, CountBytes, Deliver, DeliverNoMore, Tally, sharedVars, SharedTyped
  <1>6. Uncounted(other)' = Uncounted(other) /\ Pending(other)' = Pending(other)
    BY <1>4, <1>5 DEF Uncounted
  <1>7. /\ Uncounted(t) \in Nat /\ Uncounted(other) \in Nat
        /\ Pending(t) \in Nat /\ Pending(other) \in Nat
    <2>1. ASSUME NEW u \in {t, other} PROVE Uncounted(u) \in Nat /\ Pending(u) \in Nat
      <3>1. u \in ClientThreads /\ got[u] \in Nat /\ offset[u] \in Nat
        BY <1>1, <1>2 DEF ClientThreads
      <3>2. pc[u] \in {"deliver", "tally"} => offset[u] <= got[u]
        BY <1>1, <3>1 DEF ClientPlaces
      <3> QED BY <3>1, <3>2 DEF Uncounted
    <2> QED BY <2>1
  <1>8. /\ 2 * count + Uncounted(t) + Uncounted(other) <= taken
        /\ BytesConserved => bytes + Pending(t) + Pending(other) = taken
    <2>1. 2 * count + Uncounted("receive") + Uncounted("epoll") <= taken
      BY DEF CountSound
    <2>2. BytesConserved => bytes + Pending("receive") + Pending("epoll") = taken
      BY DEF BytesConserved
    <2>3. CASE t = "receive"
      BY <2>1, <2>2, <2>3
    <2>4. CASE t = "epoll"
      <3> HIDE DEF Pending
      <3> QED BY <1>1, <1>7, <2>1, <2>2, <2>4
    <2> QED BY <2>3, <2>4 DEF ClientThreads
  <1> DEFINE spent == Uncounted(t) - Uncounted(t)'
             pended == Pending(t) - Pending(t)'
  <1>9. /\ Uncounted(t)' \in Nat /\ Pending(t)' \in Nat
        /\ count' \in Nat /\ taken' \in Nat /\ bytes' \in Nat
        /\ 2 * count' + Uncounted(t)' - taken' <= 2 * count + Uncounted(t) - taken
        /\ bytes' + Pending(t)' - taken' = bytes + Pending(t) - taken
    <2>1. CASE ClientRecv(t)
      <3> DEFINE a == Available(Remote, BufferHalves)
      <3>1. /\ pc[t] = "recv" /\ pc' = [pc EXCEPT ![t] = "count"] /\ RecvInto(t, Remote)
            /\ UNCHANGED <<bytes, count>>
        BY <2>1 DEF ClientRecv, Step
      <3>2. a \in Nat /\ taken' = taken + a /\ got' = [got EXCEPT ![t] = a]
        BY <1>1, <3>1, RecvIntoTyped
      <3> HIDE DEF a
      <3>3. pc'[t] = "count" /\ got'[t] = a
        BY <1>1, <3>1, <3>2 DEF SharedTyped
      <3>4. Uncounted(t) = 0 /\ Pending(t) = 0 /\ Uncounted(t)' = a /\ Pending(t)' = a
        BY <3>1, <3>3 DEF Uncounted
      <3> HIDE DEF Pending
      <3> QED BY <1>1, <3>1, <3>2, <3>4
    <2>2. CASE CountBytes(t)
      <3>1. /\ pc[t] = "count" /\ pc' = [pc EXCEPT ![t] = "deliver"] /\ UNCHANGED <<count, taken, got>>
            /\ bytes' = bytes + got[t] /\ offset' = [offset EXCEPT ![t] = 0]
        BY <2>2 DEF CountBytes, Step, netVars
      <3>2. pc'[t] = "deliver" /\ offset'[t] = 0 /\ got'[t] = got[t]
        BY <1>1, <3>1 DEF SharedTyped
      <3>3. Uncounted(t) = got[t] /\ Pending(t) = got[t] /\ Uncounted(t)' = got[t] /\ Pending(t)' = 0
        BY <1>1, <3>1, <3>2 DEF Uncounted
      <3> HIDE DEF Pending
      <3> QED BY <1>1, <3>1, <3>3
    <2>3. CASE Tally(t)
      <3>1. /\ pc[t] = "tally" /\ pc' = [pc EXCEPT ![t] = "deliver"] /\ UNCHANGED <<bytes, taken, got>>
            /\ count' = count + 1 /\ offset' = [offset EXCEPT ![t] = offset[t] + 2]
        BY <2>3 DEF Tally, Step, netVars
      <3>2. pc'[t] = "deliver" /\ offset'[t] = offset[t] + 2 /\ got'[t] = got[t]
        BY <1>1, <3>1 DEF SharedTyped
      <3>3. offset[t] + 2 <= got[t]
        BY <1>1, <3>1 DEF ClientPlaces
      <3>4. /\ Uncounted(t) = got[t] - offset[t] /\ Uncounted(t)' = got[t] - (offset[t] + 2)
            /\ Pending(t) = 0 /\ Pending(t)' = 0
        BY <3>1, <3>2 DEF Uncounted
      <3> HIDE DEF Pending
      <3> QED BY <1>1, <3>1, <3>3, <3>4
    <2>4. CASE ~(ClientRecv(t) \/ CountBytes(t) \/ Tally(t))
      <3>1. UNCHANGED <<bytes, taken, count, got, offset>>
        BY <2>4 DEF ClientThreadStep, EpollWait, EpollRecvNothing, EpollRecvFails, ReceiveEof,
           ReceiveFails, Deliver, DeliverNoMore, SysRecvError, SysClose, netVars, sharedVars
      <3>2. PICK there : pc' = [pc EXCEPT ![t] = there] /\ pc[t] # "count" /\ there # "count"
                             /\ (there \in {"deliver", "tally"} => pc[t] = "deliver")
        BY <2>4 DEF ClientThreadStep, EpollWait, EpollRecvNothing, EpollRecvFails, ReceiveEof,
           ReceiveFails, Deliver, DeliverNoMore, Step, Again
      <3>3. pc'[t] = there
        BY <1>1, <3>2 DEF SharedTyped
      <3>4. Pending(t) = 0 /\ Pending(t)' = 0
        BY <3>2, <3>3
      <3>5. Uncounted(t)' = 0 \/ Uncounted(t)' = Uncounted(t)
        BY <3>1, <3>2, <3>3 DEF Uncounted
      <3> HIDE DEF Pending
      <3> QED BY <1>1, <1>7, <3>1, <3>4, <3>5
    <2> QED BY <2>1, <2>2, <2>3, <2>4
  <1>10. 2 * count' + Uncounted(t)' + Uncounted(other)' <= taken'
    <2> HIDE DEF Pending, other
    <2> QED BY <1>1, <1>6, <1>7, <1>8, <1>9
  <1>11. BytesConserved => bytes' + Pending(t)' + Pending(other)' = taken'
    <2> HIDE DEF Pending, other
    <2> QED BY <1>1, <1>6, <1>7, <1>8, <1>9
  <1>12. CountSound'
    <2>1. Uncounted(other)' \in Nat
      BY <1>6, <1>7
    <2>2. CASE t = "receive"
      BY <1>10, <2>2 DEF CountSound
    <2>3. CASE t = "epoll"
      <3>1. 2 * count' + Uncounted("epoll")' + Uncounted("receive")' <= taken'
        BY <1>10, <2>3
      <3> QED BY <1>9, <2>1, <2>3, <3>1 DEF CountSound
    <2> QED BY <2>2, <2>3 DEF ClientThreads
  <1>13. BytesConserved => BytesConserved'
    <2>1. Pending(other)' \in Nat
      BY <1>6, <1>7
    <2>2. CASE t = "receive"
      BY <1>11, <2>2 DEF BytesConserved
    <2>3. CASE t = "epoll"
      <3>1. BytesConserved => bytes' + Pending("epoll")' + Pending("receive")' = taken'
        BY <1>11, <2>3
      <3>2. Pending("epoll")' \in Nat /\ Pending("receive")' \in Nat
        BY <1>9, <2>1, <2>3
      <3>3. BytesConserved => bytes' + Pending("receive")' + Pending("epoll")' = taken'
        <4> HIDE DEF Pending
        <4> QED BY <1>9, <3>1, <3>2
      <3> QED BY <3>3 DEF BytesConserved
    <2> QED BY <2>2, <2>3 DEF ClientThreads
  <1> QED BY <1>12, <1>13

LEMMA CountStep ==
    ASSUME SharedProgram, SharedSound, CountSound, [Next]_vars
    PROVE  CountSound' /\ (BytesConserved => BytesConserved')
  <1>1. CASE \/ UNCHANGED vars
             \/ /\ UNCHANGED <<program, serverVars>>
                /\ \E p \in Peers : PeerWrites(p) \/ SecondHalf(p) \/ PeerLeaves(p)
    <2>1. UNCHANGED <<program, pc, taken, count, bytes, got, offset>>
      BY <1>1, PeerTyped DEF vars, netVars, sharedVars, SharedSound
    <2>2. WithMessage' = WithMessage /\ \A t : Uncounted(t)' = Uncounted(t)
      BY <2>1 DEF WithMessage, Uncounted
    <2> QED BY <2>1, <2>2 DEF CountSound, BytesConserved
  <1>2. CASE Next
    <2>1. program' = program
      BY <1>2, SharedSteps
    <2>2. CASE program = "server" /\ \E w \in Workers : WorkerStep(w)
      BY <2>1, <2>2, CountServer DEF BytesConserved
    <2> QED BY <1>1, <1>2, <2>1, <2>2, SharedSteps, CountClient
  <1> QED BY <1>1, <1>2

-----------------------------------------------------------------------------
(* What is taken out of a stream is in order                               *)

\* The place of a half in its stream, counted from 1.
Number(h) == 2 * h[2] - 2 + h[3]

\* read[p] messages of p have been received; what has arrived follows them, and
\* while the connection is up, what p has written ends there.
StreamInOrder(read) ==
    \A p \in Peers :
        /\ \A i \in 1..Len(in[p]) : in[p][i][1] = p /\ Number(in[p][i]) = 2 * read[p] + i
        /\ peer[p] = "up" /\ rest[p] = 0 => 2 * read[p] + Len(in[p]) = 2 * written[p]
        /\ peer[p] = "up" /\ rest[p] # 0 =>
            rest[p] = written[p] /\ 2 * read[p] + Len(in[p]) + 1 = 2 * written[p]

\* The connection that t has received from.
Of(t) == IF program = "server" THEN conn[t] ELSE Remote

\* What t is working on are the last messages received from its connection.
HeldInOrder(t, read) ==
    \E n \in 0..read[Of(t)] :
        /\ got[t] = 2 * n
        /\ \A i \in 1..got[t] :
            buffer[i][1] = Of(t) /\ Number(buffer[i]) = 2 * (read[Of(t)] - n) + i

\* No message is served twice, none after a later one, and the one that a
\* worker has in hand is not served yet.
ServedInOrder(read) ==
    /\ \A p \in Peers : \A i \in 1..Len(handled[p]) :
        /\ handled[p][i][1] = p /\ handled[p][i][2] \in 1..read[p]
        /\ \A j \in 1..(i - 1) : handled[p][j][2] < handled[p][i][2]
    /\ \A w \in Workers : pc[w] \in InUse =>
        \A i \in 1..Len(handled[conn[w]]) :
            2 * handled[conn[w]][i][2] <= 2 * read[conn[w]] - got[w]

\* Where t is in what it has received.
Past(t) ==
    CASE pc[t] = "deliver" -> offset[t]
      [] pc[t] = "tally" -> offset[t] + 2
      [] OTHER -> 0

\* Every message received has been delivered, but for those in hand.
DeliveredInOrder(read) ==
    /\ \A p \in Peers \ {Remote} : Len(handled[p]) = 0
    /\ \A i \in 1..Len(handled[Remote]) : handled[Remote][i][1] = Remote /\ handled[Remote][i][2] = i
    /\ \A t \in ClientThreads : pc[t] \in InUse =>
        2 * Len(handled[Remote]) = 2 * read[Remote] - got[t] + Past(t)
    /\ (\A t \in ClientThreads : pc[t] \notin InUse) => Len(handled[Remote]) = read[Remote]

AllInOrder(read) ==
    /\ StreamInOrder(read)
    /\ \A t \in Threads : pc[t] \in InUse => HeldInOrder(t, read)
    /\ program = "server" => ServedInOrder(read)
    /\ program = "client" => DeliveredInOrder(read)

OrderSound ==
    SharedProgram /\ ~split /\ ~overlap => \E read \in [Peers -> Nat] : AllInOrder(read)

LEMMA OrderInit == Init => OrderSound
  <1> SUFFICES ASSUME Init, SharedProgram PROVE \E read \in [Peers -> Nat] : AllInOrder(read)
    BY DEF OrderSound
  <1> DEFINE read == [p \in Peers |-> 0]
  <1>1. \A p \in Peers : in[p] = <<>> /\ rest[p] = 0 /\ written[p] = 0 /\ read[p] = 0
                         /\ Len(in[p]) = 0 /\ handled[p] = <<>> /\ Len(handled[p]) = 0
    BY DEF Init
  <1>2. \A t \in Threads : pc[t] \notin InUse
    BY DEF Init, Start, TripPrograms, Threads, InUse
  <1>3. Workers \subseteq Threads /\ ClientThreads \subseteq Threads /\ Remote \in Peers
    BY RemoteAssumption DEF Threads, ClientThreads
  <1>4. read \in [Peers -> Nat]
    OBVIOUS
  <1> HIDE DEF read
  <1>5. StreamInOrder(read)
    <2>1. ASSUME NEW p \in Peers
          PROVE  /\ \A i \in 1..Len(in[p]) : in[p][i][1] = p /\ Number(in[p][i]) = 2 * read[p] + i
                 /\ rest[p] = 0 /\ 2 * read[p] + Len(in[p]) = 2 * written[p]
      BY <1>1
    <2> QED BY <2>1 DEF StreamInOrder
  <1>6. ServedInOrder(read)
    BY <1>1, <1>2, <1>3 DEF ServedInOrder
  <1>7. DeliveredInOrder(read)
    BY <1>1, <1>2, <1>3 DEF DeliveredInOrder
  <1> QED BY <1>2, <1>4, <1>5, <1>6, <1>7 DEF AllInOrder

\* The other end goes on where its stream ends.
LEMMA StreamPeer ==
    ASSUME SharedTyped, NEW p \in Peers, PeerWrites(p) \/ SecondHalf(p) \/ PeerLeaves(p),
           NEW read \in [Peers -> Nat], StreamInOrder(read)
    PROVE  StreamInOrder(read)'
  <1> DEFINE s == in[p]
             d == <<p, written[p] + 1, 1>>
             e == <<p, written[p] + 1, 2>>
             f == <<p, rest[p], 2>>
  <1>1. s \in Seq(Half) /\ Len(s) \in Nat /\ rest[p] \in Nat /\ written[p] \in Nat /\ read[p] \in Nat
        /\ in \in [Peers -> Seq(Half)] /\ rest \in [Peers -> Nat] /\ written \in [Peers -> Nat]
        /\ DOMAIN peer = Peers
    BY DEF SharedTyped
  <1>2. /\ \A i \in 1..Len(s) : s[i][1] = p /\ Number(s[i]) = 2 * read[p] + i
        /\ peer[p] = "up" /\ rest[p] = 0 => 2 * read[p] + Len(s) = 2 * written[p]
        /\ peer[p] = "up" /\ rest[p] # 0 =>
            rest[p] = written[p] /\ 2 * read[p] + Len(s) + 1 = 2 * written[p]
    BY DEF StreamInOrder
  <1>3. d \in Half /\ e \in Half /\ f \in Half
    BY <1>1 DEF Half
  <1>4. /\ d[1] = p /\ Number(d) = 2 * written[p] + 1
        /\ e[1] = p /\ Number(e) = 2 * written[p] + 2
        /\ f[1] = p /\ Number(f) = 2 * rest[p]
    BY <1>1 DEF Number
  <1> HIDE DEF d, e, f
  <1>5. \A q \in Peers \ {p} : in'[q] = in[q] /\ rest'[q] = rest[q] /\ peer'[q] = peer[q]
                                 /\ written'[q] = written[q]
    BY <1>1 DEF PeerWrites, Write, SecondHalf, RestArrives, PeerLeaves, PeerEnds
  <1>6. /\ \A i \in 1..Len(in'[p]) : in'[p][i][1] = p /\ Number(in'[p][i]) = 2 * read[p] + i
        /\ peer'[p] = "up" /\ rest'[p] = 0 => 2 * read[p] + Len(in'[p]) = 2 * written'[p]
        /\ peer'[p] = "up" /\ rest'[p] # 0 =>
            rest'[p] = written'[p] /\ 2 * read[p] + Len(in'[p]) + 1 = 2 * written'[p]
    <2>1. CASE PeerWrites(p) /\ in' = [in EXCEPT ![p] = @ \o <<<<p, written[p] + 1, 1>>, <<p, written[p] + 1, 2>>>>]
                             /\ UNCHANGED rest
      <3>1. in'[p] = s \o <<d, e>> /\ rest'[p] = 0 /\ peer[p] = "up" /\ peer' = peer
            /\ written'[p] = written[p] + 1 /\ rest[p] = 0
        BY <1>1, <2>1 DEF PeerWrites, Write, d, e
      <3> DEFINE r == s \o <<d, e>>
      <3> HIDE DEF s
      <3>2. /\ Len(r) = Len(s) + 2 /\ \A i \in 1..Len(s) : r[i] = s[i]
            /\ r[Len(s) + 1] = d /\ r[Len(s) + 2] = e
        BY <1>1, <1>3, TwoMore
      <3> HIDE DEF r
      <3>3. ASSUME NEW i \in 1..Len(r) PROVE r[i][1] = p /\ Number(r[i]) = 2 * read[p] + i
        <4>1. i \in 1..Len(s) \/ i = Len(s) + 1 \/ i = Len(s) + 2
          <5>1. Len(s) \in Nat /\ Len(r) = Len(s) + 2
            BY <1>1, <3>2
          <5> QED BY <5>1
        <4>2. CASE i \in 1..Len(s)
          BY <1>2, <3>2, <4>2
        <4>3. CASE i = Len(s) + 1
          <5>1. Number(r[i]) = 2 * written[p] + 1 /\ r[i][1] = p
            BY <1>4, <3>2, <4>3
          <5> QED BY <1>1, <1>2, <3>1, <4>3, <5>1
        <4>4. CASE i = Len(s) + 2
          <5>1. Number(r[i]) = 2 * written[p] + 2 /\ r[i][1] = p
            BY <1>4, <3>2, <4>4
          <5> QED BY <1>1, <1>2, <3>1, <4>4, <5>1
        <4> QED BY <4>1, <4>2, <4>3, <4>4
      <3>4. 2 * read[p] + Len(r) = 2 * (written[p] + 1)
        <4>1. 2 * read[p] + Len(s) = 2 * written[p] /\ Len(r) = Len(s) + 2
          BY <1>2, <3>1, <3>2
        <4>2. /\ 2 * read[p] + Len(s) = 2 * written[p] /\ Len(r) = Len(s) + 2
              /\ Len(s) \in Nat /\ read[p] \in Nat /\ written[p] \in Nat
          BY <1>1, <4>1
        <4> QED BY ONLY <4>2
      <3> QED BY <3>1, <3>3, <3>4 DEF r
    <2>2. CASE PeerWrites(p) /\ in' = [in EXCEPT ![p] = Append(@, <<p, written[p] + 1, 1>>)]
                             /\ rest' = [rest EXCEPT ![p] = written[p] + 1]
      <3>1. in'[p] = Append(s, d) /\ rest'[p] = written[p] + 1 /\ peer[p] = "up" /\ peer' = peer
            /\ written'[p] = written[p] + 1 /\ rest[p] = 0
        BY <1>1, <2>2 DEF PeerWrites, Write, d
      <3> DEFINE r == Append(s, d)
      <3> HIDE DEF s
      <3>2. Len(r) = Len(s) + 1 /\ (\A i \in 1..Len(s) : r[i] = s[i]) /\ r[Len(s) + 1] = d
        BY <1>1, <1>3, OneMore
      <3> HIDE DEF r
      <3>3. ASSUME NEW i \in 1..Len(r) PROVE r[i][1] = p /\ Number(r[i]) = 2 * read[p] + i
        <4>1. i \in 1..Len(s) \/ i = Len(s) + 1
          BY <1>1, <3>2
        <4>2. CASE i \in 1..Len(s)
          BY <1>2, <3>2, <4>2
        <4>3. CASE i = Len(s) + 1
          <5>1. Number(r[i]) = 2 * written[p] + 1 /\ r[i][1] = p
            BY <1>4, <3>2, <4>3
          <5> QED BY <1>1, <1>2, <3>1, <4>3, <5>1
        <4> QED BY <4>1, <4>2, <4>3
      <3>4. 2 * read[p] + Len(r) + 1 = 2 * (written[p] + 1) /\ written[p] + 1 # 0
        <4>1. 2 * read[p] + Len(s) = 2 * written[p] /\ Len(r) = Len(s) + 1
          BY <1>2, <3>1, <3>2
        <4>2. Len(s) \in Nat /\ read[p] \in Nat /\ written[p] \in Nat
          BY <1>1
        <4> QED BY <4>1, <4>2
      <3> QED BY <3>1, <3>3, <3>4 DEF r
    <2>3. CASE SecondHalf(p)
      <3>1. in'[p] = Append(s, f) /\ rest'[p] = 0 /\ peer[p] = "up" /\ peer' = peer
            /\ written'[p] = written[p] /\ rest[p] # 0
        BY <1>1, <2>3 DEF SecondHalf, RestArrives, f
      <3> DEFINE r == Append(s, f)
      <3> HIDE DEF s
      <3>2. Len(r) = Len(s) + 1 /\ (\A i \in 1..Len(s) : r[i] = s[i]) /\ r[Len(s) + 1] = f
        BY <1>1, <1>3, OneMore
      <3> HIDE DEF r
      <3>3. ASSUME NEW i \in 1..Len(r) PROVE r[i][1] = p /\ Number(r[i]) = 2 * read[p] + i
        <4>1. i \in 1..Len(s) \/ i = Len(s) + 1
          BY <1>1, <3>2
        <4>2. CASE i \in 1..Len(s)
          BY <1>2, <3>2, <4>2
        <4>3. CASE i = Len(s) + 1
          <5>1. Number(r[i]) = 2 * rest[p] /\ r[i][1] = p
            BY <1>4, <3>2, <4>3
          <5> QED BY <1>1, <1>2, <3>1, <4>3, <5>1
        <4> QED BY <4>1, <4>2, <4>3
      <3>4. 2 * read[p] + Len(r) = 2 * written[p]
        BY <1>1, <1>2, <3>1, <3>2
      <3> QED BY <3>1, <3>3, <3>4 DEF r
    <2>4. CASE PeerLeaves(p)
      <3>1. in' = in /\ peer'[p] # "up"
        BY <1>1, <2>4 DEF PeerLeaves, PeerEnds
      <3> QED BY <1>2, <3>1
    <2> QED BY <2>1, <2>2, <2>3, <2>4 DEF PeerWrites, Write
  <1> HIDE DEF s
  <1>7. ASSUME NEW q \in Peers
        PROVE  /\ \A i \in 1..Len(in'[q]) : in'[q][i][1] = q /\ Number(in'[q][i]) = 2 * read[q] + i
               /\ peer'[q] = "up" /\ rest'[q] = 0 => 2 * read[q] + Len(in'[q]) = 2 * written'[q]
               /\ peer'[q] = "up" /\ rest'[q] # 0 =>
                   rest'[q] = written'[q] /\ 2 * read[q] + Len(in'[q]) + 1 = 2 * written'[q]
    <2>1. CASE q = p
      BY <1>6, <2>1
    <2>2. CASE q # p
      <3>1. in'[q] = in[q] /\ rest'[q] = rest[q] /\ peer'[q] = peer[q] /\ written'[q] = written[q]
        BY <1>5, <2>2
      <3>2. /\ \A i \in 1..Len(in[q]) : in[q][i][1] = q /\ Number(in[q][i]) = 2 * read[q] + i
            /\ peer[q] = "up" /\ rest[q] = 0 => 2 * read[q] + Len(in[q]) = 2 * written[q]
            /\ peer[q] = "up" /\ rest[q] # 0 =>
                rest[q] = written[q] /\ 2 * read[q] + Len(in[q]) + 1 = 2 * written[q]
        BY DEF StreamInOrder
      <3> QED BY <3>1, <3>2
    <2> QED BY <2>1, <2>2
  <1> QED BY <1>7 DEF StreamInOrder, Number

LEMMA OrderPeer ==
    ASSUME SharedSound, OrderSound, NEW p \in Peers, PeerWrites(p) \/ SecondHalf(p) \/ PeerLeaves(p),
           UNCHANGED <<program, serverVars>>
    PROVE  OrderSound'
  <1> SUFFICES ASSUME SharedProgram, ~split, ~overlap PROVE OrderSound'
    BY PeerTyped DEF OrderSound, SharedSound, SharedProgram
  <1>1. PICK read \in [Peers -> Nat] : AllInOrder(read)
    BY DEF OrderSound
  <1>2. StreamInOrder(read)'
    BY <1>1, StreamPeer DEF AllInOrder, SharedSound
  <1>3. UNCHANGED <<program, pc, buffer, got, offset, handled, conn>>
    BY PeerTyped DEF SharedSound, serverVars
  <1>4. AllInOrder(read)'
    BY <1>1, <1>2, <1>3 DEF AllInOrder, HeldInOrder, ServedInOrder, DeliveredInOrder, Of, Past, Number
  <1> QED BY <1>4 DEF OrderSound

\* A recv() that ends with a message returns whole messages, the next ones.
LEMMA StreamRecv ==
    ASSUME SharedTyped, NEW p \in Peers, NEW t \in Threads, RecvInto(t, p), ~split',
           written' = written, NEW read \in [Peers -> Nat], StreamInOrder(read)
    PROVE  \E n \in Nat :
               /\ got' = [got EXCEPT ![t] = 2 * n]
               /\ StreamInOrder([read EXCEPT ![p] = @ + n])'
               /\ \A i \in 1..(2 * n) : buffer'[i][1] = p /\ Number(buffer'[i]) = 2 * read[p] + i
  <1> DEFINE av == Available(p, BufferHalves)
  <1>1. PICK a \in Nat : a = av
    BY RecvIntoTyped
  <1>2. /\ a \in 0..Len(in[p])
        /\ \A q \in Peers \ {p} : in'[q] = in[q]
        /\ Len(in'[p]) = Len(in[p]) - a
        /\ \A i \in 1..(Len(in[p]) - a) : in'[p][i] = in[p][i + a]
        /\ rest' = rest /\ peer' = peer
        /\ split' = (split \/ in[p][a][3] = 1)
        /\ \A i \in 1..a : buffer'[i] = in[p][i]
        /\ got' = [got EXCEPT ![t] = a]
    <2>1. /\ av \in 0..Len(in[p])
          /\ \A q \in Peers \ {p} : in'[q] = in[q]
          /\ Len(in'[p]) = Len(in[p]) - av
          /\ \A i \in 1..(Len(in[p]) - av) : in'[p][i] = in[p][i + av]
          /\ rest' = rest /\ peer' = peer
          /\ split' = (split \/ in[p][av][3] = 1)
          /\ \A i \in 1..av : buffer'[i] = in[p][i]
          /\ got' = [got EXCEPT ![t] = av]
      BY RecvIntoTyped
    <2> HIDE DEF av
    <2> QED BY <1>1, <2>1
  <1> HIDE DEF av
  <1>3. /\ in[p] \in Seq(Half) /\ Len(in[p]) \in Nat /\ read[p] \in Nat /\ written[p] \in Nat
    BY DEF SharedTyped
  <1>4. \A i \in 1..Len(in[p]) : in[p][i][1] = p /\ Number(in[p][i]) = 2 * read[p] + i
    BY DEF StreamInOrder
  <1>5. PICK n \in Nat : a = 2 * n
    <2>1. CASE a = 0
      BY <2>1
    <2>2. CASE a # 0
      <3>1. a \in 1..Len(in[p])
        BY <1>2, <1>3, <2>2
      <3> DEFINE h == in[p][a]
      <3>2. h \in Half /\ Number(h) = 2 * read[p] + a
        BY <1>3, <1>4, <3>1
      <3>3. ~(h[3] = 1)
        BY <1>2
      <3> HIDE DEF h
      <3>4. h[2] \in Nat /\ h[3] = 2
        BY <3>2, <3>3 DEF Half
      <3>5. Number(h) = 2 * h[2]
        BY <3>4 DEF Number
      <3>6. a = 2 * (h[2] - read[p]) /\ h[2] - read[p] \in Nat
        <4>1. 2 * h[2] = 2 * read[p] + a /\ h[2] \in Nat /\ read[p] \in Nat /\ a \in Nat
          BY <1>3, <3>2, <3>4, <3>5
        <4> QED BY <4>1
      <3> QED BY <3>6
    <2> QED BY <2>1, <2>2
  <1>6. PICK more \in [Peers -> Nat] :
            more[p] = read[p] + n /\ (\A q \in Peers \ {p} : more[q] = read[q])
            /\ more = [read EXCEPT ![p] = @ + n]
    <2>1. read[p] + n \in Nat
      BY <1>3
    <2> QED BY <2>1
  <1>7. ASSUME NEW q \in Peers
        PROVE  /\ \A i \in 1..Len(in'[q]) : in'[q][i][1] = q /\ Number(in'[q][i]) = 2 * more[q] + i
               /\ peer'[q] = "up" /\ rest'[q] = 0 => 2 * more[q] + Len(in'[q]) = 2 * written'[q]
               /\ peer'[q] = "up" /\ rest'[q] # 0 =>
                   rest'[q] = written'[q] /\ 2 * more[q] + Len(in'[q]) + 1 = 2 * written'[q]
    <2>1. CASE q = p
      <3>1. ASSUME NEW i \in 1..Len(in'[p])
            PROVE  in'[p][i][1] = p /\ Number(in'[p][i]) = 2 * more[p] + i
        <4>1. i \in Nat /\ i \in 1..(Len(in[p]) - a) /\ i + a \in 1..Len(in[p])
          BY <1>2, <1>3
        <4>2. in'[p][i] = in[p][i + a]
          BY <1>2, <4>1
        <4>3. in'[p][i][1] = p /\ Number(in'[p][i]) = 2 * read[p] + (i + a)
          BY <1>4, <4>1, <4>2
        <4>4. 2 * read[p] + (i + a) = 2 * (read[p] + n) + i
          BY <1>3, <1>5, <4>1
        <4> QED BY <1>6, <4>3, <4>4
      <3>2. 2 * more[p] + Len(in'[p]) = 2 * read[p] + Len(in[p])
        <4>1. 2 * (read[p] + n) + (Len(in[p]) - a) = 2 * read[p] + Len(in[p])
          BY <1>3, <1>5
        <4> QED BY <1>2, <1>6, <4>1
      <3>3. /\ peer[p] = "up" /\ rest[p] = 0 => 2 * read[p] + Len(in[p]) = 2 * written[p]
            /\ peer[p] = "up" /\ rest[p] # 0 =>
                rest[p] = written[p] /\ 2 * read[p] + Len(in[p]) + 1 = 2 * written[p]
        BY DEF StreamInOrder
      <3> QED BY <1>2, <2>1, <3>1, <3>2, <3>3
    <2>2. CASE q # p
      <3>1. in'[q] = in[q] /\ rest'[q] = rest[q] /\ peer'[q] = peer[q] /\ written'[q] = written[q]
            /\ more[q] = read[q]
        BY <1>2, <1>6, <2>2
      <3>2. /\ \A i \in 1..Len(in[q]) : in[q][i][1] = q /\ Number(in[q][i]) = 2 * read[q] + i
            /\ peer[q] = "up" /\ rest[q] = 0 => 2 * read[q] + Len(in[q]) = 2 * written[q]
            /\ peer[q] = "up" /\ rest[q] # 0 =>
                rest[q] = written[q] /\ 2 * read[q] + Len(in[q]) + 1 = 2 * written[q]
        BY DEF StreamInOrder
      <3> QED BY <3>1, <3>2
    <2> QED BY <2>1, <2>2
  <1>8. StreamInOrder(more)'
    BY <1>7 DEF StreamInOrder, Number
  <1>9. ASSUME NEW i \in 1..(2 * n) PROVE buffer'[i][1] = p /\ Number(buffer'[i]) = 2 * read[p] + i
    <2>1. i \in 1..a /\ i \in 1..Len(in[p])
      BY <1>2, <1>3, <1>5
    <2>2. buffer'[i] = in[p][i]
      BY <1>2, <2>1
    <2> QED BY <1>4, <2>1, <2>2
  <1> QED BY <1>2, <1>5, <1>6, <1>8, <1>9

\* What t holds after a recv() that nothing was in the way of.
LEMMA HeldAfterRecv ==
    ASSUME SharedTyped, NEW p \in Peers, NEW t \in Threads, RecvInto(t, p), ~split', ~overlap',
           written' = written, NEW there, pc' = [pc EXCEPT ![t] = there], Of(t)' = p,
           pc[t] \notin InUse,
           NEW read \in [Peers -> Nat], StreamInOrder(read)
    PROVE  \E n \in Nat, more \in [Peers -> Nat] :
               /\ more[p] = read[p] + n /\ \A q \in Peers \ {p} : more[q] = read[q]
               /\ got'[t] = 2 * n
               /\ StreamInOrder(more)'
               /\ HeldInOrder(t, more)' /\ \A u \in Threads : pc'[u] \in InUse => u = t
               /\ \A u \in Threads : pc[u] \notin InUse
  <1>1. PICK n \in Nat :
            /\ got' = [got EXCEPT ![t] = 2 * n]
            /\ StreamInOrder([read EXCEPT ![p] = @ + n])'
            /\ \A i \in 1..(2 * n) : buffer'[i][1] = p /\ Number(buffer'[i]) = 2 * read[p] + i
    BY StreamRecv, SMTT(20)
  <1>2. PICK more \in [Peers -> Nat] :
            more[p] = read[p] + n /\ (\A q \in Peers \ {p} : more[q] = read[q])
            /\ more = [read EXCEPT ![p] = @ + n]
    <2>1. read[p] \in Nat /\ read[p] + n \in Nat
      OBVIOUS
    <2> QED BY <2>1
  <1>3. StreamInOrder(more)'
    BY <1>1, <1>2
  <1>4. got'[t] = 2 * n
    BY <1>1 DEF SharedTyped
  <1>5. \A u \in Threads \ {t} : pc[u] \notin InUse /\ pc'[u] = pc[u]
    BY DEF RecvInto, SharedTyped
  <1>6. HeldInOrder(t, more)'
    <2>1. n \in 0..more[p] /\ more[p] - n = read[p]
      BY <1>2
    <2>2. \A i \in 1..got'[t] : buffer'[i][1] = Of(t)'
              /\ Number(buffer'[i]) = 2 * (more[Of(t)'] - n) + i
      BY <1>1, <1>4, <2>1
    <2> QED BY <1>4, <2>1, <2>2 DEF HeldInOrder, Number
  <1> QED BY <1>2, <1>3, <1>4, <1>5, <1>6

LEMMA OrderServerRecv ==
    ASSUME SharedSound, OrderSound, program = "server", program' = program,
           NEW w \in Workers, ServerRecv(w)
    PROVE  OrderSound'
  <1> SUFFICES ASSUME ~split', ~overlap' PROVE OrderSound'
    BY DEF OrderSound
  <1>1. w \in Threads /\ Workers \subseteq Threads /\ SharedTyped /\ conn[w] \in Peers
        /\ conn \in [Workers -> Peers]
    BY DEF Threads, SharedSound, SharedTyped
  <1>2. /\ pc[w] = "recv" /\ pc' = [pc EXCEPT ![w] = "frame"] /\ RecvInto(w, conn[w])
        /\ written' = written /\ handled' = handled /\ conn' = conn
    BY DEF ServerRecv, Step, serverVars
  <1>3. ~split /\ ~overlap
    BY <1>2 DEF RecvInto, SysRecv
  <1>4. PICK read \in [Peers -> Nat] : AllInOrder(read)
    BY <1>3 DEF OrderSound, SharedProgram
  <1>5. PICK n \in Nat, more \in [Peers -> Nat] :
            /\ more[conn[w]] = read[conn[w]] + n /\ \A q \in Peers \ {conn[w]} : more[q] = read[q]
            /\ got'[w] = 2 * n
            /\ StreamInOrder(more)'
            /\ HeldInOrder(w, more)' /\ \A u \in Threads : pc'[u] \in InUse => u = w
            /\ \A u \in Threads : pc[u] \notin InUse
    <2>1. Of(w)' = conn[w]
      BY <1>2 DEF Of
    <2>2. pc[w] \notin InUse
      BY <1>2 DEF InUse
    <2>3. StreamInOrder(read)
      BY <1>4 DEF AllInOrder
    <2>4. /\ SharedTyped /\ conn[w] \in Peers /\ w \in Threads /\ RecvInto(w, conn[w])
          /\ ~split' /\ ~overlap' /\ written' = written /\ pc' = [pc EXCEPT ![w] = "frame"]
          /\ read \in [Peers -> Nat]
      BY <1>1, <1>2
    <2> QED BY ONLY <2>1, <2>2, <2>3, <2>4, HeldAfterRecv, ZenonT(60)
  <1>6. ServedInOrder(read)
    BY <1>4 DEF AllInOrder
  <1>7. \A q \in Peers : more[q] \in Nat /\ read[q] \in Nat /\ read[q] <= more[q]
    <2>1. ASSUME NEW q \in Peers PROVE more[q] \in Nat /\ read[q] \in Nat /\ read[q] <= more[q]
      <3>1. more[q] \in Nat /\ read[q] \in Nat /\ (more[q] = read[q] + n \/ more[q] = read[q])
        BY <1>1, <1>5
      <3> QED BY <3>1
    <2> QED BY <2>1
  <1>8. ServedInOrder(more)'
    <2>1. ASSUME NEW q \in Peers, NEW i \in 1..Len(handled[q])
          PROVE  /\ handled[q][i][1] = q /\ handled[q][i][2] \in 1..more[q]
                 /\ \A j \in 1..(i - 1) : handled[q][j][2] < handled[q][i][2]
      <3>1. /\ handled[q][i][1] = q /\ handled[q][i][2] \in 1..read[q]
            /\ \A j \in 1..(i - 1) : handled[q][j][2] < handled[q][i][2]
        BY <1>6 DEF ServedInOrder
      <3> QED BY <1>7, <3>1
    <2>2. ASSUME NEW u \in Workers, pc'[u] \in InUse, NEW i \in 1..Len(handled[conn[u]])
          PROVE  2 * handled[conn[u]][i][2] <= 2 * more[conn[u]] - got'[u]
      <3>1. u = w
        BY <1>1, <1>5, <2>2
      <3>2. handled[conn[w]][i][2] \in 1..read[conn[w]]
        BY <1>1, <1>6, <2>2, <3>1 DEF ServedInOrder
      <3>3. read[conn[w]] \in Nat /\ more[conn[w]] = read[conn[w]] + n /\ got'[w] = 2 * n
        BY <1>1, <1>5, <1>7
      <3> DEFINE a == handled[conn[w]][i][2]
                 b == read[conn[w]]
      <3>4. a \in 1..b /\ b \in Nat /\ n \in Nat
        BY <3>2, <3>3
      <3> HIDE DEF a, b
      <3>5. 2 * a <= 2 * (b + n) - 2 * n
        BY ONLY <3>4
      <3> QED BY <3>1, <3>3, <3>5 DEF a, b
    <2> QED BY <1>2, <2>1, <2>2 DEF ServedInOrder
  <1>9. AllInOrder(more)'
    BY <1>5, <1>8 DEF AllInOrder
  <1> QED BY <1>9 DEF OrderSound

LEMMA OrderClientRecv ==
    ASSUME SharedSound, OrderSound, program = "client", program' = program,
           NEW t \in ClientThreads, ClientRecv(t)
    PROVE  OrderSound'
  <1> SUFFICES ASSUME ~split', ~overlap' PROVE OrderSound'
    BY DEF OrderSound
  <1>1. t \in Threads /\ ClientThreads \subseteq Threads /\ SharedTyped /\ Remote \in Peers
    BY RemoteAssumption DEF Threads, ClientThreads, SharedSound
  <1>2. /\ pc[t] = "recv" /\ pc' = [pc EXCEPT ![t] = "count"] /\ RecvInto(t, Remote)
        /\ written' = written /\ handled' = handled
    BY DEF ClientRecv, Step
  <1>3. ~split /\ ~overlap
    BY <1>2 DEF RecvInto, SysRecv
  <1>4. PICK read \in [Peers -> Nat] : AllInOrder(read)
    BY <1>3 DEF OrderSound, SharedProgram
  <1>5. PICK n \in Nat, more \in [Peers -> Nat] :
            /\ more[Remote] = read[Remote] + n /\ \A q \in Peers \ {Remote} : more[q] = read[q]
            /\ got'[t] = 2 * n
            /\ StreamInOrder(more)'
            /\ HeldInOrder(t, more)' /\ \A u \in Threads : pc'[u] \in InUse => u = t
            /\ \A u \in Threads : pc[u] \notin InUse
    <2>1. Of(t)' = Remote
      BY DEF Of
    <2>2. pc[t] \notin InUse
      BY <1>2 DEF InUse
    <2>3. StreamInOrder(read)
      BY <1>4 DEF AllInOrder
    <2>4. /\ SharedTyped /\ Remote \in Peers /\ t \in Threads /\ RecvInto(t, Remote) /\ ~split' /\ ~overlap'
          /\ written' = written /\ pc' = [pc EXCEPT ![t] = "count"] /\ read \in [Peers -> Nat]
      BY <1>1, <1>2
    <2> QED BY ONLY <2>1, <2>2, <2>3, <2>4, HeldAfterRecv, ZenonT(60)
  <1>6. DeliveredInOrder(read) /\ Len(handled[Remote]) = read[Remote]
    BY <1>1, <1>4, <1>5 DEF AllInOrder, DeliveredInOrder
  <1>7. pc'[t] = "count"
    BY <1>1, <1>2 DEF SharedTyped
  <1>8. DeliveredInOrder(more)'
    <2>1. 2 * Len(handled[Remote]) = 2 * more[Remote] - got'[t] + Past(t)'
      <3>1. Past(t)' = 0
        BY <1>7 DEF Past
      <3>2. read[Remote] \in Nat /\ 2 * read[Remote] = 2 * (read[Remote] + n) - 2 * n + 0
        BY <1>1
      <3> QED BY <1>5, <1>6, <3>1, <3>2
    <2>2. \A u \in ClientThreads : pc'[u] \in InUse => u = t
      BY <1>1, <1>5
    <2>3. pc'[t] \in InUse
      BY <1>7 DEF InUse
    <2> QED BY <1>2, <1>6, <2>1, <2>2, <2>3 DEF DeliveredInOrder
  <1>9. AllInOrder(more)'
    BY <1>5, <1>8 DEF AllInOrder
  <1> QED BY <1>9 DEF OrderSound

\* Nobody but the other end adds to a stream.
LEMMA StreamSame ==
    ASSUME UNCHANGED <<in, rest, written>>, \A p \in Peers : peer'[p] = "up" => peer[p] = "up",
           NEW read, StreamInOrder(read)
    PROVE  StreamInOrder(read)'
  BY DEF StreamInOrder, Number

\* The message that starts after o halves is the one that is due there.
LEMMA HandledNext ==
    ASSUME SharedTyped, NEW t \in Threads, NEW p \in Peers, Of(t) = p, ~overlap,
           NEW o \in Nat, o + 2 <= got[t], Handle(t, p, o),
           NEW k \in Nat,
           buffer[o + 1][1] = p, Number(buffer[o + 1]) = 2 * k + 1,
           buffer[o + 2][1] = p, Number(buffer[o + 2]) = 2 * k + 2
    PROVE  \E m \in HandledMessage :
               m[1] = p /\ m[2] = k + 1 /\ handled' = [handled EXCEPT ![p] = Append(@, m)]
  <1> DEFINE d == buffer[o + 1]
             e == buffer[o + 2]
             whole == e = <<d[1], d[2], 2>> /\ d[3] = 1
             m == <<d[1], IF whole THEN d[2] ELSE 0, got[t]>>
  <1>1. d \in Half /\ e \in Half /\ m \in HandledMessage
        /\ handled' = [handled EXCEPT ![p] = Append(@, m)]
    BY HandleTyped
  <1>2. /\ d[1] = p /\ e[1] = p /\ Number(d) = 2 * k + 1 /\ Number(e) = 2 * k + 2
    OBVIOUS
  <1> HIDE DEF d, e
  <1>3. /\ d[2] \in Nat /\ d[3] \in {1, 2} /\ e[2] \in Nat /\ e[3] \in {1, 2}
        /\ e = <<e[1], e[2], e[3]>>
    BY <1>1 DEF Half
  <1>4. d[3] = 1 /\ d[2] = k + 1
    BY <1>2, <1>3 DEF Number
  <1>5. e[3] = 2 /\ e[2] = k + 1
    BY <1>2, <1>3 DEF Number
  <1>6. whole
    BY <1>2, <1>3, <1>4, <1>5
  <1>7. m[1] = p /\ m[2] = k + 1
    BY <1>2, <1>4, <1>6
  <1> HIDE DEF m
  <1> QED BY <1>1, <1>7

LEMMA OrderServe ==
    ASSUME SharedSound, OrderSound, program = "server", program' = program, NEW w \in Workers, Serve(w)
    PROVE  OrderSound'
  <1> SUFFICES ASSUME ~split', ~overlap' PROVE OrderSound'
    BY DEF OrderSound
  <1>1. /\ w \in Threads /\ Workers \subseteq Threads /\ SharedTyped /\ ServerPlaces /\ OneUser
        /\ conn[w] \in Peers /\ got[w] \in Nat /\ conn \in [Workers -> Peers]
    BY DEF Threads, SharedSound, SharedTyped
  <1>2. /\ UNCHANGED <<in, rest, peer, split, buffer, got, offset, written, overlap, conn>>
        /\ pc[w] = "serve" /\ pc' = [pc EXCEPT ![w] = "update"]
    BY DEF Serve, Step, netVars, serverVars
  <1>3. PICK read \in [Peers -> Nat] : AllInOrder(read)
    BY <1>2 DEF OrderSound, SharedProgram
  <1>4. /\ StreamInOrder(read)' /\ ServedInOrder(read)
    BY <1>2, <1>3, StreamSame DEF AllInOrder
  <1>5. \A t \in Threads : pc'[t] \notin InUse
    BY <1>1, <1>2 DEF OneUser, InUse, SharedTyped
  <1>6. PICK n \in 0..read[conn[w]] :
            /\ got[w] = 2 * n
            /\ \A i \in 1..got[w] :
                buffer[i][1] = conn[w] /\ Number(buffer[i]) = 2 * (read[conn[w]] - n) + i
    <2>1. HeldInOrder(w, read)
      BY <1>1, <1>2, <1>3 DEF AllInOrder, InUse
    <2> QED BY <2>1 DEF HeldInOrder, Of
  <1>7. got[w] >= 2
    BY <1>1, <1>2 DEF ServerPlaces
  <1>8. PICK k \in Nat : k = read[conn[w]] - n /\ k + 1 <= read[conn[w]] /\ 2 * read[conn[w]] - got[w] = 2 * k
    <2>1. read[conn[w]] \in Nat
      BY <1>1
    <2>2. 1 <= n
      BY <1>6, <1>7
    <2>3. read[conn[w]] - n \in Nat /\ read[conn[w]] - n + 1 <= read[conn[w]]
          /\ 2 * read[conn[w]] - got[w] = 2 * (read[conn[w]] - n)
      BY <1>6, <2>1, <2>2
    <2> QED BY <2>3
  <1>9. /\ buffer[1][1] = conn[w] /\ Number(buffer[1]) = 2 * k + 1
        /\ buffer[2][1] = conn[w] /\ Number(buffer[2]) = 2 * k + 2
    <2>1. 1 \in 1..got[w] /\ 2 \in 1..got[w]
      BY <1>1, <1>7
    <2> QED BY <1>6, <1>8, <2>1
  <1>10. ServedInOrder(read)'
    <2>1. CASE Handle(w, conn[w], 0)
      <3>1. PICK m \in HandledMessage :
                m[1] = conn[w] /\ m[2] = k + 1 /\ handled' = [handled EXCEPT ![conn[w]] = Append(@, m)]
        <4>1. Of(w) = conn[w] /\ 0 + 2 <= got[w]
          BY <1>1, <1>7 DEF Of
        <4>2. 0 + 1 = 1 /\ 0 + 2 = 2 /\ 0 \in Nat
          OBVIOUS
        <4> QED BY <1>1, <1>2, <1>9, <2>1, <4>1, <4>2, HandledNext
      <3> DEFINE s == handled[conn[w]]
                 r == Append(s, m)
      <3>2. s \in Seq(HandledMessage) /\ Len(s) \in Nat
        BY <1>1 DEF SharedTyped
      <3>3. handled'[conn[w]] = r /\ \A q \in Peers \ {conn[w]} : handled'[q] = handled[q]
        BY <1>1, <3>1 DEF SharedTyped
      <3>4. \A i \in 1..Len(s) :
                /\ s[i][1] = conn[w] /\ s[i][2] \in 1..read[conn[w]] /\ 2 * s[i][2] <= 2 * k
                /\ \A j \in 1..(i - 1) : s[j][2] < s[i][2]
        BY <1>1, <1>2, <1>4, <1>8 DEF ServedInOrder, InUse
      <3> HIDE DEF s
      <3>5. Len(r) = Len(s) + 1 /\ (\A i \in 1..Len(s) : r[i] = s[i]) /\ r[Len(s) + 1] = m
        BY <3>1, <3>2, OneMore
      <3> HIDE DEF r
      <3>6. ASSUME NEW i \in 1..Len(r)
            PROVE  /\ r[i][1] = conn[w] /\ r[i][2] \in 1..read[conn[w]]
                   /\ \A j \in 1..(i - 1) : r[j][2] < r[i][2]
        <4>1. i \in 1..Len(s) \/ i = Len(s) + 1
          BY <3>2, <3>5
        <4>2. CASE i \in 1..Len(s)
          <5>1. \A j \in 1..(i - 1) : j \in 1..Len(s)
            BY <3>2, <4>2
          <5>2. \A j \in 1..(i - 1) : r[j] = s[j]
            BY <3>5, <5>1
          <5>3. r[i] = s[i]
            BY <3>5, <4>2
          <5> QED BY <3>4, <4>2, <5>2, <5>3
        <4>3. CASE i = Len(s) + 1
          <5>1. r[i] = m /\ m[1] = conn[w] /\ m[2] = k + 1
            BY <3>1, <3>5, <4>3
          <5>2. k + 1 \in 1..read[conn[w]]
            BY <1>1, <1>8
          <5>3. ASSUME NEW j \in 1..(i - 1) PROVE r[j][2] < k + 1
            <6>1. j \in 1..Len(s)
              BY <3>2, <4>3, <5>3
            <6>2. r[j] = s[j] /\ s[j][2] \in 1..read[conn[w]] /\ 2 * s[j][2] <= 2 * k
              BY <3>4, <3>5, <6>1
            <6>3. s[j][2] \in Int
              BY <6>2
            <6>4. 2 * s[j][2] <= 2 * k
              BY <6>2
            <6>5. s[j][2] < k + 1
              BY ONLY <6>3, <6>4, k \in Nat
            <6> QED BY <6>2, <6>5
          <5> QED BY <5>1, <5>2, <5>3
        <4> QED BY <4>1, <4>2, <4>3
      <3>7. ASSUME NEW q \in Peers, NEW i \in 1..Len(handled'[q])
            PROVE  /\ handled'[q][i][1] = q /\ handled'[q][i][2] \in 1..read[q]
                   /\ \A j \in 1..(i - 1) : handled'[q][j][2] < handled'[q][i][2]
        <4>1. CASE q = conn[w]
          BY <3>3, <3>6, <3>7, <4>1
        <4>2. CASE q # conn[w]
          <5>1. handled'[q] = handled[q]
            BY <3>3, <4>2
          <5> QED BY <1>4, <3>7, <5>1 DEF ServedInOrder
        <4> QED BY <4>1, <4>2
      <3> QED BY <1>1, <1>5, <3>7 DEF ServedInOrder
    <2>2. CASE UNCHANGED handled
      BY <1>1, <1>4, <1>5, <2>2 DEF ServedInOrder
    <2> QED BY <2>1, <2>2 DEF Serve
  <1>11. AllInOrder(read)'
    BY <1>4, <1>5, <1>10 DEF AllInOrder
  <1> QED BY <1>11 DEF OrderSound

LEMMA OrderServerMoves ==
    ASSUME SharedSound, OrderSound, program = "server", program' = program, NEW w \in Workers,
           \/ \E p \in Peers : TakeEvent(w, p)
           \/ ServerRecvNothing(w) \/ ServerRecvFails(w) \/ ServerRecvEof(w)
           \/ Frame(w) \/ FindService(w) \/ UpdateStats(w)
    PROVE  OrderSound'
  <1> SUFFICES ASSUME ~split', ~overlap' PROVE OrderSound'
    BY DEF OrderSound
  <1>1. /\ w \in Threads /\ Workers \subseteq Threads /\ SharedTyped
    BY DEF Threads, SharedSound
  <1>2. UNCHANGED <<in, rest, split, buffer, written, handled, overlap>>
    BY DEF TakeEvent, ServerRecvNothing, ServerRecvFails, ServerRecvEof, ReturnToWait, Frame,
       FindService, UpdateStats, SysRecvError, SysClose, netVars, sharedVars
  <1>3. PICK read \in [Peers -> Nat] : AllInOrder(read)
    BY <1>2 DEF OrderSound, SharedProgram
  <1>4. \A p \in Peers : peer'[p] = "up" => peer[p] = "up"
    BY <1>1 DEF TakeEvent, ServerRecvNothing, ServerRecvFails, ServerRecvEof, Frame, FindService,
       UpdateStats, SysRecvError, SysClose, netVars, SharedTyped
  <1>5. StreamInOrder(read)'
    BY <1>2, <1>3, <1>4, StreamSame DEF AllInOrder
  <1>6. ASSUME NEW t \in Threads, pc'[t] \in InUse
        PROVE  pc[t] \in InUse /\ got'[t] = got[t] /\ (t \in Workers => conn'[t] = conn[t])
    <2>1. CASE t # w
      BY <1>1, <1>6, <2>1 DEF TakeEvent, ServerRecvNothing, ServerRecvFails, ServerRecvEof, ReturnToWait,
         Frame, FindService, UpdateStats, Step, sharedVars, serverVars, SharedTyped
    <2>2. CASE t = w
      BY <1>1, <1>6, <2>2 DEF TakeEvent, ServerRecvNothing, ServerRecvFails, ServerRecvEof, ReturnToWait,
         Frame, FindService, UpdateStats, Step, sharedVars, serverVars, SharedTyped, InUse
    <2> QED BY <2>1, <2>2
  <1>7. ASSUME NEW t \in Threads, pc'[t] \in InUse PROVE HeldInOrder(t, read)'
    <2>1. t \in Workers
      BY <1>6, <1>7 DEF SharedSound, ServerPlaces, InUse
    <2>2. Of(t)' = Of(t) /\ got'[t] = got[t] /\ HeldInOrder(t, read)
      BY <1>3, <1>6, <1>7, <2>1 DEF AllInOrder, Of
    <2> QED BY <1>2, <2>2 DEF HeldInOrder, Number
  <1>8. ServedInOrder(read)'
    <2>1. ServedInOrder(read)
      BY <1>3 DEF AllInOrder
    <2>2. \A u \in Workers : pc'[u] \in InUse => pc[u] \in InUse /\ got'[u] = got[u] /\ conn'[u] = conn[u]
      BY <1>1, <1>6
    <2> QED BY <1>2, <2>1, <2>2 DEF ServedInOrder
  <1>9. AllInOrder(read)'
    BY <1>5, <1>7, <1>8 DEF AllInOrder
  <1> QED BY <1>9 DEF OrderSound

LEMMA OrderDeliver ==
    ASSUME SharedSound, OrderSound, program = "client", program' = program, NEW t \in ClientThreads,
           Deliver(t)
    PROVE  OrderSound'
  <1> SUFFICES ASSUME ~split', ~overlap' PROVE OrderSound'
    BY DEF OrderSound
  <1>1. /\ t \in Threads /\ ClientThreads \subseteq Threads /\ SharedTyped /\ ClientPlaces /\ OneUser
        /\ Remote \in Peers /\ got[t] \in Nat /\ offset[t] \in Nat
    BY RemoteAssumption DEF Threads, ClientThreads, SharedSound, SharedTyped
  <1>2. /\ UNCHANGED <<in, rest, peer, split, buffer, got, offset, written, overlap>>
        /\ pc[t] = "deliver" /\ pc' = [pc EXCEPT ![t] = "tally"]
        /\ offset[t] + 2 <= got[t] /\ Handle(t, Remote, offset[t])
    BY DEF Deliver, Step, netVars
  <1>3. PICK read \in [Peers -> Nat] : AllInOrder(read)
    BY <1>2 DEF OrderSound, SharedProgram
  <1>4. StreamInOrder(read)' /\ DeliveredInOrder(read)
    BY <1>2, <1>3, StreamSame DEF AllInOrder
  <1>5. pc'[t] = "tally" /\ \A u \in Threads : pc'[u] \in InUse => u = t
    BY <1>1, <1>2 DEF OneUser, InUse, SharedTyped
  <1>6. HeldInOrder(t, read) /\ Of(t) = Remote
    BY <1>1, <1>2, <1>3 DEF AllInOrder, InUse, Of
  <1>7. HeldInOrder(t, read)'
    <2>1. Of(t)' = Of(t)
      BY DEF Of
    <2> QED BY <1>2, <1>6, <2>1 DEF HeldInOrder, Number
  <1> DEFINE s == handled[Remote]
             k == Len(s)
             o == offset[t]
  <1>8. s \in Seq(HandledMessage) /\ k \in Nat
    BY <1>1 DEF SharedTyped
  <1>9. 2 * k = 2 * read[Remote] - got[t] + o
    BY <1>1, <1>2, <1>4 DEF DeliveredInOrder, Past, InUse
  <1>10. /\ buffer[o + 1][1] = Remote /\ Number(buffer[o + 1]) = 2 * k + 1
         /\ buffer[o + 2][1] = Remote /\ Number(buffer[o + 2]) = 2 * k + 2
    <2>1. PICK n \in 0..read[Remote] :
              /\ got[t] = 2 * n
              /\ \A i \in 1..got[t] :
                  buffer[i][1] = Remote /\ Number(buffer[i]) = 2 * (read[Remote] - n) + i
      BY <1>6 DEF HeldInOrder
    <2>2. o + 1 \in 1..got[t] /\ o + 2 \in 1..got[t]
      BY <1>1, <1>2
    <2>3. n \in Nat /\ read[Remote] \in Nat
      BY <1>1
    <2> HIDE DEF k, o
    <2>4. 2 * (read[Remote] - n) + (o + 1) = 2 * k + 1 /\ 2 * (read[Remote] - n) + (o + 2) = 2 * k + 2
      <3>1. o \in Nat
        BY <1>1 DEF o
      <3> QED BY <1>8, <1>9, <2>1, <2>3, <3>1, SMTT(20)
    <2> QED BY <2>1, <2>2, <2>4
  <1>11. PICK m \in HandledMessage :
             m[1] = Remote /\ m[2] = k + 1 /\ handled' = [handled EXCEPT ![Remote] = Append(@, m)]
    <2>1. o \in Nat /\ o + 2 <= got[t] /\ Handle(t, Remote, o) /\ ~overlap /\ SharedTyped
          /\ t \in Threads /\ Remote \in Peers /\ Of(t) = Remote /\ k \in Nat
      BY <1>1, <1>2, <1>6, <1>8
    <2> HIDE DEF k, o
    <2> QED BY ONLY <1>10, <2>1, HandledNext
  <1> DEFINE r == Append(s, m)
  <1>12. handled'[Remote] = r /\ \A q \in Peers \ {Remote} : handled'[q] = handled[q]
    BY <1>1, <1>11 DEF SharedTyped
  <1>13. \A i \in 1..Len(s) : s[i][1] = Remote /\ s[i][2] = i
    BY <1>4 DEF DeliveredInOrder
  <1>14. Len(r) = k + 1 /\ \A i \in 1..Len(r) : r[i][1] = Remote /\ r[i][2] = i
    <2> HIDE DEF s
    <2>1. Len(r) = Len(s) + 1 /\ (\A i \in 1..Len(s) : r[i] = s[i]) /\ r[Len(s) + 1] = m
      BY <1>8, <1>11, OneMore
    <2> HIDE DEF r
    <2>2. ASSUME NEW i \in 1..Len(r) PROVE r[i][1] = Remote /\ r[i][2] = i
      <3>1. i \in 1..Len(s) \/ i = Len(s) + 1
        BY <1>8, <2>1
      <3> QED BY <1>11, <1>13, <2>1, <3>1
    <2> QED BY <2>1, <2>2
  <1>15. 2 * Len(handled'[Remote]) = 2 * read[Remote] - got'[t] + Past(t)'
    <2>1. Past(t)' = o + 2 /\ got'[t] = got[t]
      BY <1>2, <1>5 DEF Past
    <2>2. Len(handled'[Remote]) = k + 1
      BY <1>12, <1>14
    <2>3. o \in Nat /\ got[t] \in Nat /\ read[Remote] \in Nat
      BY <1>1
    <2> HIDE DEF k, o
    <2>4. 2 * (k + 1) = 2 * read[Remote] - got[t] + (o + 2)
      <3>1. k \in Nat /\ 2 * k = 2 * read[Remote] - got[t] + o
        BY <1>8, <1>9
      <3> QED BY ONLY <2>3, <3>1
    <2> QED BY <2>1, <2>2, <2>4
  <1>16. DeliveredInOrder(read)'
    <2>1. \A u \in ClientThreads : pc'[u] \in InUse => u = t
      BY <1>1, <1>5
    <2>2. pc'[t] \in InUse
      BY <1>5 DEF InUse
    <2>3. \A q \in Peers \ {Remote} : Len(handled'[q]) = 0
      BY <1>4, <1>12 DEF DeliveredInOrder
    <2>4. \A i \in 1..Len(handled'[Remote]) : handled'[Remote][i][1] = Remote /\ handled'[Remote][i][2] = i
      BY <1>12, <1>14
    <2> QED BY <1>15, <2>1, <2>2, <2>3, <2>4 DEF DeliveredInOrder
  <1>17. AllInOrder(read)'
    <2>1. \A u \in Threads : pc'[u] \in InUse => HeldInOrder(u, read)'
      BY <1>5, <1>7
    <2> QED BY <1>4, <1>16, <2>1 DEF AllInOrder
  <1> QED BY <1>17 DEF OrderSound

LEMMA OrderClientMoves ==
    ASSUME SharedSound, OrderSound, program = "client", program' = program, NEW t \in ClientThreads,
           \/ t = "epoll" /\ (EpollWait \/ EpollRecvNothing \/ EpollRecvFails)
           \/ t = "receive" /\ (ReceiveEof \/ ReceiveFails)
           \/ CountBytes(t) \/ DeliverNoMore(t) \/ Tally(t)
    PROVE  OrderSound'
  <1> SUFFICES ASSUME ~split', ~overlap' PROVE OrderSound'
    BY DEF OrderSound
  <1>1. /\ t \in Threads /\ ClientThreads \subseteq Threads /\ SharedTyped /\ ClientPlaces /\ OneUser
        /\ Remote \in Peers /\ got[t] \in Nat /\ offset[t] \in Nat
    BY RemoteAssumption DEF Threads, ClientThreads, SharedSound, SharedTyped
  <1>2. UNCHANGED <<in, rest, split, buffer, got, written, handled, overlap>>
    BY DEF EpollWait, EpollRecvNothing, EpollRecvFails, ReceiveEof, ReceiveFails, CountBytes,
       DeliverNoMore, Tally, SysRecvError, SysClose, netVars, sharedVars
  <1>3. PICK read \in [Peers -> Nat] : AllInOrder(read)
    BY <1>2 DEF OrderSound, SharedProgram
  <1>4. \A p \in Peers : peer'[p] = "up" => peer[p] = "up"
    BY <1>1 DEF EpollWait, EpollRecvNothing, EpollRecvFails, ReceiveEof, ReceiveFails, CountBytes,
       DeliverNoMore, Tally, SysRecvError, SysClose, netVars, SharedTyped
  <1>5. StreamInOrder(read)' /\ DeliveredInOrder(read)
    BY <1>2, <1>3, <1>4, StreamSame DEF AllInOrder
  <1>6. \A u \in Threads \ {t} : pc'[u] = pc[u] /\ offset'[u] = offset[u]
    BY <1>1 DEF EpollWait, EpollRecvNothing, EpollRecvFails, ReceiveEof, ReceiveFails, CountBytes,
       DeliverNoMore, Tally, Step, sharedVars, SharedTyped
  <1>7. pc'[t] \in InUse => pc[t] \in InUse /\ Past(t)' = Past(t)
    <2>1. CASE CountBytes(t)
      BY <1>1, <2>1 DEF CountBytes, Step, Past, InUse, SharedTyped
    <2>2. CASE Tally(t)
      BY <1>1, <2>2 DEF Tally, Step, Past, InUse, SharedTyped
    <2>3. CASE ~(CountBytes(t) \/ Tally(t))
      BY <1>1, <2>3 DEF EpollWait, EpollRecvNothing, EpollRecvFails, ReceiveEof, ReceiveFails,
         DeliverNoMore, Again, Step, InUse, SharedTyped
    <2> QED BY <2>1, <2>2, <2>3
  <1>8. ASSUME NEW u \in Threads, pc'[u] \in InUse
        PROVE  pc[u] \in InUse /\ Past(u)' = Past(u)
    BY <1>6, <1>7, <1>8 DEF Past
  <1>9. ASSUME NEW u \in Threads, pc'[u] \in InUse PROVE HeldInOrder(u, read)'
    <2>1. Of(u)' = Of(u) /\ HeldInOrder(u, read)
      BY <1>3, <1>8, <1>9 DEF AllInOrder, Of
    <2> QED BY <1>2, <2>1 DEF HeldInOrder, Number
  <1>10. ASSUME \A u \in ClientThreads : pc'[u] \notin InUse
         PROVE  Len(handled[Remote]) = read[Remote]
    <2>1. CASE pc[t] \notin InUse
      <3>1. \A u \in ClientThreads : pc[u] \notin InUse
        BY <1>1, <1>6, <1>10, <2>1
      <3> QED BY <1>5, <3>1 DEF DeliveredInOrder
    <2>2. CASE pc[t] \in InUse
      <3>1. DeliverNoMore(t)
        BY <1>1, <1>10, <2>2 DEF EpollWait, EpollRecvNothing, EpollRecvFails, ReceiveEof, ReceiveFails,
           CountBytes, Tally, Step, InUse, SharedTyped
      <3>2. pc[t] = "deliver" /\ offset[t] + 2 > got[t] /\ offset[t] <= got[t]
        BY <1>1, <3>1 DEF DeliverNoMore, Step, ClientPlaces
      <3>3. 2 * Len(handled[Remote]) = 2 * read[Remote] - got[t] + offset[t]
        BY <1>1, <1>5, <2>2, <3>2 DEF DeliveredInOrder, Past
      <3>4. PICK n \in 0..read[Remote] : got[t] = 2 * n
        BY <1>1, <1>3, <2>2 DEF AllInOrder, HeldInOrder, Of
      <3> DEFINE k == Len(handled[Remote])
      <3>5. k \in Nat /\ read[Remote] \in Nat
        BY <1>1 DEF SharedTyped
      <3> HIDE DEF k
      <3>6. 2 * k = 2 * read[Remote] - got[t] + offset[t]
        BY <3>3 DEF k
      <3>7. offset[t] = got[t] \/ offset[t] + 1 = got[t]
        BY <1>1, <3>2
      <3>8. k = read[Remote]
        <4>1. CASE offset[t] = got[t]
          BY <1>1, <3>5, <3>6, <4>1
        <4>2. CASE offset[t] + 1 = got[t]
          BY <1>1, <3>5, <3>6, <4>2
        <4> QED BY <3>7, <4>1, <4>2
      <3> QED BY <3>8 DEF k
    <2> QED BY <2>1, <2>2
  <1>11. DeliveredInOrder(read)'
    <2>1. \A u \in ClientThreads : pc'[u] \in InUse => pc[u] \in InUse /\ Past(u)' = Past(u)
      BY <1>1, <1>8
    <2>2. \A u \in ClientThreads : pc'[u] \in InUse =>
              2 * Len(handled[Remote]) = 2 * read[Remote] - got[u] + Past(u)'
      BY <1>5, <2>1 DEF DeliveredInOrder
    <2> QED BY <1>2, <1>5, <1>10, <2>2 DEF DeliveredInOrder
  <1>12. AllInOrder(read)'
    BY <1>5, <1>9, <1>11 DEF AllInOrder
  <1> QED BY <1>12 DEF OrderSound

LEMMA OrderStep ==
    ASSUME SharedProgram, SharedSound, OrderSound, [Next]_vars
    PROVE  OrderSound'
  <1>1. CASE UNCHANGED vars
    <2>1. UNCHANGED <<program, pc, in, rest, peer, split, buffer, got, offset, written, handled, overlap, conn>>
      BY <1>1 DEF vars, netVars, sharedVars, serverVars
    <2> SUFFICES ASSUME ~split, ~overlap PROVE OrderSound'
      BY <2>1 DEF OrderSound
    <2>2. PICK read \in [Peers -> Nat] : AllInOrder(read)
      BY DEF OrderSound
    <2>3. StreamInOrder(read)'
      BY <2>1, <2>2, StreamSame DEF AllInOrder
    <2>4. AllInOrder(read)'
      BY <2>1, <2>2, <2>3 DEF AllInOrder, HeldInOrder, ServedInOrder, DeliveredInOrder, Of, Past, Number
    <2> QED BY <2>4 DEF OrderSound
  <1>2. CASE Next
    <2>1. program' = program
      BY <1>2, SharedSteps
    <2>2. CASE UNCHANGED serverVars
               /\ \E p \in Peers : PeerWrites(p) \/ SecondHalf(p) \/ PeerLeaves(p)
      BY <2>1, <2>2, OrderPeer
    <2>3. CASE program = "server" /\ \E w \in Workers : WorkerStep(w)
      BY <2>1, <2>3, OrderServerRecv, OrderServerMoves, OrderServe DEF WorkerStep
    <2>4. CASE /\ program = "client" /\ UNCHANGED serverVars
               /\ \E t \in ClientThreads :
                      \/ t = "epoll" /\ (EpollWait \/ EpollRecvNothing \/ EpollRecvFails)
                      \/ t = "receive" /\ (ReceiveEof \/ ReceiveFails)
                      \/ ClientThreadStep(t)
      BY <2>1, <2>4, OrderClientRecv, OrderClientMoves, OrderDeliver DEF ClientThreadStep
    <2> QED BY <1>2, <2>2, <2>3, <2>4, SharedSteps
  <1> QED BY <1>1, <1>2

\* What the invariant says of the messages that were taken out.
LEMMA OrderGives ==
    ASSUME SharedProgram, SharedSound, OrderSound
    PROVE  InOrderUnlessShared
  <1> SUFFICES ASSUME ~overlap, ~split, NEW p \in Peers, NEW i \in DOMAIN handled[p]
               PROVE  /\ handled[p][i][1] = p /\ handled[p][i][2] > 0
                      /\ \A j \in 1..(i - 1) : handled[p][j][2] < handled[p][i][2]
                      /\ program = "client" => handled[p][i][2] = i
    BY DEF InOrderUnlessShared
  <1>1. PICK read \in [Peers -> Nat] : AllInOrder(read)
    BY DEF OrderSound
  <1>2. i \in 1..Len(handled[p]) /\ Len(handled[p]) \in Nat
    BY DEF SharedSound, SharedTyped
  <1>3. CASE program = "server"
    <2>1. /\ handled[p][i][1] = p /\ handled[p][i][2] \in 1..read[p]
          /\ \A j \in 1..(i - 1) : handled[p][j][2] < handled[p][i][2]
      BY <1>1, <1>2, <1>3 DEF AllInOrder, ServedInOrder
    <2> QED BY <1>3, <2>1
  <1>4. CASE program = "client"
    <2>1. DeliveredInOrder(read)
      BY <1>1, <1>4 DEF AllInOrder
    <2>2. p = Remote
      BY <1>2, <2>1 DEF DeliveredInOrder
    <2>3. \A j \in 1..Len(handled[p]) : handled[p][j][1] = p /\ handled[p][j][2] = j
      BY <2>1, <2>2 DEF DeliveredInOrder
    <2>4. \A j \in 1..(i - 1) : j \in 1..Len(handled[p]) /\ j < i
      BY <1>2
    <2> QED BY <1>2, <2>3, <2>4
  <1> QED BY <1>3, <1>4 DEF SharedProgram

-----------------------------------------------------------------------------
(* The theorems                                                            *)

\* What the other programs leave as it was.
Untouched ==
    /\ buffer = <<>> /\ edge = FALSE /\ overlap = FALSE /\ count = 0 /\ bytes = 0
    /\ got = [t \in Threads |-> 0] /\ offset = [t \in Threads |-> 0]
    /\ written = [p \in Peers |-> 0] /\ handled = [p \in Peers |-> <<>>]
    /\ conn = [w \in Workers |-> Remote] /\ service = [w \in Workers |-> "none"]

SharedInv ==
    /\ SharedProgram => SharedSound /\ CountSound /\ OrderSound /\ BytesConserved
    /\ ~SharedProgram => Untouched

LEMMA OthersLeaveIt ==
    ASSUME ~SharedProgram, [Next]_vars
    PROVE  UNCHANGED <<program, sharedVars, serverVars>>
  <1>1. CASE UNCHANGED vars
    BY <1>1 DEF vars
  <1>2. CASE Next
    <2>1. ~PeerStep
      BY DEF PeerStep, Shared, PeerWrites, SecondHalf, PeerLeaves
    <2>2. CASE AnswerStep \/ Sigint
      BY <2>2 DEF AnswerStep, Sigint, Trip
    <2>3. ASSUME NEW t \in Threads, ThreadStep(t) PROVE UNCHANGED <<program, sharedVars, serverVars>>
      BY <2>3 DEF ThreadStep, SharedProgram, Trip
    <2> QED BY <1>2, <2>1, <2>2, <2>3 DEF Next
  <1> QED BY <1>1, <1>2

LEMMA SharedInvInit == Init => SharedInv
  <1> SUFFICES ASSUME Init PROVE SharedInv
    OBVIOUS
  <1>1. Untouched
    BY DEF Init, Untouched
  <1>2. ASSUME SharedProgram PROVE BytesConserved
    <2>1. program = "client" => pc["receive"] = "recv" /\ pc["epoll"] = "wait"
      BY DEF Init, Start, TripPrograms, Threads
    <2>2. bytes = 0 /\ taken = 0
      BY DEF Init
    <2> QED BY <2>1, <2>2 DEF BytesConserved
  <1> QED BY <1>1, <1>2, SoundInit, CountInit, OrderInit DEF SharedInv

LEMMA SharedInvStep == SharedInv /\ [Next]_vars => SharedInv'
  <1> SUFFICES ASSUME SharedInv, [Next]_vars PROVE SharedInv'
    OBVIOUS
  <1>1. CASE SharedProgram
    <2>1. program' = program
      BY <1>1, SharedSteps DEF vars
    <2>2. SharedSound /\ CountSound /\ OrderSound /\ BytesConserved
      BY <1>1 DEF SharedInv
    <2>3. SharedSound' /\ CountSound' /\ OrderSound' /\ BytesConserved'
      BY <1>1, <2>2, SoundStep, CountStep, OrderStep
    <2> QED BY <1>1, <2>1, <2>3 DEF SharedInv, SharedProgram
  <1>2. CASE ~SharedProgram
    <2>1. UNCHANGED <<program, sharedVars, serverVars>>
      BY <1>2, OthersLeaveIt
    <2>2. Untouched'
      BY <1>2, <2>1 DEF SharedInv, Untouched, sharedVars, serverVars
    <2> QED BY <1>2, <2>1, <2>2 DEF SharedInv, SharedProgram
  <1> QED BY <1>1, <1>2

\* bytes_received of HFTTCPClient is what both of its threads received, but
\* for what a thread has received and not added yet.
THEOREM EveryByteCounted == Spec => []BytesConserved
  <1>1. SharedInv => BytesConserved
    BY DEF SharedInv, SharedProgram, BytesConserved
  <1> QED BY <1>1, SharedInvInit, SharedInvStep, PTL DEF Spec

\* Without a recv() into the buffer in use, and none that ended inside a
\* message, each program takes out of a connection its own messages, in the
\* order they were written and each once, and HFTTCPClient misses none.
THEOREM TakenInOrder == Spec => []InOrderUnlessShared
  <1>1. SharedInv => InOrderUnlessShared
    <2> SUFFICES ASSUME SharedInv PROVE InOrderUnlessShared
      OBVIOUS
    <2>1. CASE SharedProgram
      BY <2>1, OrderGives DEF SharedInv
    <2>2. CASE ~SharedProgram
      <3>1. \A p \in Peers : handled[p] = <<>>
        BY <2>2 DEF SharedInv, Untouched
      <3>2. <<>> \in Seq(Nat) /\ Len(<<>>) = 0
        OBVIOUS
      <3>3. DOMAIN <<>> = 1..0
        BY <3>2, LenProperties
      <3>4. 1..0 = {}
        OBVIOUS
      <3> QED BY <3>1, <3>3, <3>4 DEF InOrderUnlessShared
    <2> QED BY <2>1, <2>2
  <1> QED BY <1>1, SharedInvInit, SharedInvStep, PTL DEF Spec
=============================================================================
