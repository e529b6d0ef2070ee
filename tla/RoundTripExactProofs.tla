------------------------- MODULE RoundTripExactProofs -------------------------
(***************************************************************************)
(* Why a reply is matched with the send time of its own message, in any    *)
(* program of Receivers that measures latencies and for any number of      *)
(* messages, as long as nothing was lost, split or left without an answer. *)
(*                                                                         *)
(* RoundTripProofs shows that nothing comes before its place.  Here it is  *)
(* that nothing belongs to a message not sent yet, and that without a loss *)
(* everything is at its place exactly: half i of what is sent, and half i  *)
(* of what comes back, belongs to message i / 2.                           *)
(***************************************************************************)
EXTENDS RoundTripProofs

\* How many messages have been handed to send().
Begun == sent + InFlight

HalfUpTo(n) == Peers \X (1..n) \X {1, 2}

\* All that is under way or kept belongs to the first n messages.
Within(n) ==
    /\ out \in Seq(1..n) /\ times \in Seq(1..n)
    /\ in[Remote] \in Seq(HalfUpTo(n)) /\ held \in Seq(HalfUpTo(n))
    /\ rest[Remote] \in 0..n
    /\ pairs \subseteq (1..n) \X (1..n)

NoneAhead ==
    program \in TripPrograms =>
        /\ Begun <= NumMessages[program] /\ Within(Begun)
        /\ failed \in Nat
        /\ program = "ping" => \A m \in pairs : m[1] <= m[2]
        /\ program = "simple" => pairs = {}

-----------------------------------------------------------------------------
(* What exists                                                             *)

LEMMA SeqOfMore ==
    ASSUME NEW S, NEW T, S \subseteq T, NEW s \in Seq(S)
    PROVE  s \in Seq(T)
  OBVIOUS

LEMMA BegunTyped ==
    ASSUME Typed
    PROVE  Begun \in Nat /\ sent <= Begun /\ Begun <= sent + 1
  BY NumbersTyped DEF Typed, Begun

LEMMA WithinMore ==
    ASSUME NEW m \in Nat, NEW n \in Nat, m <= n, Within(m)
    PROVE  Within(n)
  <1>1. 1..m \subseteq 1..n /\ 0..m \subseteq 0..n
    OBVIOUS
  <1>2. HalfUpTo(m) \subseteq HalfUpTo(n)
    BY <1>1 DEF HalfUpTo
  <1>3. (1..m) \X (1..m) \subseteq (1..n) \X (1..n)
    BY <1>1
  <1>4. out \in Seq(1..n) /\ times \in Seq(1..n)
    BY <1>1, SeqOfMore DEF Within
  <1>5. in[Remote] \in Seq(HalfUpTo(n)) /\ held \in Seq(HalfUpTo(n))
    BY <1>2, SeqOfMore DEF Within
  <1> QED BY <1>1, <1>3, <1>4, <1>5 DEF Within

LEMMA WithinSame ==
    ASSUME NEW n \in Nat, Within(n), UNCHANGED <<out, times, in, held, rest, pairs>>
    PROVE  Within(n)'
  BY DEF Within

LEMMA SendWithin ==
    ASSUME NEW n \in Nat, out \in Seq(1..n), sent + 1 \in 1..n,
           out' = out \/ \E k \in Outcomes : SysSend(sent + 1, k)
    PROVE  out' \in Seq(1..n)
  <1>1. CASE out' = out
    BY <1>1
  <1>2. CASE out' # out
    <2>1. PICK k \in {0, 1, 2} : out' = out \o [i \in 1..k |-> sent + 1]
      BY <1>2 DEF SysSend, Outcomes
    <2> DEFINE new == [i \in 1..k |-> sent + 1]
    <2>2. new \in Seq(1..n)
      BY <2>1
    <2> HIDE DEF new
    <2> QED BY <2>1, <2>2 DEF new
  <1> QED BY <1>1, <1>2

LEMMA RecvWithin ==
    ASSUME Typed, InInPlace, NEW S, in[Remote] \in Seq(S), NEW max \in Nat, SysRecv(Remote, max)
    PROVE  in'[Remote] \in Seq(S) /\ Received(Remote, max) \in Seq(S)
  <1> DEFINE a == Available(Remote, max)
             stream == in[Remote]
  <1>1. a \in 0..Len(stream) /\ in'[Remote] = SubSeq(stream, a + 1, Len(stream))
    BY RecvKeepsPlaces
  <1>2. Received(Remote, max) = SubSeq(stream, 1, a)
    BY DEF Received
  <1> HIDE DEF a, stream
  <1>3. stream \in Seq(S)
    BY DEF stream
  <1>4. SubSeq(stream, a + 1, Len(stream)) \in Seq(S) /\ SubSeq(stream, 1, a) \in Seq(S)
    BY <1>1, <1>3
  <1> QED BY <1>1, <1>2, <1>4 DEF stream

\* What a step has to show: n is the number of messages begun after it.
LEMMA NoneAheadNext ==
    ASSUME NEW n \in Nat, Begun' = n, program' = program, n <= NumMessages[program], Within(n)',
           failed' \in Nat,
           program = "ping" => \A m \in pairs' : m[1] <= m[2],
           program = "simple" => pairs' = {}
    PROVE  NoneAhead'
  <1>1. Within(Begun)'
    BY DEF Within, HalfUpTo
  <1> QED BY <1>1 DEF NoneAhead

\* A step after which as many messages or one more are begun.
LEMMA BegunNext ==
    ASSUME InPlace, InPlace', NoneAhead, program \in TripPrograms,
           Begun' = Begun \/ (Begun' = Begun + 1 /\ sent < NumMessages[program] /\ InFlight = 0)
    PROVE  \E n \in Nat :
               /\ Begun' = n /\ Begun <= n /\ n <= NumMessages[program] /\ Within(n)
               /\ Begun' = Begun => Begun = n
  <1>1. Begun \in Nat /\ sent \in Nat /\ NumMessages[program] \in Nat
    BY BegunTyped, NumMessagesAssumption DEF InPlace, Typed
  <1>2. Begun <= NumMessages[program] /\ Within(Begun)
    BY DEF NoneAhead
  <1>3. CASE Begun' = Begun
    BY <1>1, <1>2, <1>3
  <1>4. CASE Begun' = Begun + 1 /\ sent < NumMessages[program] /\ InFlight = 0
    <2>1. Begun = sent
      BY <1>1, <1>4 DEF Begun, InPlace, Typed
    <2>2. Begun + 1 \in Nat /\ Begun <= Begun + 1 /\ Begun + 1 <= NumMessages[program]
          /\ Begun + 1 # Begun
      BY <1>1, <1>4, <2>1
    <2>3. Within(Begun + 1)
      BY <1>1, <1>2, <2>2, WithinMore
    <2> QED BY <1>4, <2>2, <2>3
  <1> QED BY <1>3, <1>4

LEMMA MovesNoneAhead ==
    ASSUME InPlace, InPlace', NoneAhead, program \in TripPrograms, Moves
    PROVE  NoneAhead'
  <1>1. Begun' = Begun
    BY DEF Moves, Begun
  <1>2. PICK n \in Nat : Begun' = n /\ n <= NumMessages[program] /\ Within(n)
    BY <1>1, BegunNext
  <1>3. Within(n)'
    BY <1>2, WithinSame DEF Moves
  <1> QED BY <1>2, <1>3, NoneAheadNext DEF Moves, NoneAhead

-----------------------------------------------------------------------------
(* The server's end                                                        *)

LEMMA AnswerNoneAhead ==
    ASSUME InPlace, InPlace', NoneAhead, TripProgram, program' = program, ServerAnswers
    PROVE  NoneAhead'
  <1>1. /\ UNCHANGED <<pc, times, held, replies, pairs, sent, failed>>
        /\ Len(out) >= 2 /\ out' = SubSeq(out, 3, Len(out))
    BY DEF ServerAnswers, matchVars
  <1>2. Begun' = Begun
    BY <1>1 DEF Begun, InFlight
  <1>3. PICK n \in Nat : Begun' = n /\ n <= NumMessages[program] /\ Within(n)
    BY <1>2, BegunNext DEF TripProgram
  <1>4. out \in Seq(1..n) /\ in[Remote] \in Seq(HalfUpTo(n)) /\ rest[Remote] \in 0..n
    BY <1>3 DEF Within
  <1>5. out' \in Seq(1..n) /\ out[2] \in 1..n
    BY <1>1, <1>4, SMTT(20)
  <1>6. in'[Remote] \in Seq(HalfUpTo(n)) /\ rest'[Remote] \in 0..n
    <2>1. CASE UNCHANGED netVars
      BY <1>4, <2>1 DEF netVars
    <2>2. CASE Write(Remote, out[2])
      <3>1. PICK a \in HalfUpTo(n), b \in HalfUpTo(n) :
                \/ in' = [in EXCEPT ![Remote] = @ \o <<a, b>>] /\ rest' = rest
                \/ in' = [in EXCEPT ![Remote] = Append(@, a)] /\ rest' = [rest EXCEPT ![Remote] = out[2]]
        <4>1. <<Remote, out[2], 1>> \in HalfUpTo(n) /\ <<Remote, out[2], 2>> \in HalfUpTo(n)
          BY <1>5, RemoteAssumption DEF HalfUpTo
        <4> QED BY <2>2, <4>1 DEF Write
      <3>2. in \in [Peers -> Seq(Half)] /\ rest \in [Peers -> Nat]
        BY DEF InPlace, Typed
      <3>3. in'[Remote] = in[Remote] \o <<a, b>> \/ in'[Remote] = Append(in[Remote], a)
        BY <3>1, <3>2, RemoteAssumption
      <3>4. in'[Remote] \in Seq(HalfUpTo(n))
        <4>1. <<a, b>> \in Seq(HalfUpTo(n))
          OBVIOUS
        <4>2. in[Remote] \o <<a, b>> \in Seq(HalfUpTo(n)) /\ Append(in[Remote], a) \in Seq(HalfUpTo(n))
          <5> DEFINE stream == in[Remote]
          <5>1. stream \in Seq(HalfUpTo(n))
            BY <1>4
          <5> HIDE DEF stream
          <5>2. stream \o <<a, b>> \in Seq(HalfUpTo(n)) /\ Append(stream, a) \in Seq(HalfUpTo(n))
            BY <4>1, <5>1
          <5> QED BY <5>2 DEF stream
        <4> QED BY <3>3, <4>2
      <3>5. rest'[Remote] \in 0..n
        BY <1>4, <1>5, <3>1, <3>2, RemoteAssumption
      <3> QED BY <3>4, <3>5
    <2> QED BY <2>1, <2>2 DEF ServerAnswers
  <1>7. Within(n)'
    BY <1>1, <1>3, <1>5, <1>6 DEF Within
  <1> QED BY <1>1, <1>3, <1>7, NoneAheadNext DEF NoneAhead, TripProgram

LEMMA RestNoneAhead ==
    ASSUME InPlace, InPlace', NoneAhead, TripProgram, program' = program, RestOfAnswer \/ ServerEnds
    PROVE  NoneAhead'
  <1>1. /\ UNCHANGED <<pc, out, times, held, replies, pairs, sent, failed>>
        /\ rest' = [rest EXCEPT ![Remote] = 0]
        /\ \/ in' = in
           \/ rest[Remote] # 0 /\ in' = [in EXCEPT ![Remote] = Append(@, <<Remote, rest[Remote], 2>>)]
    BY DEF RestOfAnswer, RestArrives, ServerEnds, PeerEnds, tripVars, sendVars, matchVars
  <1>2. Begun' = Begun
    BY <1>1 DEF Begun, InFlight
  <1>3. PICK n \in Nat : Begun' = n /\ n <= NumMessages[program] /\ Within(n)
    BY <1>2, BegunNext DEF TripProgram
  <1>4. in[Remote] \in Seq(HalfUpTo(n)) /\ rest[Remote] \in 0..n
        /\ in \in [Peers -> Seq(Half)] /\ rest \in [Peers -> Nat]
    BY <1>3 DEF Within, InPlace, Typed
  <1>5. rest'[Remote] \in 0..n
    BY <1>1, <1>4, RemoteAssumption
  <1>6. in'[Remote] \in Seq(HalfUpTo(n))
    <2>1. CASE in' = in
      BY <1>4, <2>1
    <2>2. CASE rest[Remote] # 0 /\ in' = [in EXCEPT ![Remote] = Append(@, <<Remote, rest[Remote], 2>>)]
      <3>1. <<Remote, rest[Remote], 2>> \in HalfUpTo(n)
        BY <1>4, <2>2, RemoteAssumption DEF HalfUpTo
      <3>2. in'[Remote] = Append(in[Remote], <<Remote, rest[Remote], 2>>)
        BY <1>4, <2>2, RemoteAssumption
      <3> QED BY <1>4, <3>1, <3>2
    <2> QED BY <1>1, <2>1, <2>2
  <1>7. Within(n)'
    BY <1>1, <1>3, <1>5, <1>6 DEF Within
  <1> QED BY <1>1, <1>3, <1>7, NoneAheadNext DEF NoneAhead, TripProgram

-----------------------------------------------------------------------------
(* Sending, and the storing of send times                                  *)

LEMMA SendNoneAhead ==
    ASSUME InPlace, InPlace', NoneAhead, program \in TripPrograms, program' = program,
           \/ program = "latency" /\ LatencySend
           \/ program = "burst" /\ BurstSend
           \/ program = "ping" /\ PingSend
           \/ program = "simple" /\ SimpleSend
    PROVE  NoneAhead'
  <1>1. /\ UNCHANGED <<in, rest, held, pairs>> /\ sent < NumMessages[program]
        /\ times' = times \/ times' = Append(times, sent + 1)
        /\ out' = out \/ \E k \in Outcomes : SysSend(sent + 1, k)
    BY DEF LatencySend, BurstSend, PingSend, SimpleSend, netVars, matchVars, Outcomes
  <1>2. failed' \in Nat
    <2>1. failed \in Nat
      BY DEF NoneAhead
    <2>2. failed' = failed \/ \E k \in {0, 1, 2} : failed' = failed + (IF k = 2 THEN 0 ELSE 1)
      BY DEF LatencySend, BurstSend, PingSend, SimpleSend, SysSend, Outcomes
    <2> QED BY <2>1, <2>2
  <1>3. sent \in Nat /\ "main" \in Threads /\ pc \in [Threads -> Places]
    BY DEF InPlace, Typed, Threads
  <1>4. InFlight = 0 /\ Begun' = Begun + 1
    <2>1. CASE program = "latency" /\ LatencySend
      BY <1>3, <2>1 DEF LatencySend, MainStep, Step, Begun, InFlight
    <2>2. CASE program = "burst" /\ BurstSend
      BY <1>3, <2>2 DEF BurstSend, Begun, InFlight
    <2>3. CASE program = "ping" /\ PingSend
      BY <1>3, <2>3 DEF PingSend, Begun, InFlight
    <2>4. CASE program = "simple" /\ SimpleSend
      BY <1>3, <2>4 DEF SimpleSend, Begun, InFlight
    <2> QED BY <2>1, <2>2, <2>3, <2>4
  <1>5. PICK n \in Nat : Begun' = n /\ n <= NumMessages[program] /\ Within(n)
    BY <1>1, <1>4, BegunNext
  <1>6. sent + 1 \in 1..n
    BY <1>3, <1>4, <1>5 DEF Begun
  <1>7. out' \in Seq(1..n) /\ times' \in Seq(1..n)
    <2>1. out \in Seq(1..n) /\ times \in Seq(1..n)
      BY <1>5 DEF Within
    <2>2. out' \in Seq(1..n)
      BY <1>1, <1>6, <2>1, SendWithin
    <2>3. Append(times, sent + 1) \in Seq(1..n)
      BY <1>6, <2>1
    <2> QED BY <1>1, <2>1, <2>2, <2>3
  <1>8. Within(n)'
    BY <1>1, <1>5, <1>7 DEF Within
  <1> QED BY <1>1, <1>2, <1>5, <1>8, NoneAheadNext DEF NoneAhead

LEMMA TimesNoneAhead ==
    ASSUME InPlace, InPlace', NoneAhead, program = "latency", program' = program,
           LatencyReset \/ ClearTimes \/ StoreSendTime
    PROVE  NoneAhead'
  <1>1. /\ UNCHANGED <<in, rest, out, held, pairs, failed>>
        /\ \/ LatencyReset /\ times' = times
           \/ ClearTimes /\ times' = <<>>
           \/ StoreSendTime /\ times' = Append(times, sent + 1)
    BY DEF LatencyReset, ClearTimes, StoreSendTime, netVars, sendVars
  <1>2. sent \in Nat /\ "main" \in Threads /\ pc \in [Threads -> Places] /\ program \in TripPrograms
    BY DEF InPlace, Typed, Threads, TripPrograms
  <1>3. Begun' = Begun /\ (StoreSendTime => Begun = sent + 1)
    <2>1. CASE LatencyReset \/ ClearTimes
      BY <1>2, <2>1 DEF LatencyReset, ClearTimes, StoreSendTime, MainStep, Step, Begun, InFlight, sendVars
    <2>2. CASE StoreSendTime
      BY <1>2, <2>2 DEF StoreSendTime, MainStep, Step, Begun, InFlight
    <2>3. LatencyReset \/ ClearTimes \/ StoreSendTime
      BY <1>1
    <2> QED BY <2>1, <2>2, <2>3
  <1>4. PICK n \in Nat : Begun' = n /\ n <= NumMessages[program] /\ Within(n)
    BY <1>2, <1>3, BegunNext
  <1>5. times' \in Seq(1..n)
    <2>1. times \in Seq(1..n) /\ <<>> \in Seq(1..n)
      BY <1>4 DEF Within
    <2>2. CASE StoreSendTime /\ times' = Append(times, sent + 1)
      <3>1. sent + 1 \in 1..n
        BY <1>2, <1>3, <1>4, <2>2
      <3> QED BY <2>1, <2>2, <3>1
    <2> QED BY <1>1, <2>1, <2>2
  <1>6. Within(n)'
    BY <1>1, <1>4, <1>5 DEF Within
  <1> QED BY <1>1, <1>2, <1>4, <1>6, NoneAheadNext DEF NoneAhead

-----------------------------------------------------------------------------
(* Receiving                                                               *)

LEMMA LatencyRecvNoneAhead ==
    ASSUME InPlace, InPlace', NoneAhead, program = "latency", program' = program,
           LatencyRecv \/ MatchNoMore
    PROVE  NoneAhead'
  <1>1. UNCHANGED <<rest, out, times, pairs, failed, sent>>
    BY DEF LatencyRecv, MatchNoMore, SysRecv, netVars, sendVars
  <1>2. "main" \in Threads /\ pc \in [Threads -> Places] /\ program \in TripPrograms
    BY DEF InPlace, Typed, Threads, TripPrograms
  <1>3. Begun' = Begun
    BY <1>1, <1>2 DEF LatencyRecv, MatchNoMore, Step, Begun, InFlight
  <1>4. PICK n \in Nat : Begun' = n /\ n <= NumMessages[program] /\ Within(n)
    BY <1>2, <1>3, BegunNext
  <1>5. in'[Remote] \in Seq(HalfUpTo(n)) /\ held' \in Seq(HalfUpTo(n))
    <2>1. CASE LatencyRecv
      BY <1>4, <2>1, RecvWithin, ReplyAssumption DEF LatencyRecv, Within, InPlace
    <2>2. CASE MatchNoMore
      BY <1>4, <2>2 DEF MatchNoMore, Within, netVars
    <2> QED BY <2>1, <2>2
  <1>6. Within(n)'
    BY <1>1, <1>4, <1>5 DEF Within
  <1> QED BY <1>1, <1>2, <1>4, <1>6, NoneAheadNext DEF NoneAhead

LEMMA MatchNoneAhead ==
    ASSUME InPlace, InPlace', NoneAhead, program = "latency", program' = program, Match
    PROVE  NoneAhead'
  <1>1. /\ UNCHANGED <<in, rest, out, failed, sent>>
        /\ Len(held) >= 2 /\ held' = SubSeq(held, 3, Len(held))
    BY DEF Match, netVars, sendVars
  <1>2. "main" \in Threads /\ pc \in [Threads -> Places] /\ program \in TripPrograms
    BY DEF InPlace, Typed, Threads, TripPrograms
  <1>3. Begun' = Begun
    BY <1>1, <1>2 DEF Match, Step, Begun, InFlight
  <1>4. PICK n \in Nat : Begun' = n /\ n <= NumMessages[program] /\ Within(n)
    BY <1>2, <1>3, BegunNext
  <1>5. held \in Seq(HalfUpTo(n)) /\ times \in Seq(1..n)
    BY <1>4 DEF Within
  <1>6. held' \in Seq(HalfUpTo(n))
    BY <1>1, <1>5, DropTwo
  <1>7. times' \in Seq(1..n) /\ pairs' \subseteq (1..n) \X (1..n)
    <2>1. CASE times = <<>>
      BY <1>4, <1>5, <2>1 DEF Match, Within
    <2>2. CASE times # <<>>
      <3>1. times' \in Seq(1..n) /\ Head(times) \in 1..n
        BY <1>5, <2>2 DEF Match
      <3>2. held[2] \in HalfUpTo(n)
        BY <1>1, <1>5
      <3>3. <<held[2][2], Head(times)>> \in (1..n) \X (1..n)
        BY <3>1, <3>2 DEF HalfUpTo
      <3>4. pairs' = pairs \cup {<<held[2][2], Head(times)>>}
        BY <2>2 DEF Match, ReplyNr
      <3> QED BY <1>4, <3>1, <3>3, <3>4 DEF Within
    <2> QED BY <2>1, <2>2
  <1>8. Within(n)'
    BY <1>1, <1>4, <1>6, <1>7 DEF Within
  <1> QED BY <1>1, <1>2, <1>4, <1>8, NoneAheadNext DEF NoneAhead

LEMMA BurstRecvNoneAhead ==
    ASSUME InPlace, InPlace', NoneAhead, program = "burst", program' = program, BurstRecv
    PROVE  NoneAhead'
  <1> DEFINE a == Available(Remote, ReplyHalves)
             data == Received(Remote, ReplyHalves)
             room == Len(times) - replies
             whole == IF a \div 2 < room THEN a \div 2 ELSE room
  <1>1. /\ UNCHANGED <<pc, rest, out, times, held, failed, sent>>
        /\ SysRecv(Remote, ReplyHalves) /\ replies < Len(times)
    BY DEF BurstRecv, SysRecv, sendVars
  <1>2. program \in TripPrograms /\ Begun' = Begun
    BY <1>1 DEF TripPrograms, Begun, InFlight
  <1>3. PICK n \in Nat : Begun' = n /\ n <= NumMessages[program] /\ Within(n)
    BY <1>2, BegunNext
  <1>4. in'[Remote] \in Seq(HalfUpTo(n)) /\ data \in Seq(HalfUpTo(n)) /\ times \in Seq(1..n)
    BY <1>1, <1>3, RecvWithin, ReplyAssumption DEF Within, InPlace
  <1>5. a \in Nat /\ Len(data) = a /\ replies \in Nat /\ Len(times) \in Nat
    <2>1. a \in 0..Len(in[Remote]) /\ Len(data) = a
      BY <1>1, RecvKeepsPlaces, ReplyAssumption DEF InPlace
    <2> QED BY <2>1, NumbersTyped DEF InPlace, Typed
  <1>6. pairs' = pairs \cup {<<data[2 * k][2], times[replies + k]>> : k \in 1..whole}
    BY <1>5 DEF BurstRecv, ReplyNr
  <1> HIDE DEF a, data
  <1>7. ASSUME NEW k \in 1..whole PROVE <<data[2 * k][2], times[replies + k]>> \in (1..n) \X (1..n)
    <2>1. whole \in Nat /\ 2 * whole <= a /\ replies + whole <= Len(times)
      BY <1>1, <1>5, Halved
    <2>2. 2 * k \in 1..a /\ replies + k \in 1..Len(times)
      BY <1>5, <2>1
    <2>3. data[2 * k] \in HalfUpTo(n) /\ times[replies + k] \in 1..n
      BY <1>4, <1>5, <2>2, SMTT(20)
    <2> QED BY <2>3 DEF HalfUpTo
  <1>8. Within(n)'
    BY <1>1, <1>3, <1>4, <1>6, <1>7 DEF Within
  <1> QED BY <1>1, <1>2, <1>3, <1>8, NoneAheadNext DEF NoneAhead

\* simple_latency_test has begun no message after the one it waits for.
LEMMA PingRecvNoneAhead ==
    ASSUME InPlace, InPlace', NoneAhead, program = "ping", program' = program, PingRecv \/ PingRecvEnds
    PROVE  NoneAhead'
  <1>1. /\ UNCHANGED <<rest, out, times, held, failed>>
        /\ pc["main"] = "recv" /\ pc' = [pc EXCEPT !["main"] = "send"] /\ sent' = sent + 1
    BY RecvEndsPeer DEF PingRecv, PingRecvEnds, SysRecv, Step, matchVars, InPlace
  <1>2. "main" \in Threads /\ pc \in [Threads -> Places] /\ program \in TripPrograms /\ sent \in Nat
    BY DEF InPlace, Typed, Threads, TripPrograms
  <1>3. Begun' = Begun /\ Begun = sent + 1
    BY <1>1, <1>2 DEF Begun, InFlight
  <1>4. PICK n \in Nat : Begun' = n /\ n <= NumMessages[program] /\ Within(n) /\ Begun = n
    BY <1>2, <1>3, BegunNext
  <1>5. /\ in'[Remote] \in Seq(HalfUpTo(n)) /\ pairs' \subseteq (1..n) \X (1..n)
        /\ \A m \in pairs' : m[1] <= m[2]
    <2>1. \A m \in pairs : m[1] <= m[2]
      BY <1>2 DEF NoneAhead
    <2>2. CASE PingRecvEnds
      <3>1. in' = in /\ pairs' = pairs
        BY <2>2, RecvEndsPeer DEF PingRecvEnds, matchVars, InPlace
      <3> QED BY <1>4, <2>1, <3>1 DEF Within
    <2>3. CASE PingRecv
      <3> DEFINE data == Received(Remote, 2)
      <3>1. in'[Remote] \in Seq(HalfUpTo(n)) /\ data \in Seq(HalfUpTo(n))
        BY <1>4, <2>3, RecvWithin DEF PingRecv, Within, InPlace
      <3>2. Len(data) = Available(Remote, 2)
        BY <2>3, RecvKeepsPlaces DEF PingRecv, InPlace
      <3>3. pairs' = pairs \/ (Len(data) = 2 /\ pairs' = pairs \cup {<<data[2][2], n>>})
        <4>1. 2 * 1 = 2
          OBVIOUS
        <4>2. ReplyNr(data, 1) = data[2][2]
          BY <4>1 DEF ReplyNr
        <4> QED BY <1>3, <1>4, <2>3, <3>2, <4>2 DEF PingRecv
      <3>4. n \in 1..n
        BY <1>2, <1>3, <1>4
      <3> HIDE DEF data
      <3>5. CASE pairs' = pairs
        BY <1>4, <2>1, <3>1, <3>5 DEF Within
      <3>6. CASE Len(data) = 2 /\ pairs' = pairs \cup {<<data[2][2], n>>}
        <4>1. data[2][2] \in 1..n
          <5>1. data[2] \in HalfUpTo(n)
            BY <3>1, <3>6
          <5> QED BY <5>1 DEF HalfUpTo
        <4>2. data[2][2] <= n
          BY <4>1
        <4> QED BY <1>4, <2>1, <3>1, <3>4, <3>6, <4>1, <4>2 DEF Within
      <3> QED BY <3>3, <3>5, <3>6
    <2> QED BY <2>2, <2>3
  <1>6. Within(n)'
    BY <1>1, <1>4, <1>5 DEF Within
  <1> QED BY <1>1, <1>2, <1>4, <1>5, <1>6, NoneAheadNext DEF NoneAhead

LEMMA SimpleRecvNoneAhead ==
    ASSUME InPlace, InPlace', NoneAhead, program = "simple", program' = program, SimpleRecv
    PROVE  NoneAhead'
  <1>1. UNCHANGED <<rest, out, times, held, pairs, failed, sent>>
    BY DEF SimpleRecv, SysRecv, sendVars
  <1>2. "main" \in Threads /\ pc \in [Threads -> Places] /\ program \in TripPrograms
    BY DEF InPlace, Typed, Threads, TripPrograms
  <1>3. Begun' = Begun
    BY <1>1, <1>2 DEF SimpleRecv, Step, Begun, InFlight
  <1>4. PICK n \in Nat : Begun' = n /\ n <= NumMessages[program] /\ Within(n)
    BY <1>2, <1>3, BegunNext
  <1>5. in'[Remote] \in Seq(HalfUpTo(n))
    BY <1>4, RecvWithin, ReplyAssumption DEF SimpleRecv, Within, InPlace
  <1>6. Within(n)'
    BY <1>1, <1>4, <1>5 DEF Within
  <1> QED BY <1>1, <1>2, <1>4, <1>6, NoneAheadNext DEF NoneAhead

-----------------------------------------------------------------------------
LEMMA NoneAheadInit == Init => NoneAhead
  <1> SUFFICES ASSUME Init, program \in TripPrograms PROVE NoneAhead
    BY DEF NoneAhead
  <1>1. pc["main"] = "connect"
    BY DEF Init, Start, TripPrograms, Threads
  <1>2. Begun = 0
    BY <1>1 DEF Init, Begun, InFlight
  <1>3. Within(0)
    BY RemoteAssumption DEF Init, Within
  <1>4. NumMessages[program] \in Nat
    BY NumMessagesAssumption
  <1>5. Within(Begun)
    BY <1>2, <1>3
  <1> QED BY <1>2, <1>4, <1>5 DEF Init, NoneAhead

LEMMA NoneAheadStep == Ordered /\ Ordered' /\ NoneAhead /\ [Next]_vars => NoneAhead'
  <1> SUFFICES ASSUME Ordered, Ordered', NoneAhead, [Next]_vars PROVE NoneAhead'
    OBVIOUS
  <1>1. program' = program
    <2>1. CASE Next
      BY <2>1 DEF Next, PeerStep, AnswerStep, Sigint, ThreadStep, Shared, Trip
    <2>2. CASE UNCHANGED vars
      BY <2>2 DEF vars
    <2> QED BY <2>1, <2>2
  <1>2. CASE program \notin TripPrograms
    BY <1>1, <1>2 DEF NoneAhead
  <1>3. CASE program \in TripPrograms
    <2>1. InPlace /\ InPlace'
      BY <1>1, <1>3 DEF Ordered
    <2>2. CASE UNCHANGED vars
      <3>1. Moves
        BY <2>1, <2>2 DEF vars, netVars, tripVars, sendVars, matchVars, Moves, InPlace, Typed, PeerStates,
           InFlight
      <3> QED BY <1>3, <2>1, <3>1, MovesNoneAhead
    <2>3. CASE Next
      <3>1. CASE PeerStep
        BY <1>3, <3>1 DEF PeerStep, Shared, PeerWrites, SecondHalf, PeerLeaves, SharedProgram, TripPrograms
      <3>2. CASE AnswerStep
        BY <1>1, <1>3, <2>1, <3>2, AnswerNoneAhead, RestNoneAhead DEF AnswerStep, Trip, TripProgram
      <3>3. CASE Sigint
        <4>1. program = "latency" /\ Interrupt
          BY <3>3 DEF Sigint, Trip
        <4> QED BY <1>1, <1>3, <2>1, <4>1, LatencyMoves, MovesNoneAhead
      <3>4. ASSUME NEW t \in Threads, ThreadStep(t) PROVE NoneAhead'
        <4>1. CASE program = "latency"
          <5>1. LatencyMainStep \/ LatencyReceiverStep
            BY <3>4, <4>1 DEF ThreadStep, Trip
          <5> QED BY <1>1, <1>3, <2>1, <4>1, <5>1, LatencyMoves, MovesNoneAhead, SendNoneAhead, TimesNoneAhead,
                     LatencyRecvNoneAhead, MatchNoneAhead DEF LatencyMainStep, LatencyReceiverStep
        <4>2. CASE program = "burst"
          <5>1. BurstStep
            BY <3>4, <4>2 DEF ThreadStep, Trip
          <5> QED BY <1>1, <1>3, <2>1, <4>2, <5>1, BurstMoves, MovesNoneAhead, SendNoneAhead, BurstRecvNoneAhead
              DEF BurstStep
        <4>3. CASE program = "ping"
          <5>1. PingStep
            BY <3>4, <4>3 DEF ThreadStep, Trip
          <5> QED BY <1>1, <1>3, <2>1, <4>3, <5>1, PingMoves, MovesNoneAhead, SendNoneAhead, PingRecvNoneAhead
              DEF PingStep
        <4>4. CASE program = "simple"
          <5>1. SimpleMainStep \/ SimpleReceiverStep
            BY <3>4, <4>4 DEF ThreadStep, Trip
          <5> QED BY <1>1, <1>3, <2>1, <4>4, <5>1, SimpleMoves, MovesNoneAhead, SendNoneAhead, SimpleRecvNoneAhead
              DEF SimpleMainStep, SimpleReceiverStep
        <4> QED BY <1>3, <4>1, <4>2, <4>3, <4>4 DEF TripPrograms
      <3> QED BY <2>3, <3>1, <3>2, <3>3, <3>4 DEF Next
    <2> QED BY <2>2, <2>3
  <1> QED BY <1>2, <1>3

-----------------------------------------------------------------------------
(* Nothing lost, split or left without an answer                           *)

\* The place of a half among all that come back.
Place(h) == 2 * Nr(h) - 2 + h[3]

\* The halves of s follow the first n.
Follows(s, n) == \A i \in 1..Len(s) : Place(s[i]) = n + i

Even(k) == \E n \in Nat : k = 2 * n

Clean == program \in {"latency", "burst"} /\ failed = 0 /\ ~ignored

\* What is on its way back and what is on its way to the server.
ReturnExact ==
    /\ Follows(in[Remote], taken)
    /\ rest[Remote] # 0 => 2 * rest[Remote] = taken + Len(in[Remote]) + 1

SendExact ==
    peer[Remote] = "up" =>
        /\ Even(Written)
        /\ \A i \in 1..Len(out) : 2 * out[i] = Written + i \/ 2 * out[i] = Written + i + 1
        /\ program = "burst" \/ connected => Written + Len(out) = 2 * Begun

\* What has been received, and the send times that are left for it.
HeldExact ==
    /\ Follows(held, taken - Len(held))
    /\ pc["receiver"] # "match" => held = <<>>
    /\ ~split => Even(taken) /\ 2 * replies + Len(held) = taken

TimesExact ==
    ~early => Len(times) + Used = sent /\ \A i \in 1..Len(times) : times[i] = Used + i

PairsExact == ~split /\ ~early => \A m \in pairs : m[1] = m[2]

Exact == ReturnExact /\ SendExact /\ HeldExact /\ TimesExact /\ PairsExact

Exactly == Clean => Exact

-----------------------------------------------------------------------------
(* Steps that move no message                                              *)

LEMMA MovesExact ==
    ASSUME InPlace, Exact, Clean, Moves,
           program = "latency" /\ connected' => connected \/ pc["main"] \in BeforeTest,
           pc'["receiver"] # "match" =>
               pc["receiver"] # "match" \/ (program = "latency" /\ pc["main"] \in BeforeTest)
    PROVE  Exact'
  <1>1. Written' = Written /\ Used' = Used /\ Begun' = Begun
    BY SameWritten DEF Moves, Used, Begun
  <1>2. ReturnExact' /\ TimesExact' /\ PairsExact'
    BY <1>1 DEF Exact, ReturnExact, TimesExact, PairsExact, Moves
  <1>3. SendExact'
    <2> SUFFICES ASSUME peer'[Remote] = "up" PROVE SendExact'
      BY DEF SendExact
    <2>1. peer[Remote] = "up"
      BY DEF Moves
    <2>2. program = "burst" \/ connected' => Written + Len(out) = 2 * Begun
      <3>1. CASE program = "burst" \/ connected
        BY <2>1, <3>1 DEF Exact, SendExact
      <3>2. CASE program = "latency" /\ pc["main"] \in BeforeTest
        BY <3>2, NothingSent DEF Begun
      <3> QED BY <3>1, <3>2 DEF Clean
    <2> QED BY <1>1, <2>1, <2>2 DEF Exact, SendExact, Moves
  <1>4. HeldExact'
    <2>1. pc'["receiver"] # "match" => held = <<>>
      BY NothingSent DEF Exact, HeldExact
    <2> QED BY <2>1 DEF Exact, HeldExact, Moves
  <1> QED BY <1>2, <1>3, <1>4 DEF Exact

\* The moves of latency_test are such moves.
LEMMA LatencyMovesExact ==
    ASSUME InPlace, Exact, Clean, program = "latency", program' = program,
           \/ LatencyConnect \/ LatencyConnectFails \/ SetConnected \/ ClearStop \/ StartReceiver
           \/ AssignReceiver \/ LatencyNoTest
           \/ CreateMessageAborts \/ LatencyLock \/ LatencyLoopEnds \/ Percentiles
           \/ Disconnect("main") \/ Disconnect("handler") \/ JoinTwice \/ Interrupt
           \/ TestStop \/ LatencyRecvNothing \/ LatencyRecvEnds
    PROVE  Exact'
  <1>1. Moves
    BY LatencyMoves
  <1>2. {"main", "handler", "receiver"} \subseteq Threads /\ pc \in [Threads -> Places]
    BY DEF InPlace, Typed, Threads
  <1>3. connected' => connected \/ pc["main"] \in BeforeTest
    BY DEF LatencyConnect, LatencyConnectFails, SetConnected, ClearStop, StartReceiver, AssignReceiver,
       LatencyNoTest, CreateMessageAborts, LatencyLock, LatencyLoopEnds, Percentiles, Disconnect, ClearFlags,
       JoinReceiver, CloseSocket, ForgetSocket, JoinTwice, Interrupt, TestStop, LatencyRecvNothing,
       LatencyRecvEnds, tripVars, socketVars, MainStep, Step, BeforeTest
  <1>4. \/ StartReceiver
        \/ \E t \in {"main", "handler"}, there \in Places : pc' = [pc EXCEPT ![t] = there]
        \/ pc' = [pc EXCEPT !["main"] = "aborted", !["handler"] = "none"]
        \/ pc["receiver"] # "match"
    <2>1. CASE \/ LatencyConnect \/ LatencyConnectFails \/ SetConnected \/ ClearStop
              \/ AssignReceiver \/ LatencyNoTest
      BY <2>1 DEF LatencyConnect, LatencyConnectFails, SetConnected, ClearStop, AssignReceiver,
         LatencyNoTest, MainStep, Step, Places
    <2>2. CASE CreateMessageAborts \/ LatencyLock \/ LatencyLoopEnds \/ Percentiles
      BY <2>2 DEF CreateMessageAborts, LatencyLock, LatencyLoopEnds, Percentiles, MainStep, Step, Places
    <2>3. CASE Disconnect("main")
      BY <2>3 DEF Disconnect, ClearFlags, JoinReceiver, CloseSocket, ForgetSocket, DisconnectStep,
         MainStep, Step, Places
    <2>4. CASE Disconnect("handler")
      BY <2>4 DEF Disconnect, ClearFlags, JoinReceiver, CloseSocket, ForgetSocket, DisconnectStep,
         MainStep, Step, Places
    <2>5. CASE Interrupt \/ JoinTwice
      BY <2>5 DEF Interrupt, JoinTwice, Step, Places
    <2>6. CASE TestStop \/ LatencyRecvNothing \/ LatencyRecvEnds
      BY <2>6 DEF TestStop, LatencyRecvNothing, LatencyRecvEnds, Step
    <2> QED BY <2>1, <2>2, <2>3, <2>4, <2>5, <2>6
  <1>5. pc'["receiver"] # "match" => pc["receiver"] # "match" \/ pc["main"] \in BeforeTest
    BY <1>2, <1>4 DEF StartReceiver, BeforeTest
  <1> QED BY <1>1, <1>3, <1>5, MovesExact

LEMMA BurstMovesExact ==
    ASSUME InPlace, Exact, Clean, program = "burst", program' = program,
           ConnectFails \/ Connect \/ BurstSent \/ BurstReceived \/ CloseAndExit
    PROVE  Exact'
  <1>1. Moves
    BY BurstMoves
  <1>2. pc'["receiver"] = pc["receiver"]
    BY DEF ConnectFails, Connect, BurstSent, BurstReceived, CloseAndExit, Step, InPlace, Typed, Threads
  <1> QED BY <1>1, <1>2, MovesExact

-----------------------------------------------------------------------------
(* The server's end                                                        *)

\* What arrives next is at its place.
LEMMA ArriveExact ==
    ASSUME NEW s \in Seq(Half), NEW before \in Nat,
           NEW a \in Half, NEW b \in Half, NEW t, t = Append(s, a) \/ t = s \o <<a, b>>,
           Follows(s, before),
           Place(a) = before + Len(s) + 1, Place(b) = before + Len(s) + 2
    PROVE  Follows(t, before)
  <1>1. Len(s) \in Nat
    OBVIOUS
  <1>2. CASE t = Append(s, a)
    <2>1. Len(t) = Len(s) + 1 /\ t[Len(s) + 1] = a /\ \A i \in 1..Len(s) : t[i] = s[i]
      BY <1>2
    <2>2. ASSUME NEW i \in 1..Len(t) PROVE i \in 1..Len(s) \/ i = Len(s) + 1
      BY <1>1, <2>1
    <2>3. before + Len(s) + 1 = before + (Len(s) + 1)
      BY <1>1
    <2> QED BY <2>1, <2>2, <2>3 DEF Follows
  <1>3. CASE t = s \o <<a, b>>
    <2>1. /\ Len(t) = Len(s) + 2 /\ t[Len(s) + 1] = a /\ t[Len(s) + 2] = b
          /\ \A i \in 1..Len(s) : t[i] = s[i]
      BY <1>3
    <2>2. ASSUME NEW i \in 1..Len(t) PROVE i \in 1..Len(s) \/ i = Len(s) + 1 \/ i = Len(s) + 2
      BY <1>1, <2>1
    <2>3. before + Len(s) + 1 = before + (Len(s) + 1) /\ before + Len(s) + 2 = before + (Len(s) + 2)
      BY <1>1
    <2> QED BY <2>1, <2>2, <2>3 DEF Follows
  <1> QED BY <1>2, <1>3

LEMMA NextMessage ==
    ASSUME NEW w \in Nat, Even(w), NEW n \in Nat, 2 * n = w + 2 \/ 2 * n = w + 3
    PROVE  2 * n = w + 2
  <1>1. PICK k \in Nat : w = 2 * k
    BY DEF Even
  <1> QED BY <1>1

LEMMA AnswerExact ==
    ASSUME InPlace, InPlace', Exact, Clean, Clean', TripProgram, program' = program, ServerAnswers
    PROVE  Exact'
  <1> DEFINE s == in[Remote]
             a == <<Remote, out[2], 1>>
             b == <<Remote, out[2], 2>>
  <1>1. /\ UNCHANGED <<pc, times, held, replies, pairs, sent, taken, split, early, connected>>
        /\ Len(out) >= 2 /\ out' = SubSeq(out, 3, Len(out))
        /\ peer[Remote] = "up" /\ peer' = peer /\ rest[Remote] = 0
        /\ \/ in' = [in EXCEPT ![Remote] = @ \o <<a, b>>] /\ rest' = rest
           \/ in' = [in EXCEPT ![Remote] = Append(@, a)] /\ rest' = [rest EXCEPT ![Remote] = out[2]]
    <2>1. Write(Remote, out[2])
      BY DEF ServerAnswers, Clean
    <2> QED BY <2>1 DEF ServerAnswers, Write, matchVars, socketVars
  <1>2. Begun' = Begun /\ Used' = Used
    BY <1>1 DEF Begun, InFlight, Used
  <1>3. /\ s \in Seq(Half) /\ Len(s) \in Nat /\ in \in [Peers -> Seq(Half)] /\ rest \in [Peers -> Nat]
        /\ taken \in Nat /\ out \in Seq(Nat) /\ Len(out) \in Nat /\ out[2] \in Nat
    <2>1. /\ s \in Seq(Half) /\ in \in [Peers -> Seq(Half)] /\ rest \in [Peers -> Nat]
          /\ taken \in Nat /\ out \in Seq(Nat)
      BY RemoteAssumption DEF InPlace, Typed
    <2>2. Len(s) \in Nat /\ Len(out) \in Nat
      BY NumbersTyped DEF InPlace
    <2>3. out[2] \in Nat
      BY <1>1, <2>1, SMTT(20)
    <2> QED BY <2>1, <2>2, <2>3
  <1>4. Written \in Nat /\ Written = taken + Len(s)
    <2>1. OnItsWay = 0
      BY <1>1 DEF OnItsWay
    <2> QED BY <1>3, <2>1 DEF Written
  <1>5. /\ Even(Written) /\ 2 * out[2] = Written + 2
        /\ \A i \in 1..Len(out) : 2 * out[i] = Written + i \/ 2 * out[i] = Written + i + 1
        /\ program = "burst" \/ connected => Written + Len(out) = 2 * Begun
    <2>1. /\ Even(Written)
          /\ \A i \in 1..Len(out) : 2 * out[i] = Written + i \/ 2 * out[i] = Written + i + 1
          /\ program = "burst" \/ connected => Written + Len(out) = 2 * Begun
      BY <1>1 DEF Exact, SendExact
    <2>2. 2 \in 1..Len(out)
      BY <1>1, <1>3
    <2>3. 2 * out[2] = Written + 2 \/ 2 * out[2] = Written + 3
      BY <1>4, <2>1, <2>2
    <2> QED BY <1>3, <1>4, <2>1, <2>3, NextMessage
  <1>6. a \in Half /\ b \in Half /\ Place(a) = taken + Len(s) + 1 /\ Place(b) = taken + Len(s) + 2
    <2>1. a \in Half /\ b \in Half
      BY <1>3, RemoteAssumption DEF Half
    <2>2. Place(a) = 2 * out[2] - 2 + 1 /\ Place(b) = 2 * out[2] - 2 + 2
      BY DEF Place, Nr
    <2> HIDE DEF s, a, b
    <2> QED BY <1>3, <1>4, <1>5, <2>1, <2>2
  <1>7. PICK t : /\ in'[Remote] = t
                 /\ \/ t = s \o <<a, b>> /\ rest'[Remote] = 0
                    \/ t = Append(s, a) /\ rest'[Remote] = out[2]
    BY <1>1, <1>3, RemoteAssumption
  <1> HIDE DEF a, b, s
  <1>8. Follows(t, taken)
    <2>1. Follows(s, taken)
      BY DEF Exact, ReturnExact, s
    <2>2. t = Append(s, a) \/ t = s \o <<a, b>>
      BY <1>7
    <2>3. s \in Seq(Half) /\ taken \in Nat
      BY <1>3
    <2> QED BY ONLY <1>6, <2>1, <2>2, <2>3, ArriveExact
  <1>9. /\ rest'[Remote] # 0 => 2 * rest'[Remote] = taken + Len(t) + 1
        /\ Len(t) + OnItsWay' = Len(s) + 2 /\ Len(t) \in Nat /\ OnItsWay' \in Nat
    <2>1. CASE t = s \o <<a, b>> /\ rest'[Remote] = 0
      <3>1. Len(t) = Len(s) + 2
        BY <1>3, <1>6, <2>1
      <3>2. OnItsWay' = 0
        BY <2>1 DEF OnItsWay
      <3> QED BY <1>3, <2>1, <3>1, <3>2
    <2>2. CASE t = Append(s, a) /\ rest'[Remote] = out[2]
      <3>1. Len(t) = Len(s) + 1
        BY <1>3, <1>6, <2>2
      <3>2. out[2] # 0
        BY <1>3, <1>4, <1>5
      <3>3. OnItsWay' = 1
        BY <2>2, <3>2 DEF OnItsWay
      <3> QED BY <1>3, <1>4, <1>5, <2>2, <3>1, <3>3
    <2> QED BY <1>7, <2>1, <2>2
  <1>10. ReturnExact'
    BY <1>1, <1>7, <1>8, <1>9 DEF ReturnExact
  <1>11. Written' = Written + 2
    <2>1. Written' = taken' + Len(in'[Remote]) + OnItsWay'
      BY DEF Written
    <2>2. Written' = taken + Len(t) + OnItsWay'
      BY <1>1, <1>7, <2>1
    <2>3. /\ taken \in Nat /\ Len(s) \in Nat /\ Len(t) \in Nat /\ OnItsWay' \in Nat
          /\ Written = taken + Len(s) /\ Len(t) + OnItsWay' = Len(s) + 2
      BY <1>3, <1>4, <1>9
    <2> QED BY ONLY <2>2, <2>3
  <1>12. /\ out' \in Seq(Nat) /\ Len(out') = Len(out) - 2
         /\ \A i \in 1..Len(out') : out'[i] = out[i + 2]
    <2>1. out \in Seq(Nat) /\ Len(out) >= 2 /\ out' = SubSeq(out, 3, Len(out))
      BY <1>1, <1>3
    <2>2. /\ SubSeq(out, 3, Len(out)) \in Seq(Nat) /\ Len(SubSeq(out, 3, Len(out))) = Len(out) - 2
          /\ \A i \in 1..(Len(out) - 2) : SubSeq(out, 3, Len(out))[i] = out[i + 2]
      BY ONLY <2>1, DropTwo
    <2> QED BY ONLY <2>1, <2>2
  <1>13. SendExact'
    <2>1. Even(Written + 2)
      <3>1. PICK n \in Nat : Written = 2 * n
        BY <1>5 DEF Even
      <3>2. n + 1 \in Nat /\ Written + 2 = 2 * (n + 1)
        BY <3>1
      <3> QED BY <3>2 DEF Even
    <2>2. Even(Written')
      BY <1>11, <2>1
    <2>3. ASSUME NEW i \in 1..Len(out')
          PROVE  2 * out'[i] = Written' + i \/ 2 * out'[i] = Written' + i + 1
      <3>1. i + 2 \in 1..Len(out) /\ i \in Nat
        BY <1>3, <1>12
      <3>2. 2 * out[i + 2] = Written + (i + 2) \/ 2 * out[i + 2] = Written + (i + 2) + 1
        BY <1>5, <3>1
      <3>3. out'[i] = out[i + 2]
        BY <1>12
      <3>4. Written \in Nat /\ Written' = Written + 2 /\ i \in Nat
        BY <1>4, <1>11, <3>1
      <3>5. Written + (i + 2) = Written' + i /\ Written + (i + 2) + 1 = Written' + i + 1
        BY ONLY <3>4
      <3> QED BY <3>2, <3>3, <3>5
    <2>4. Written' + Len(out') = Written + Len(out)
      <3>1. /\ Written \in Nat /\ Written' = Written + 2 /\ Len(out) \in Nat
            /\ Len(out') = Len(out) - 2
        BY <1>3, <1>4, <1>11, <1>12
      <3> QED BY ONLY <3>1
    <2> QED BY <1>1, <1>2, <1>5, <2>2, <2>3, <2>4 DEF SendExact
  <1>14. HeldExact' /\ TimesExact' /\ PairsExact'
    BY <1>1, <1>2 DEF Exact, HeldExact, TimesExact, PairsExact
  <1> QED BY <1>10, <1>13, <1>14 DEF Exact

LEMMA RestExact ==
    ASSUME InPlace, Exact, Clean, program' = program, RestOfAnswer
    PROVE  Exact'
  <1> DEFINE s == in[Remote]
             n == rest[Remote]
             a == <<Remote, n, 2>>
             t == Append(s, a)
  <1>1. /\ UNCHANGED <<pc, times, held, replies, pairs, sent, taken, split, early, connected, out, peer>>
        /\ n # 0 /\ rest' = [rest EXCEPT ![Remote] = 0] /\ in' = [in EXCEPT ![Remote] = t]
    BY DEF RestOfAnswer, RestArrives, tripVars, socketVars, sendVars, matchVars
  <1>2. Begun' = Begun /\ Used' = Used
    BY <1>1 DEF Begun, InFlight, Used
  <1>3. /\ s \in Seq(Half) /\ Len(s) \in Nat /\ in \in [Peers -> Seq(Half)] /\ rest \in [Peers -> Nat]
        /\ taken \in Nat /\ n \in Nat
    BY RemoteAssumption, NumbersTyped DEF InPlace, Typed
  <1>4. in'[Remote] = t /\ rest'[Remote] = 0
    BY <1>1, <1>3, RemoteAssumption
  <1>5. OnItsWay = 1 /\ OnItsWay' = 0
    BY <1>1, <1>4 DEF OnItsWay
  <1>6. a \in Half /\ Place(a) = 2 * n
    <2>1. a \in Half
      BY <1>3, RemoteAssumption DEF Half
    <2>2. Place(a) = 2 * n - 2 + 2
      BY DEF Place, Nr
    <2> QED BY <1>3, <2>1, <2>2
  <1> HIDE DEF a
  <1>7. 2 * n = taken + Len(s) + 1
    BY <1>1 DEF Exact, ReturnExact
  <1>8. Len(t) = Len(s) + 1 /\ \A i \in 1..Len(t) : Place(t[i]) = taken + i
    <2>1. \A i \in 1..Len(s) : Place(s[i]) = taken + i
      BY DEF Exact, ReturnExact, Follows
    <2>2. t = Append(s, a)
      OBVIOUS
    <2> HIDE DEF s, t, n
    <2>3. Len(t) = Len(s) + 1
      BY <1>3, <1>6, <2>2
    <2>4. t[Len(s) + 1] = a /\ \A i \in 1..Len(s) : t[i] = s[i]
      BY <1>3, <1>6, <2>2
    <2>5. ASSUME NEW i \in 1..Len(t) PROVE Place(t[i]) = taken + i
      <3>1. CASE i \in 1..Len(s)
        BY <2>1, <2>4, <3>1
      <3>2. CASE i = Len(s) + 1
        BY <1>3, <1>6, <1>7, <2>4, <3>2
      <3> QED BY <1>3, <2>3, <3>1, <3>2
    <2> QED BY <2>3, <2>5
  <1>9. Written' = Written
    <2>1. Written' = taken' + Len(in'[Remote]) + OnItsWay' /\ Written = taken + Len(s) + OnItsWay
      BY DEF Written
    <2>2. Written' = taken + Len(t) + 0 /\ Written = taken + Len(s) + 1
      BY <1>1, <1>4, <1>5, <2>1
    <2> HIDE DEF s, t
    <2> QED BY <1>3, <1>8, <2>2
  <1>10. ReturnExact'
    BY <1>1, <1>4, <1>8 DEF ReturnExact, Follows
  <1>11. SendExact' /\ HeldExact' /\ TimesExact' /\ PairsExact'
    BY <1>1, <1>2, <1>9 DEF Exact, SendExact, HeldExact, TimesExact, PairsExact
  <1> QED BY <1>10, <1>11 DEF Exact

LEMMA EndExact ==
    ASSUME InPlace, Exact, Clean, program' = program, ServerEnds
    PROVE  Exact'
  <1>1. /\ UNCHANGED <<pc, times, held, replies, pairs, sent, taken, split, early, connected, out, in>>
        /\ rest' = [rest EXCEPT ![Remote] = 0]
    BY DEF ServerEnds, PeerEnds, tripVars, socketVars, sendVars, matchVars
  <1>2. peer'[Remote] # "up" /\ rest'[Remote] = 0
    BY <1>1, RemoteAssumption DEF ServerEnds, PeerEnds, InPlace, Typed
  <1>3. Begun' = Begun /\ Used' = Used
    BY <1>1 DEF Begun, InFlight, Used
  <1> QED BY <1>1, <1>2, <1>3 DEF Exact, ReturnExact, SendExact, HeldExact, TimesExact, PairsExact

-----------------------------------------------------------------------------
(* Sending, and the storing of send times                                  *)

LEMMA SendTwoExact ==
    ASSUME NEW w \in Nat, out \in Seq(Nat), sent \in Nat, w + Len(out) = 2 * sent,
           \A i \in 1..Len(out) : 2 * out[i] = w + i \/ 2 * out[i] = w + i + 1,
           out' = out \o [i \in 1..2 |-> sent + 1]
    PROVE  /\ w + Len(out') = 2 * (sent + 1)
           /\ \A i \in 1..Len(out') : 2 * out'[i] = w + i \/ 2 * out'[i] = w + i + 1
  <1> DEFINE new == [i \in 1..2 |-> sent + 1]
             n == Len(out)
  <1>1. new \in Seq(Nat) /\ Len(new) = 2 /\ new[1] = sent + 1 /\ new[2] = sent + 1
    OBVIOUS
  <1>2. out' = out \o new
    OBVIOUS
  <1> HIDE DEF new
  <1>3. /\ n \in Nat /\ Len(out') = n + 2
        /\ out'[n + 1] = sent + 1 /\ out'[n + 2] = sent + 1
        /\ \A i \in 1..n : out'[i] = out[i]
    BY <1>1, <1>2
  <1>4. w + n = 2 * sent /\ \A i \in 1..n : 2 * out[i] = w + i \/ 2 * out[i] = w + i + 1
    OBVIOUS
  <1> HIDE DEF n
  <1>5. ASSUME NEW i \in 1..(n + 2)
        PROVE  2 * out'[i] = w + i \/ 2 * out'[i] = w + i + 1
    <2>1. CASE i \in 1..n
      BY <1>3, <1>4, <2>1
    <2>2. CASE i = n + 1
      <3>1. 2 * (sent + 1) = w + (n + 1) + 1
        BY <1>3, <1>4
      <3> QED BY <1>3, <2>2, <3>1
    <2>3. CASE i = n + 2
      <3>1. 2 * (sent + 1) = w + (n + 2)
        BY <1>3, <1>4
      <3> QED BY <1>3, <2>3, <3>1
    <2> QED BY <1>3, <2>1, <2>2, <2>3
  <1>6. w + (n + 2) = 2 * (sent + 1)
    BY <1>3, <1>4
  <1> QED BY <1>3, <1>5, <1>6

LEMMA StoreExact ==
    ASSUME Typed, TimesExact, UNCHANGED <<early, replies, program>>,
           times' = Append(times, sent + 1), sent' = sent + 1
    PROVE  TimesExact'
  <1> SUFFICES ASSUME ~early PROVE TimesExact'
    BY DEF TimesExact
  <1>1. Used' = Used /\ Used \in Nat /\ times \in Seq(Nat) /\ Len(times) \in Nat /\ sent \in Nat
    BY NumbersTyped DEF Typed, Used
  <1>2. Len(times) + Used = sent /\ \A i \in 1..Len(times) : times[i] = Used + i
    BY DEF TimesExact
  <1>3. /\ Len(times') = Len(times) + 1 /\ times'[Len(times) + 1] = sent + 1
        /\ \A i \in 1..Len(times) : times'[i] = times[i]
    BY <1>1
  <1>4. sent + 1 = Used + (Len(times) + 1) /\ Len(times) + 1 + Used = sent + 1
    BY <1>1, <1>2, SMTT(20)
  <1>5. ASSUME NEW i \in 1..Len(times') PROVE times'[i] = Used + i
    <2>1. i \in 1..Len(times) \/ i = Len(times) + 1
      BY <1>1, <1>3
    <2> QED BY <1>2, <1>3, <1>4, <2>1
  <1> QED BY <1>1, <1>3, <1>4, <1>5 DEF TimesExact

LEMMA SendExactly ==
    ASSUME InPlace, NoneAhead, Exact, Clean, Clean', program' = program,
           \/ program = "latency" /\ LatencySend
           \/ program = "burst" /\ BurstSend
    PROVE  Exact'
  <1>1. /\ UNCHANGED <<in, rest, peer, taken, split, held, replies, pairs, early, connected>>
        /\ \/ program = "latency" /\ ~connected /\ out' = out
           \/ /\ program = "burst" \/ connected
              /\ \E k \in Outcomes : SysSend(sent + 1, k)
    BY DEF LatencySend, BurstSend, netVars, socketVars, matchVars, Outcomes
  <1>2. /\ sent \in Nat /\ "main" \in Threads /\ "receiver" \in Threads /\ pc \in [Threads -> Places]
        /\ out \in Seq(Nat) /\ Written \in Nat /\ failed = 0
    BY NumbersTyped DEF InPlace, Typed, Threads, Clean
  <1>3. Begun = sent /\ Begun' = sent + 1 /\ pc'["receiver"] = pc["receiver"]
    <2>1. CASE program = "latency" /\ LatencySend
      BY <1>2, <2>1 DEF LatencySend, MainStep, Step, Begun, InFlight
    <2>2. CASE program = "burst" /\ BurstSend
      BY <1>2, <2>2 DEF BurstSend, Begun, InFlight
    <2> QED BY <2>1, <2>2
  <1>4. Written' = Written
    BY <1>1, SameWritten
  <1>5. SendExact'
    <2> SUFFICES ASSUME peer[Remote] = "up" PROVE SendExact'
      BY <1>1 DEF SendExact
    <2>1. /\ Even(Written)
          /\ \A i \in 1..Len(out) : 2 * out[i] = Written + i \/ 2 * out[i] = Written + i + 1
          /\ program = "burst" \/ connected => Written + Len(out) = 2 * sent
      BY <1>3 DEF Exact, SendExact
    <2>2. CASE program = "latency" /\ ~connected /\ out' = out
      BY <1>1, <1>4, <2>1, <2>2 DEF SendExact
    <2>3. CASE (program = "burst" \/ connected) /\ \E k \in Outcomes : SysSend(sent + 1, k)
      <3>1. PICK k \in {2, 1, 0} : SysSend(sent + 1, k)
        BY <2>3 DEF Outcomes
      <3>2. failed' = 0
        BY DEF Clean
      <3>3. k = 2
        BY <1>2, <3>1, <3>2 DEF SysSend
      <3>4. out' = out \o [i \in 1..2 |-> sent + 1]
        BY <3>1, <3>3 DEF SysSend
      <3>5. /\ Written + Len(out') = 2 * (sent + 1)
            /\ \A i \in 1..Len(out') : 2 * out'[i] = Written + i \/ 2 * out'[i] = Written + i + 1
        <4>1. Written + Len(out) = 2 * sent
          BY <2>1, <2>3
        <4> QED BY <1>2, <2>1, <3>4, <4>1, SendTwoExact
      <3> QED BY <1>3, <1>4, <2>1, <3>5 DEF SendExact
    <2> QED BY <1>1, <2>2, <2>3
  <1>6. TimesExact'
    <2>1. CASE program = "latency" /\ LatencySend
      BY <2>1 DEF LatencySend, matchVars, Exact, TimesExact, Used
    <2>2. CASE program = "burst" /\ BurstSend
      BY <1>1, <2>2, StoreExact DEF BurstSend, InPlace, Exact
    <2> QED BY <2>1, <2>2
  <1>7. ReturnExact' /\ HeldExact' /\ PairsExact'
    BY <1>1, <1>3 DEF Exact, ReturnExact, HeldExact, PairsExact
  <1> QED BY <1>5, <1>6, <1>7 DEF Exact

LEMMA StoreTimeExact ==
    ASSUME InPlace, Exact, Clean, program = "latency", program' = program, StoreSendTime
    PROVE  Exact'
  <1>1. /\ UNCHANGED <<in, rest, peer, taken, split, out, held, replies, pairs, early, connected>>
        /\ times' = Append(times, sent + 1) /\ sent' = sent + 1
    BY DEF StoreSendTime, netVars, socketVars
  <1>2. sent \in Nat /\ {"main", "receiver"} \subseteq Threads /\ pc \in [Threads -> Places]
    BY DEF InPlace, Typed, Threads
  <1>3. Begun' = Begun /\ pc'["receiver"] = pc["receiver"] /\ Written' = Written
    BY <1>1, <1>2, SameWritten DEF StoreSendTime, MainStep, Step, Begun, InFlight
  <1>4. TimesExact'
    BY <1>1, StoreExact DEF InPlace, Exact
  <1> QED BY <1>1, <1>3, <1>4 DEF Exact, ReturnExact, SendExact, HeldExact, PairsExact

\* A test starts with everything empty already.
LEMMA ResetExact ==
    ASSUME InPlace, Exact, Clean, program = "latency", program' = program,
           LatencyReset \/ ClearTimes
    PROVE  Exact'
  <1>1. /\ UNCHANGED <<in, rest, peer, taken, split, out, held, sent, pairs, early, connected>>
        /\ times' = times \/ times' = <<>>
        /\ replies' = replies \/ replies' = 0
        /\ pc["main"] \in BeforeTest
    BY DEF LatencyReset, ClearTimes, MainStep, Step, netVars, socketVars, sendVars, BeforeTest
  <1>2. {"main", "receiver"} \subseteq Threads /\ pc \in [Threads -> Places]
    BY DEF InPlace, Typed, Threads
  <1>3. Begun' = Begun /\ pc'["receiver"] = pc["receiver"] /\ Written' = Written
    BY <1>1, <1>2, SameWritten DEF LatencyReset, ClearTimes, MainStep, Step, Begun, InFlight
  <1>4. taken = 0 /\ held = <<>> /\ replies = 0 /\ sent = 0
    BY <1>1, NothingSent
  <1>5. replies' = replies /\ Used' = Used /\ Used = 0
    BY <1>1, <1>4 DEF Used
  <1>6. TimesExact'
    <2>1. CASE times' = times
      BY <1>1, <1>5, <2>1 DEF Exact, TimesExact
    <2>2. CASE times' = <<>>
      <3>1. Len(times') = 0
        BY <2>2
      <3> QED BY <1>1, <1>4, <1>5, <3>1 DEF TimesExact
    <2> QED BY <1>1, <2>1, <2>2
  <1> QED BY <1>1, <1>3, <1>4, <1>5, <1>6 DEF Exact, ReturnExact, SendExact, HeldExact, PairsExact

-----------------------------------------------------------------------------
(* Receiving                                                               *)

LEMMA RecvExact ==
    ASSUME Typed, InInPlace, ReturnExact, NEW max \in Nat, SysRecv(Remote, max)
    PROVE  LET a == Available(Remote, max)
           IN  /\ ReturnExact' /\ Follows(Received(Remote, max), taken)
               /\ split => split'
               /\ ~split' /\ a # 0 => Even(taken + a)
  <1> DEFINE a == Available(Remote, max)
             s == in[Remote]
             data == Received(Remote, max)
  <1>1. s \in Seq(Half) /\ taken \in Nat /\ Len(s) \in Nat
    BY RemoteAssumption, NumbersTyped DEF Typed
  <1>2. /\ a \in 0..Len(s) /\ in'[Remote] = SubSeq(s, a + 1, Len(s))
        /\ Len(in'[Remote]) = Len(s) - a /\ rest' = rest /\ taken' = taken + a
        /\ Len(data) = a /\ \A i \in 1..a : data[i] = s[i]
    BY RecvKeepsPlaces
  <1>3. split' = (split \/ s[a][3] = 1)
    BY DEF SysRecv
  <1> HIDE DEF a, data, s
  <1>4. /\ \A i \in 1..Len(s) : Place(s[i]) = taken + i
        /\ rest[Remote] # 0 => 2 * rest[Remote] = taken + Len(s) + 1
    BY DEF ReturnExact, Follows, s
  <1>5. Follows(data, taken)
    BY <1>2, <1>4 DEF Follows
  <1>6. ReturnExact'
    <2>1. \A i \in 1..(Len(s) - a) : SubSeq(s, a + 1, Len(s))[i] = s[i + a]
      BY <1>1, <1>2
    <2>2. ASSUME NEW i \in 1..(Len(s) - a) PROVE Place(in'[Remote][i]) = taken' + i
      <3>1. i + a \in 1..Len(s) /\ taken' + i = taken + (i + a)
        BY <1>1, <1>2
      <3>2. Place(s[i + a]) = taken + (i + a)
        BY <1>4, <3>1
      <3>3. in'[Remote][i] = s[i + a]
        BY <1>2, <2>1
      <3> QED BY <3>1, <3>2, <3>3
    <2>3. taken' + Len(in'[Remote]) + 1 = taken + Len(s) + 1
      <3>1. /\ taken \in Nat /\ Len(s) \in Nat /\ a \in Nat
            /\ taken' = taken + a /\ Len(in'[Remote]) = Len(s) - a
        BY <1>1, <1>2
      <3> QED BY ONLY <3>1
    <2>4. rest'[Remote] # 0 => 2 * rest'[Remote] = taken' + Len(in'[Remote]) + 1
      BY <1>2, <1>4, <2>3
    <2>5. Follows(in[Remote], taken)'
      BY <1>2, <2>2 DEF Follows
    <2> QED BY <2>4, <2>5 DEF ReturnExact
  <1>7. ASSUME ~split', a # 0 PROVE Even(taken + a)
    <2>1. a \in 1..Len(s)
      BY <1>1, <1>2, <1>7
    <2>2. s[a] \in Half
      BY <1>1, <2>1
    <2>3. s[a][3] # 1
      BY <1>3, <1>7
    <2>4. s[a][3] = 2 /\ Nr(s[a]) \in Nat
      BY <2>2, <2>3 DEF Half, Nr
    <2>5. 2 * Nr(s[a]) - 2 + 2 = taken + a
      BY <1>4, <2>1, <2>4 DEF Place
    <2>6. taken + a = 2 * Nr(s[a])
      BY <1>1, <1>2, <2>4, <2>5
    <2> QED BY <2>4, <2>6 DEF Even
  <1> QED BY <1>3, <1>5, <1>6, <1>7 DEF a, data

LEMMA LatencyRecvExact ==
    ASSUME InPlace, Exact, Clean, program = "latency", program' = program, LatencyRecv
    PROVE  Exact'
  <1> DEFINE a == Available(Remote, ReplyHalves)
             data == Received(Remote, ReplyHalves)
  <1>1. /\ UNCHANGED <<out, times, replies, pairs, sent, early, connected>> /\ held' = data
        /\ SysRecv(Remote, ReplyHalves) /\ pc["receiver"] = "recv"
    BY DEF LatencyRecv, sendVars, socketVars, Step
  <1>2. {"main", "receiver"} \subseteq Threads /\ pc \in [Threads -> Places]
    BY DEF InPlace, Typed, Threads
  <1>3. pc'["receiver"] = "match" /\ pc'["main"] = pc["main"]
    BY <1>2 DEF LatencyRecv, Step
  <1>4. Begun' = Begun /\ Used' = Used
    BY <1>1, <1>3 DEF Begun, InFlight, Used
  <1>5. /\ a \in Nat /\ rest' = rest /\ peer' = peer /\ taken' = taken + a
        /\ Written' = Written /\ Len(data) = a
    <2>1. /\ a \in 0..Len(in[Remote]) /\ rest' = rest /\ peer' = peer /\ taken' = taken + a
          /\ Written' = Written /\ Len(data) = a
      BY <1>1, RecvKeepsPlaces, ReplyAssumption DEF InPlace
    <2> QED BY <2>1
  <1>6. /\ ReturnExact' /\ Follows(data, taken) /\ (split => split')
        /\ ~split' /\ a # 0 => Even(taken + a)
    BY <1>1, RecvExact, ReplyAssumption DEF InPlace, Exact
  <1> HIDE DEF a, data
  <1>7. taken \in Nat /\ replies \in Nat
    BY DEF InPlace, Typed
  <1>8. held = <<>> /\ (~split => Even(taken) /\ 2 * replies + 0 = taken)
    BY <1>1 DEF Exact, HeldExact
  <1>9. HeldExact'
    <2>1. taken' - Len(held') = taken
      BY <1>1, <1>5, <1>7
    <2>2. Follows(held, taken - Len(held))'
      BY <1>1, <1>6, <2>1 DEF Follows
    <2>3. ~split' => Even(taken') /\ 2 * replies' + Len(held') = taken'
      <3> SUFFICES ASSUME ~split' PROVE Even(taken') /\ 2 * replies' + Len(held') = taken'
        OBVIOUS
      <3>1. Even(taken) /\ 2 * replies + 0 = taken
        BY <1>6, <1>8
      <3>2. Even(taken + a)
        <4>1. a = 0 => taken + a = taken
          BY <1>5, <1>7
        <4> QED BY <1>6, <3>1, <4>1
      <3>3. 2 * replies + a = taken + a
        BY <1>5, <1>7, <3>1
      <3> QED BY <1>1, <1>5, <3>2, <3>3
    <2> QED BY <1>3, <2>2, <2>3 DEF HeldExact
  <1>10. SendExact'
    BY <1>1, <1>4, <1>5 DEF Exact, SendExact
  <1>11. TimesExact' /\ PairsExact'
    BY <1>1, <1>4, <1>6 DEF Exact, TimesExact, PairsExact
  <1> QED BY <1>6, <1>9, <1>10, <1>11 DEF Exact

\* Nothing is dropped unless a recv() ended inside a message.
LEMMA MatchNoMoreExact ==
    ASSUME InPlace, Exact, Clean, program = "latency", program' = program, MatchNoMore
    PROVE  Exact'
  <1>1. /\ UNCHANGED <<in, rest, peer, taken, split, out, times, replies, pairs, sent, early, connected>>
        /\ held' = <<>> /\ Len(held) < 2
    BY DEF MatchNoMore, netVars, sendVars, socketVars
  <1>2. "main" \in Threads /\ pc \in [Threads -> Places]
    BY DEF InPlace, Typed, Threads
  <1>3. Begun' = Begun /\ Used' = Used /\ Written' = Written
    BY <1>1, <1>2, SameWritten DEF MatchNoMore, Step, Begun, InFlight, Used
  <1>4. HeldExact'
    <2>1. ASSUME ~split PROVE Even(taken) /\ 2 * replies + 0 = taken
      <3>1. Even(taken) /\ 2 * replies + Len(held) = taken
        BY <2>1 DEF Exact, HeldExact
      <3>2. PICK k \in Nat : taken = 2 * k
        BY <3>1 DEF Even
      <3>3. Len(held) \in Nat /\ replies \in Nat
        BY NumbersTyped DEF InPlace, Typed
      <3>4. Len(held) = 0
        <4> DEFINE n == Len(held)
        <4>1. n \in Nat /\ n < 2 /\ 2 * replies + n = 2 * k /\ replies \in Nat /\ k \in Nat
          BY <1>1, <3>1, <3>2, <3>3
        <4> HIDE DEF n
        <4>2. n = 0
          BY ONLY <4>1
        <4> QED BY <4>2 DEF n
      <3> QED BY <3>1, <3>4
    <2>2. Follows(held, taken - Len(held))'
      BY <1>1 DEF Follows
    <2> QED BY <1>1, <2>1, <2>2 DEF HeldExact
  <1> QED BY <1>1, <1>3, <1>4 DEF Exact, ReturnExact, SendExact, TimesExact, PairsExact

LEMMA SecondHalfOf ==
    ASSUME NEW n \in Nat, NEW part \in {1, 2}, NEW k \in Nat, 2 * n - 2 + part = 2 * k
    PROVE  n = k
  OBVIOUS

\* The next message and the oldest send time that is left belong together.
LEMMA MatchExact ==
    ASSUME InPlace, InPlace', Exact, Clean, program = "latency", program' = program, Match
    PROVE  Exact'
  <1>1. /\ UNCHANGED <<in, rest, peer, taken, split, out, sent, connected>>
        /\ Len(held) >= 2 /\ held' = SubSeq(held, 3, Len(held)) /\ replies' = replies + 1
        /\ times' = IF times = <<>> THEN times ELSE Tail(times)
        /\ early' = (early \/ times = <<>>)
        /\ pc["receiver"] = "match" /\ pc' = [pc EXCEPT !["receiver"] = "match"]
    BY DEF Match, netVars, sendVars, socketVars, Step
  <1>2. {"main", "receiver"} \subseteq Threads /\ pc \in [Threads -> Places]
    BY DEF InPlace, Typed, Threads
  <1>3. /\ Begun' = Begun /\ Written' = Written /\ pc'["receiver"] = "match"
        /\ Used = replies /\ Used' = replies + 1
    BY <1>1, <1>2, SameWritten DEF Begun, InFlight, Used
  <1>4. /\ taken \in Nat /\ replies \in Nat /\ held \in Seq(Half) /\ Len(held) \in Nat
        /\ times \in Seq(Nat) /\ Len(times) \in Nat /\ sent \in Nat
    BY DEF InPlace, Typed
  <1>5. /\ held' \in Seq(Half) /\ Len(held') = Len(held) - 2
        /\ \A i \in 1..(Len(held) - 2) : held'[i] = held[i + 2]
    BY <1>1, <1>4, DropTwo
  <1>6. /\ \A i \in 1..Len(held) : Place(held[i]) = taken - Len(held) + i
        /\ ~split => Even(taken) /\ 2 * replies + Len(held) = taken
    BY DEF Exact, HeldExact, Follows
  <1>7. HeldExact'
    <2>1. ASSUME NEW i \in 1..Len(held') PROVE Place(held'[i]) = taken - Len(held') + i
      <3>1. i \in 1..(Len(held) - 2) /\ i + 2 \in 1..Len(held)
        BY <1>4, <1>5
      <3>2. Place(held[i + 2]) = taken - Len(held) + (i + 2)
        BY <1>6, <3>1
      <3>3. taken - Len(held') + i = taken - Len(held) + (i + 2)
        <4>1. taken \in Nat /\ i \in Nat /\ Len(held) \in Nat /\ Len(held') = Len(held) - 2
          BY <1>4, <1>5, <3>1
        <4> QED BY ONLY <4>1
      <3> QED BY <1>5, <3>1, <3>2, <3>3
    <2>2. Follows(held, taken - Len(held))'
      BY <1>1, <2>1 DEF Follows
    <2>3. 2 * replies + Len(held) = taken => 2 * replies' + Len(held') = taken
      <3>1. /\ taken \in Nat /\ replies \in Nat /\ Len(held) \in Nat
            /\ replies' = replies + 1 /\ Len(held') = Len(held) - 2
        BY <1>1, <1>4, <1>5
      <3> QED BY ONLY <3>1
    <2> QED BY <1>1, <1>3, <1>6, <2>2, <2>3 DEF HeldExact
  <1>8. TimesExact' /\ PairsExact'
    <2> SUFFICES ASSUME ~early' PROVE TimesExact' /\ PairsExact'
      BY DEF TimesExact, PairsExact
    <2>1. ~early /\ times # <<>>
      BY <1>1
    <2>2. Len(times) + replies = sent /\ \A i \in 1..Len(times) : times[i] = replies + i
      BY <1>3, <2>1 DEF Exact, TimesExact
    <2>3. times' = Tail(times)
      BY <1>1, <2>1
    <2>4. /\ times' \in Seq(Nat) /\ Len(times') = Len(times) - 1
          /\ \A i \in 1..(Len(times) - 1) : times'[i] = times[i + 1]
      BY <1>4, <2>1, <2>3
    <2>5. Len(times') + (replies + 1) = sent
      <3>1. /\ Len(times) \in Nat /\ replies \in Nat /\ sent \in Nat
            /\ Len(times') = Len(times) - 1 /\ Len(times) + replies = sent
        BY <1>4, <2>2, <2>4
      <3> QED BY ONLY <3>1
    <2>6. ASSUME NEW i \in 1..Len(times') PROVE times'[i] = replies + 1 + i
      <3>1. i \in 1..(Len(times) - 1) /\ i + 1 \in 1..Len(times) /\ replies + (i + 1) = replies + 1 + i
        BY <1>4, <2>4
      <3> QED BY <2>2, <2>4, <3>1
    <2>7. TimesExact'
      BY <1>1, <1>3, <2>5, <2>6 DEF TimesExact
    <2>8. PairsExact'
      <3> SUFFICES ASSUME ~split PROVE \A m \in pairs' : m[1] = m[2]
        BY <1>1 DEF PairsExact
      <3>1. pairs' = pairs \cup {<<Nr(held[2]), times[1]>>}
        BY <1>4, <2>1 DEF Match, ReplyNr, Nr
      <3>2. 2 \in 1..Len(held) /\ 1 \in 1..Len(times)
        BY <1>1, <1>4, <2>1
      <3>3. times[1] = replies + 1
        BY <2>2, <3>2
      <3>4. Place(held[2]) = 2 * replies + 2
        <4>1. Place(held[2]) = taken - Len(held) + 2 /\ 2 * replies + Len(held) = taken
          BY <1>6, <3>2
        <4> QED BY <1>4, <4>1
      <3>5. held[2] \in Half
        BY <1>4, <3>2
      <3>6. Nr(held[2]) \in Nat /\ held[2][3] \in {1, 2}
        BY <3>5 DEF Half, Nr
      <3>7. Nr(held[2]) = replies + 1
        <4>1. 2 * Nr(held[2]) - 2 + held[2][3] = 2 * replies + 2
          BY <3>4 DEF Place
        <4>2. replies \in Nat
          BY <1>4
        <4>3. 2 * Nr(held[2]) - 2 + held[2][3] = 2 * (replies + 1) /\ replies + 1 \in Nat
          BY <4>1, <4>2
        <4> QED BY ONLY <3>6, <4>3, SecondHalfOf
      <3>8. \A m \in pairs : m[1] = m[2]
        BY <2>1 DEF Exact, PairsExact
      <3> QED BY <3>1, <3>3, <3>7, <3>8
    <2> QED BY <2>7, <2>8
  <1>9. ReturnExact' /\ SendExact'
    BY <1>1, <1>3 DEF Exact, ReturnExact, SendExact
  <1> QED BY <1>7, <1>8, <1>9 DEF Exact

\* The send times the k-th message that arrives is matched with.
LEMMA BurstRecvExact ==
    ASSUME InPlace, InPlace', Exact, Clean, program = "burst", program' = program, BurstRecv
    PROVE  Exact'
  <1> DEFINE a == Available(Remote, ReplyHalves)
             data == Received(Remote, ReplyHalves)
             room == Len(times) - replies
             whole == IF a \div 2 < room THEN a \div 2 ELSE room
  <1>1. /\ UNCHANGED <<pc, out, times, held, sent, early, connected>>
        /\ SysRecv(Remote, ReplyHalves) /\ replies < Len(times) /\ pc["main"] = "recv"
    BY DEF BurstRecv, sendVars, socketVars
  <1>2. Begun' = Begun /\ Begun = sent /\ Used' = Used /\ Used = 0
    BY <1>1 DEF Begun, InFlight, Used, InPlace, Typed
  <1>3. /\ a \in 0..Len(in[Remote]) /\ rest' = rest /\ peer' = peer /\ taken' = taken + a
        /\ Written' = Written /\ data \in Seq(Half) /\ Len(data) = a
    BY <1>1, RecvKeepsPlaces, ReplyAssumption DEF InPlace
  <1>4. /\ ReturnExact' /\ Follows(data, taken) /\ (split => split')
        /\ ~split' /\ a # 0 => Even(taken + a)
    BY <1>1, RecvExact, ReplyAssumption DEF InPlace, Exact
  <1>5. /\ pairs' = pairs \cup {<<Nr(data[2 * k]), times[replies + k]>> : k \in 1..whole}
        /\ replies' = replies + whole
    BY <1>3 DEF BurstRecv, ReplyNr, Nr
  <1>6. /\ a \in Nat /\ taken \in Nat /\ replies \in Nat /\ held = <<>> /\ Len(times) \in Nat
        /\ sent \in Nat /\ sent <= Len(times) /\ Len(in[Remote]) \in Nat
    <2>1. a \in Nat
      BY <1>3
    <2>2. taken \in Nat /\ replies \in Nat /\ held = <<>> /\ sent \in Nat
      BY DEF InPlace, Typed, HeldInPlace
    <2>3. sent <= Used + Len(times) /\ Len(times) \in Nat /\ Len(in[Remote]) \in Nat
      BY NumbersTyped DEF InPlace, TimesInPlace
    <2> QED BY <1>2, <2>1, <2>2, <2>3
  <1> HIDE DEF a, data
  <1>7. whole \in Nat /\ 2 * whole <= a /\ replies + whole <= Len(times)
    BY <1>1, <1>6, Halved
  <1>8. ASSUME ~split'
        PROVE  Even(taken') /\ 2 * replies = taken /\ 2 * (replies + whole) = taken'
    <2>1. Even(taken) /\ 2 * replies = taken
      <3>1. Even(taken) /\ 2 * replies + Len(held) = taken
        BY <1>4, <1>8 DEF Exact, HeldExact
      <3>2. Len(held) = 0
        BY <1>6
      <3> QED BY <1>6, <3>1, <3>2
    <2>2. Even(taken + a)
      <3>1. a = 0 => taken + a = taken
        BY <1>6
      <3> QED BY <1>4, <1>8, <2>1, <3>1
    <2>3. PICK k \in Nat : taken + a = 2 * k
      BY <2>2 DEF Even
    <2>4. a \div 2 = k - replies /\ a = 2 * (k - replies)
      BY <1>6, <2>1, <2>3
    <2>5. taken + a <= 2 * sent
      <3>1. Written + Len(out) <= 2 * sent
        BY <1>2 DEF InPlace, OutInPlace, Begun
      <3>2. Written = taken + Len(in[Remote]) + OnItsWay
        BY DEF Written
      <3>3. Len(out) \in Nat /\ OnItsWay \in {0, 1} /\ Len(in[Remote]) \in Nat /\ a <= Len(in[Remote])
        BY <1>3, NumbersTyped DEF InPlace
      <3> QED BY <1>6, <3>1, <3>2, <3>3
    <2>6. k <= Len(times)
      BY <1>6, <2>3, <2>5
    <2>7. ~(a \div 2 < room) => a \div 2 = room
      BY <1>6, <2>4, <2>6
    <2>8. whole = k - replies
      BY <2>4, <2>7
    <2> QED BY <1>3, <1>6, <2>1, <2>2, <2>3, <2>8
  <1> HIDE DEF whole
  <1>9. HeldExact'
    <2>1. Len(held') = 0
      BY <1>1, <1>6
    <2>2. Follows(held, taken - Len(held))'
      BY <2>1 DEF Follows
    <2>3. ~split' => Even(taken') /\ 2 * replies' + Len(held') = taken'
      <3> SUFFICES ASSUME ~split' PROVE Even(taken') /\ 2 * replies' + Len(held') = taken'
        OBVIOUS
      <3>1. Even(taken') /\ 2 * (replies + whole) = taken' /\ replies' = replies + whole
        BY <1>5, <1>8
      <3> QED BY <1>6, <1>7, <2>1, <3>1
    <2> QED BY <1>1, <1>6, <2>2, <2>3 DEF HeldExact
  <1>10. PairsExact'
    <2> SUFFICES ASSUME ~split', ~early PROVE \A m \in pairs' : m[1] = m[2]
      BY <1>1 DEF PairsExact
    <2>1. ASSUME NEW k \in 1..whole PROVE Nr(data[2 * k]) = times[replies + k]
      <3>1. 2 * k \in 1..a /\ replies + k \in 1..Len(times) /\ k \in Nat
        BY <1>6, <1>7
      <3>2. times[replies + k] = replies + k
        <4>1. times[replies + k] = Used + (replies + k)
          BY <3>1 DEF Exact, TimesExact
        <4> QED BY <1>2, <1>6, <3>1, <4>1
      <3>3. Place(data[2 * k]) = taken + 2 * k
        BY <1>3, <1>4, <3>1 DEF Follows
      <3>4. data[2 * k] \in Half
        BY <1>3, <3>1
      <3>5. Nr(data[2 * k]) \in Nat /\ data[2 * k][3] \in {1, 2}
        BY <3>4 DEF Half, Nr
      <3>6. Nr(data[2 * k]) = replies + k
        <4>1. 2 * Nr(data[2 * k]) - 2 + data[2 * k][3] = taken + 2 * k
          BY <3>3 DEF Place
        <4>2. 2 * replies = taken /\ replies \in Nat /\ k \in Nat
          BY <1>6, <1>8, <3>1
        <4>3. 2 * Nr(data[2 * k]) - 2 + data[2 * k][3] = 2 * (replies + k) /\ replies + k \in Nat
          BY <4>1, <4>2
        <4> QED BY ONLY <3>5, <4>3, SecondHalfOf
      <3> QED BY <3>2, <3>6
    <2>2. \A m \in pairs : m[1] = m[2]
      BY <1>4 DEF Exact, PairsExact
    <2> QED BY <1>5, <2>1, <2>2
  <1>11. SendExact' /\ TimesExact'
    BY <1>1, <1>2, <1>3 DEF Exact, SendExact, TimesExact
  <1> QED BY <1>4, <1>9, <1>10, <1>11 DEF Exact

-----------------------------------------------------------------------------
LEMMA ExactInit == Init => Exactly
  <1> SUFFICES ASSUME Init, Clean PROVE Exact
    BY DEF Exactly
  <1>1. pc["main"] = "connect" /\ pc["receiver"] # "match" /\ program \in TripPrograms
    BY DEF Init, Start, TripPrograms, Threads, Clean
  <1>2. in[Remote] = <<>> /\ rest[Remote] = 0 /\ OnItsWay = 0 /\ Written = 0 /\ Begun = 0 /\ Used = 0
    BY <1>1, RemoteAssumption DEF Init, OnItsWay, Written, Begun, InFlight, Used
  <1>3. Even(0)
    <2>1. 0 = 2 * 0
      OBVIOUS
    <2> QED BY <2>1 DEF Even
  <1>4. ReturnExact
    BY <1>2 DEF Init, ReturnExact, Follows
  <1>5. SendExact
    BY <1>2, <1>3 DEF Init, SendExact
  <1>6. HeldExact
    BY <1>1, <1>3 DEF Init, HeldExact, Follows
  <1>7. TimesExact /\ PairsExact
    BY <1>2 DEF Init, TimesExact, PairsExact
  <1> QED BY <1>4, <1>5, <1>6, <1>7 DEF Exact

\* What makes a run unclean stays.
LEMMA CleanBefore ==
    ASSUME NoneAhead, [Next]_vars, Clean'
    PROVE  Clean /\ program' = program
  <1>1. program' = program
    <2>1. CASE Next
      BY <2>1 DEF Next, PeerStep, AnswerStep, Sigint, ThreadStep, Shared, Trip
    <2>2. CASE UNCHANGED vars
      BY <2>2 DEF vars
    <2> QED BY <2>1, <2>2
  <1>2. program \in {"latency", "burst"} /\ program \in TripPrograms /\ failed \in Nat
    BY <1>1 DEF Clean, TripPrograms, NoneAhead
  <1>3. ignored => ignored'
    <2>1. CASE UNCHANGED vars
      BY <2>1 DEF vars, tripVars
    <2>2. CASE PeerStep
      BY <2>2 DEF PeerStep, Shared, tripVars
    <2>3. CASE AnswerStep
      BY <2>3 DEF AnswerStep, Trip, ServerAnswers, RestOfAnswer, ServerEnds, tripVars
    <2>4. CASE Sigint
      BY <2>4 DEF Sigint, Trip, Interrupt, tripVars
    <2>5. ASSUME NEW t \in Threads, ThreadStep(t) PROVE ignored => ignored'
      <3>1. CASE program = "burst"
        <4>1. BurstStep
          BY <2>5, <3>1 DEF ThreadStep, Trip
        <4> QED BY <4>1 DEF BurstStep, ConnectFails, Connect, BurstSend, BurstSent, BurstRecv,
            BurstReceived, CloseAndExit, tripVars
      <3>2. CASE program = "latency"
        <4>1. LatencyMainStep \/ LatencyReceiverStep
          BY <2>5, <3>2 DEF ThreadStep, Trip
        <4>2. CASE LatencyReceiverStep
          BY <4>2 DEF LatencyReceiverStep, TestStop, LatencyRecv, LatencyRecvNothing, LatencyRecvEnds,
             Match, MatchNoMore, tripVars
        <4>3. CASE LatencyMainStep
          BY <4>3 DEF LatencyMainStep, LatencyConnect, LatencyConnectFails, SetConnected, ClearStop,
             StartReceiver, AssignReceiver, LatencyNoTest, LatencyReset, ClearTimes, CreateMessageAborts,
             LatencySend, LatencyLock, StoreSendTime, LatencyLoopEnds, Percentiles, Disconnect, ClearFlags, JoinReceiver,
             CloseSocket, ForgetSocket, JoinTwice, tripVars
        <4> QED BY <4>1, <4>2, <4>3
      <3> QED BY <1>2, <3>1, <3>2
    <2> QED BY <2>1, <2>2, <2>3, <2>4, <2>5 DEF Next
  <1>4. failed' = failed \/ \E k \in Outcomes : SysSend(sent + 1, k)
    <2>1. CASE UNCHANGED vars
      BY <2>1 DEF vars, tripVars, sendVars
    <2>2. CASE PeerStep
      BY <2>2 DEF PeerStep, Shared, tripVars, sendVars
    <2>3. CASE AnswerStep
      BY <2>3 DEF AnswerStep, Trip, ServerAnswers, RestOfAnswer, ServerEnds, tripVars, sendVars
    <2>4. CASE Sigint
      BY <2>4 DEF Sigint, Trip, Interrupt, tripVars, sendVars
    <2>5. ASSUME NEW t \in Threads, ThreadStep(t)
          PROVE  failed' = failed \/ \E k \in Outcomes : SysSend(sent + 1, k)
      <3>1. CASE program = "burst"
        <4>1. BurstStep
          BY <2>5, <3>1 DEF ThreadStep, Trip
        <4> QED BY <4>1 DEF BurstStep, ConnectFails, Connect, BurstSend, BurstSent, BurstRecv,
            BurstReceived, CloseAndExit, tripVars, sendVars
      <3>2. CASE program = "latency"
        <4>1. LatencyMainStep \/ LatencyReceiverStep
          BY <2>5, <3>2 DEF ThreadStep, Trip
        <4>2. CASE LatencyReceiverStep
          BY <4>2 DEF LatencyReceiverStep, TestStop, LatencyRecv, LatencyRecvNothing, LatencyRecvEnds,
             Match, MatchNoMore, tripVars, sendVars
        <4>3. CASE LatencySend
          BY <4>3 DEF LatencySend, Outcomes
        <4>4. CASE LatencyMainStep /\ ~LatencySend
          BY <4>4 DEF LatencyMainStep, LatencyConnect, LatencyConnectFails, SetConnected, ClearStop,
             StartReceiver, AssignReceiver, LatencyNoTest, LatencyReset, ClearTimes, CreateMessageAborts,
             LatencyLock, StoreSendTime, LatencyLoopEnds, Percentiles, Disconnect, ClearFlags, JoinReceiver,
             CloseSocket, ForgetSocket, JoinTwice, tripVars, sendVars
        <4> QED BY <4>1, <4>2, <4>3, <4>4
      <3> QED BY <1>2, <3>1, <3>2
    <2> QED BY <2>1, <2>2, <2>3, <2>4, <2>5 DEF Next
  <1>5. failed' = 0
    BY DEF Clean
  <1>6. failed = 0
    BY <1>2, <1>4, <1>5 DEF SysSend, Outcomes
  <1> QED BY <1>1, <1>2, <1>3, <1>6 DEF Clean

LEMMA ExactStep == Ordered /\ Ordered' /\ NoneAhead /\ Exactly /\ [Next]_vars => Exactly'
  <1> SUFFICES ASSUME Ordered, Ordered', NoneAhead, Exactly, [Next]_vars, Clean' PROVE Exact'
    BY DEF Exactly
  <1>1. Clean /\ program' = program
    BY CleanBefore
  <1>2. Exact /\ program \in TripPrograms
    BY <1>1 DEF Exactly, Clean, TripPrograms
  <1>3. InPlace /\ InPlace'
    BY <1>1, <1>2 DEF Ordered
  <1>4. CASE UNCHANGED vars
    <2>1. Moves /\ UNCHANGED <<pc, connected>>
      BY <1>3, <1>4 DEF vars, netVars, tripVars, socketVars, sendVars, matchVars, Moves, InPlace, Typed,
         PeerStates, InFlight
    <2> QED BY <1>1, <1>2, <1>3, <2>1, MovesExact
  <1>5. CASE PeerStep
    BY <1>2, <1>5 DEF PeerStep, Shared, PeerWrites, SecondHalf, PeerLeaves, SharedProgram, TripPrograms
  <1>6. CASE AnswerStep
    BY <1>1, <1>2, <1>3, <1>6, AnswerExact, RestExact, EndExact DEF AnswerStep, Trip, TripProgram
  <1>7. CASE Sigint
    <2>1. program = "latency" /\ Interrupt
      BY <1>7 DEF Sigint, Trip
    <2> QED BY <1>1, <1>2, <1>3, <2>1, LatencyMovesExact
  <1>8. ASSUME NEW t \in Threads, ThreadStep(t) PROVE Exact'
    <2>1. CASE program = "latency"
      <3>1. LatencyMainStep \/ LatencyReceiverStep
        BY <1>8, <2>1 DEF ThreadStep, Trip
      <3> QED BY <1>1, <1>2, <1>3, <2>1, <3>1, LatencyMovesExact, SendExactly, StoreTimeExact, ResetExact,
                 LatencyRecvExact, MatchExact, MatchNoMoreExact DEF LatencyMainStep, LatencyReceiverStep
    <2>2. CASE program = "burst"
      <3>1. BurstStep
        BY <1>8, <2>2 DEF ThreadStep, Trip
      <3> QED BY <1>1, <1>2, <1>3, <2>2, <3>1, BurstMovesExact, SendExactly, BurstRecvExact DEF BurstStep
    <2> QED BY <1>1, <2>1, <2>2 DEF Clean
  <1> QED BY <1>4, <1>5, <1>6, <1>7, <1>8 DEF Next

\* Each reply is matched with the send time of its own message unless a send
\* was not whole, a message stayed without an answer, a reply was faster than
\* the storing of the send time, or a recv() ended inside a reply.
THEOREM MatchedExactly == Spec => []ExactWhenClean
  <1>1. Ordered /\ NoneAhead /\ Exactly => ExactWhenClean
    <2> SUFFICES ASSUME Ordered, NoneAhead, Exactly, ~split, NEW m \in pairs,
                        program = "ping" \/ ~(failed > 0 \/ ignored \/ early)
                 PROVE  m[1] = m[2]
      BY DEF ExactWhenClean
    <2>1. program \in TripPrograms
      BY DEF Ordered
    <2>2. InPlace /\ failed \in Nat /\ Within(Begun) /\ Begun \in Nat
      BY <2>1, BegunTyped DEF Ordered, NoneAhead, InPlace
    <2>3. CASE program = "ping"
      <3>1. m[1] >= m[2] /\ m[1] <= m[2]
        BY <2>1, <2>2, <2>3 DEF InPlace, NeverTooShort, NoneAhead
      <3>2. m[1] \in 1..Begun /\ m[2] \in 1..Begun
        BY <2>2 DEF Within
      <3> QED BY <2>2, <3>1, <3>2
    <2>4. CASE program = "simple"
      BY <2>1, <2>4 DEF NoneAhead
    <2>5. CASE program \in {"latency", "burst"}
      <3>1. ~(failed > 0) /\ ~ignored /\ ~early
        BY <2>5
      <3>2. failed = 0
        BY <2>2, <3>1
      <3>3. Clean
        BY <2>5, <3>1, <3>2 DEF Clean
      <3> QED BY <3>1, <3>3 DEF Exactly, Exact, PairsExact
    <2> QED BY <2>1, <2>3, <2>4, <2>5 DEF TripPrograms
  <1> QED BY <1>1, OrderedInit, OrderedStep, NoneAheadInit, NoneAheadStep, ExactInit, ExactStep, PTL DEF Spec
=============================================================================
