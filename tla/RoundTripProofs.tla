--------------------------- MODULE RoundTripProofs --------------------------
(***************************************************************************)
(* Why no program of Receivers measures a latency too short, for any       *)
(* number of messages and any size of the buffers.                         *)
(*                                                                         *)
(* No reply overtakes another and none is made up, so that the i-th half   *)
(* that ever comes back belongs to message i / 2 or a later one, however   *)
(* messages were split, lost or left without an answer; and the i-th whole *)
(* message taken out of the stream ends at half 2 * i or later, while it   *)
(* is given the i-th send time or an earlier one.                          *)
(***************************************************************************)
EXTENDS Receivers, SequenceTheorems, TLAPS

Nr(h) == h[2]
Begins(h) == h[3] = 1

\* How many halves of replies have come to exist.
OnItsWay == IF rest[Remote] # 0 THEN 1 ELSE 0
Written == taken + Len(in[Remote]) + OnItsWay

\* The message being sent, which the send loop has yet to count.
InFlight ==
    IF pc["main"] \in {"lock", "store"} \/ (program = "ping" /\ pc["main"] = "recv")
    THEN 1 ELSE 0

\* latency_test takes the send times it has used off the front of times.
Used == IF program = "latency" THEN replies ELSE 0

Typed ==
    /\ pc \in [Threads -> Places]
    /\ in \in [Peers -> Seq(Half)] /\ rest \in [Peers -> Nat]
    /\ peer \in [Peers -> {"up", "fin", "err", "closed"}]
    /\ out \in Seq(Nat) /\ times \in Seq(Nat) /\ held \in Seq(Half)
    /\ taken \in Nat /\ sent \in Nat /\ replies \in Nat

\* No half is before its place: on its way to the server, on its way back,
\* and received.
OutInPlace ==
    /\ \A i \in 1..Len(out) : Written + i <= 2 * out[i]
    /\ Written + Len(out) <= 2 * (sent + InFlight)

InInPlace ==
    /\ \A i \in 1..Len(in[Remote]) : taken + i <= 2 * Nr(in[Remote][i])
    /\ rest[Remote] # 0 => taken + Len(in[Remote]) + 1 <= 2 * rest[Remote]

HeldInPlace ==
    /\ \A i \in 1..Len(held) : taken - Len(held) + i <= 2 * Nr(held[i])
    /\ 2 * replies + Len(held) <= taken
    /\ program # "latency" => held = <<>>

BeforeTest == {"connect", "enable", "clear", "spawn", "assign", "reset", "wipe", "wiped"}

TimesInPlace ==
    /\ \A i \in 1..Len(times) : times[i] <= Used + i
    /\ program \in {"latency", "burst"} => sent <= Used + Len(times)
    /\ program = "latency" /\ pc["main"] \in BeforeTest => sent = 0

\* simple_latency_test has one message under way at most, as long as it has
\* not left half a reply for its next turn.
Idle == in[Remote] = <<>> /\ rest[Remote] = 0 /\ (peer[Remote] = "up" => out = <<>>)

Awaiting ==
    /\ \A i \in 1..Len(in[Remote]) : Nr(in[Remote][i]) >= sent + 1
    /\ in[Remote] # <<>> => Begins(in[Remote][1])
    /\ rest[Remote] # 0 => rest[Remote] >= sent + 1 /\ in[Remote] # <<>>
    /\ Len(in[Remote]) + OnItsWay <= 2
    /\ peer[Remote] = "up" =>
           /\ \A i \in 1..Len(out) : out[i] >= sent + 1
           /\ Len(in[Remote]) + OnItsWay + Len(out) <= 2

OneAtATime ==
    program = "ping" /\ ~split =>
        /\ rest[Remote] # 0 => peer[Remote] = "up"
        /\ pc["main"] \in {"connect", "send"} => Idle
        /\ pc["main"] = "recv" => Awaiting

InPlace == Typed /\ OutInPlace /\ InInPlace /\ HeldInPlace /\ TimesInPlace /\ OneAtATime /\ NeverTooShort

Ordered ==
    /\ program \in TripPrograms => InPlace
    /\ program \notin TripPrograms => pairs = {}

-----------------------------------------------------------------------------
(* Numbers                                                                 *)

LEMMA NumbersTyped ==
    ASSUME Typed
    PROVE  /\ OnItsWay \in {0, 1} /\ Written \in Nat /\ InFlight \in {0, 1}
           /\ Len(in[Remote]) \in Nat /\ Len(out) \in Nat /\ Len(held) \in Nat /\ Len(times) \in Nat
           /\ Used \in Nat
  <1>1. in[Remote] \in Seq(Half)
    BY RemoteAssumption DEF Typed
  <1>2. Len(in[Remote]) \in Nat
    BY <1>1
  <1>3. OnItsWay \in {0, 1} /\ InFlight \in {0, 1} /\ Used \in Nat
    BY DEF OnItsWay, InFlight, Used, Typed
  <1>4. taken \in Nat
    BY DEF Typed
  <1>5. Written \in Nat
    BY <1>2, <1>3, <1>4 DEF Written
  <1> QED BY <1>2, <1>3, <1>5 DEF Typed

LEMMA SameWritten ==
    ASSUME UNCHANGED <<in, rest, taken>>
    PROVE  OnItsWay' = OnItsWay /\ Written' = Written
  BY DEF OnItsWay, Written

-----------------------------------------------------------------------------
(* The three system calls                                                  *)

LEMMA RecvKeepsPlaces ==
    ASSUME Typed, InInPlace, NEW max \in Nat, SysRecv(Remote, max)
    PROVE  LET a == Available(Remote, max)
               data == Received(Remote, max)
           IN  /\ a \in 0..Len(in[Remote]) /\ a <= max
               /\ in' \in [Peers -> Seq(Half)] /\ rest' = rest /\ peer' = peer
               /\ in'[Remote] = SubSeq(in[Remote], a + 1, Len(in[Remote]))
               /\ Len(in'[Remote]) = Len(in[Remote]) - a
               /\ taken' = taken + a /\ taken' \in Nat
               /\ Written' = Written
               /\ data \in Seq(Half) /\ Len(data) = a
               /\ \A i \in 1..a : data[i] = in[Remote][i]
               /\ \A i \in 1..a : taken + i <= 2 * Nr(data[i])
               /\ InInPlace'
  <1> DEFINE a == Available(Remote, max)
             data == Received(Remote, max)
             stream == in[Remote]
  <1>1. stream \in Seq(Half) /\ taken \in Nat
    BY RemoteAssumption DEF Typed
  <1>2. a \in 0..Len(stream) /\ a <= max
    BY <1>1 DEF Available
  <1>3. data \in Seq(Half) /\ Len(data) = a /\ \A i \in 1..a : data[i] = stream[i]
    <2>1. data = SubSeq(stream, 1, a)
      BY DEF Received
    <2> HIDE DEF data, a, stream
    <2> QED BY <1>1, <1>2, <2>1
  <1>4. in' = [in EXCEPT ![Remote] = SubSeq(@, a + 1, Len(@))]
    BY DEF SysRecv
  <1>5. taken' = taken + a /\ rest' = rest /\ peer' = peer
    BY DEF SysRecv
  <1>6. SubSeq(stream, a + 1, Len(stream)) \in Seq(Half)
        /\ Len(SubSeq(stream, a + 1, Len(stream))) = Len(stream) - a
        /\ \A i \in 1..(Len(stream) - a) : SubSeq(stream, a + 1, Len(stream))[i] = stream[i + a]
    <2> HIDE DEF a, stream
    <2> QED BY <1>1, <1>2
  <1>7. in' \in [Peers -> Seq(Half)] /\ in'[Remote] = SubSeq(stream, a + 1, Len(stream))
    BY <1>4, <1>6, RemoteAssumption DEF Typed
  <1>8. Len(in'[Remote]) = Len(stream) - a /\ Len(stream) \in Nat
    BY <1>1, <1>6, <1>7
  <1>9. taken' \in Nat /\ Written' = Written
    <2>1. taken' \in Nat
      <3> HIDE DEF a
      <3> QED BY <1>1, <1>2, <1>5
    <2>2. taken' + Len(in'[Remote]) = taken + Len(stream)
      <3> HIDE DEF a, stream
      <3> QED BY <1>1, <1>2, <1>5, <1>8
    <2>3. OnItsWay' = OnItsWay
      BY <1>5 DEF OnItsWay
    <2> QED BY <2>1, <2>2, <2>3 DEF Written
  <1>10. \A i \in 1..a : taken + i <= 2 * Nr(data[i])
    <2> HIDE DEF a, data
    <2> QED BY <1>2, <1>3 DEF InInPlace
  <1>11. InInPlace'
    <2>1. ASSUME NEW i \in 1..(Len(stream) - a)
          PROVE  taken' + i <= 2 * Nr(stream[i + a])
      <3> HIDE DEF a
      <3>1. i + a \in 1..Len(stream) /\ taken' + i = taken + (i + a)
        BY <1>1, <1>2, <1>5
      <3> QED BY <3>1 DEF InInPlace
    <2>2. \A i \in 1..Len(in'[Remote]) : taken' + i <= 2 * Nr(in'[Remote][i])
      <3> HIDE DEF a, stream
      <3> QED BY <1>6, <1>7, <2>1
    <2>3. taken' + Len(in'[Remote]) = taken + Len(stream)
      <3> HIDE DEF a, stream
      <3> QED BY <1>1, <1>2, <1>5, <1>8
    <2> HIDE DEF a, stream
    <2> QED BY <1>5, <2>2, <2>3 DEF InInPlace, stream
  <1> QED BY <1>2, <1>3, <1>4, <1>5, <1>6, <1>7, <1>9, <1>10, <1>11

LEMMA SendKeepsPlaces ==
    ASSUME Typed, OutInPlace, InFlight = 0, NEW k \in Outcomes, SysSend(sent + 1, k)
    PROVE  /\ out' \in Seq(Nat)
           /\ \A i \in 1..Len(out') : Written + i <= 2 * out'[i]
           /\ Written + Len(out') <= 2 * (sent + 1)
  <1>1. out \in Seq(Nat) /\ sent \in Nat /\ Written \in Nat
    BY NumbersTyped DEF Typed
  <1>2. Written + Len(out) <= 2 * sent /\ \A i \in 1..Len(out) : Written + i <= 2 * out[i]
    BY <1>1 DEF OutInPlace
  <1>3. k \in {0, 1, 2}
    BY DEF Outcomes
  <1>4. CASE out' = out
    BY <1>1, <1>2, <1>4
  <1>5. CASE out' # out
    <2> DEFINE new == [i \in 1..k |-> sent + 1]
    <2>1. out' = out \o new
      BY <1>5 DEF SysSend
    <2>2. new \in Seq(Nat) /\ Len(new) = k /\ \A i \in 1..k : new[i] = sent + 1
      BY <1>1, <1>3
    <2> HIDE DEF new
    <2>3. out' \in Seq(Nat) /\ Len(out') = Len(out) + k
      BY <1>1, <1>3, <2>1, <2>2
    <2>4. \A i \in 1..Len(out') : out'[i] = IF i <= Len(out) THEN out[i] ELSE sent + 1
      BY <1>1, <1>3, <2>1, <2>2, <2>3
    <2>5. ASSUME NEW i \in 1..Len(out') PROVE Written + i <= 2 * out'[i]
      <3>1. CASE i <= Len(out)
        <4>1. out'[i] = out[i] /\ i \in 1..Len(out)
          BY <1>1, <2>4, <3>1
        <4> QED BY <1>2, <4>1
      <3>2. CASE ~(i <= Len(out))
        <4>1. out'[i] = sent + 1 /\ i <= Len(out) + 2
          BY <1>1, <1>3, <2>3, <2>4, <3>2
        <4> QED BY <1>1, <1>2, <4>1
      <3> QED BY <3>1, <3>2
    <2> QED BY <1>1, <1>2, <1>3, <2>3, <2>5
  <1> QED BY <1>4, <1>5

-----------------------------------------------------------------------------
(* The server's end                                                        *)

LEMMA DropTwo ==
    ASSUME NEW S, NEW s \in Seq(S), Len(s) >= 2
    PROVE  /\ SubSeq(s, 3, Len(s)) \in Seq(S)
           /\ Len(SubSeq(s, 3, Len(s))) = Len(s) - 2
           /\ \A i \in 1..(Len(s) - 2) : SubSeq(s, 3, Len(s))[i] = s[i + 2]
  <1> DEFINE t == SubSeq(s, 3, Len(s))
             n == Len(s)
  <1>1. n \in Nat /\ n >= 2 /\ \A i \in 3..n : s[i] \in S
    OBVIOUS
  <1>2. /\ t \in Seq(S)
        /\ Len(t) = IF 3 <= n THEN n - 3 + 1 ELSE 0
        /\ \A i \in 1..(n - 3 + 1) : t[i] = s[3 + i - 1]
    BY <1>1, SubSeqProperties
  <1>3. Len(t) = n - 2
    <2> HIDE DEF t, n
    <2>1. CASE 3 <= n
      BY <1>1, <1>2, <2>1
    <2>2. CASE n = 2
      BY <1>2, <2>2
    <2> QED BY <1>1, <2>1, <2>2
  <1>4. ASSUME NEW i \in 1..(n - 2) PROVE t[i] = s[i + 2]
    <2> HIDE DEF t, n
    <2>1. i \in 1..(n - 3 + 1) /\ 3 + i - 1 = i + 2
      BY <1>1
    <2> QED BY <1>2, <2>1
  <1> QED BY <1>2, <1>3, <1>4

\* One or both halves of message n arrive.
LEMMA ArriveInPlace ==
    ASSUME Typed, InInPlace,
           NEW a \in Half, NEW b \in Half, Nr(a) = Nr(b),
           NEW t \in Seq(Half), t = Append(in[Remote], a) \/ t = in[Remote] \o <<a, b>>,
           in' = [in EXCEPT ![Remote] = t],
           taken + Len(t) <= 2 * Nr(a)
    PROVE  /\ in' \in [Peers -> Seq(Half)] /\ in'[Remote] = t
           /\ t = Append(in[Remote], a) => Len(t) = Len(in[Remote]) + 1
           /\ t = in[Remote] \o <<a, b>> => Len(t) = Len(in[Remote]) + 2
           /\ \A i \in 1..Len(t) : taken + i <= 2 * Nr(t[i])
           /\ \A m \in Nat :
                  Nr(a) >= m /\ (\A i \in 1..Len(in[Remote]) : Nr(in[Remote][i]) >= m)
                      => \A i \in 1..Len(t) : Nr(t[i]) >= m
           /\ in[Remote] = <<>> => t[1] = a
           /\ in[Remote] # <<>> => t[1] = in[Remote][1]
  <1> DEFINE s == in[Remote]
  <1>1. s \in Seq(Half) /\ taken \in Nat /\ Len(s) \in Nat /\ Nr(a) \in Nat
    BY RemoteAssumption DEF Typed, Half, Nr
  <1> HIDE DEF s
  <1>2. t = Append(s, a) \/ t = s \o <<a, b>>
    BY DEF s
  <1>3. in' \in [Peers -> Seq(Half)] /\ in'[Remote] = t
    BY RemoteAssumption DEF Typed
  <1>4. ASSUME NEW i \in 1..Len(t), Nr(t[i]) = Nr(a) \/ (i \in 1..Len(s) /\ t[i] = s[i])
        PROVE  taken + i <= 2 * Nr(t[i])
    <2>1. CASE Nr(t[i]) = Nr(a)
      <3>1. i \in Nat /\ i <= Len(t) /\ Len(t) \in Nat
        OBVIOUS
      <3> QED BY <1>1, <2>1, <3>1
    <2>2. CASE i \in 1..Len(s) /\ t[i] = s[i]
      BY <2>2 DEF InInPlace, s
    <2> QED BY <1>4, <2>1, <2>2
  <1>5. CASE t = Append(s, a)
    <2>1. Len(t) = Len(s) + 1 /\ t[Len(s) + 1] = a /\ \A i \in 1..Len(s) : t[i] = s[i]
      BY <1>1, <1>5
    <2>2. \A i \in 1..Len(t) : Nr(t[i]) = Nr(a) \/ (i \in 1..Len(s) /\ t[i] = s[i])
      <3>1. ASSUME NEW i \in 1..Len(t) PROVE i \in 1..Len(s) \/ i = Len(s) + 1 \/ i = Len(s) + 2
        BY <1>1, <2>1
      <3> QED BY <2>1, <3>1
    <2>3. \A i \in 1..Len(t) : taken + i <= 2 * Nr(t[i])
      BY <1>4, <2>2
    <2>4. (s = <<>> => t[1] = a) /\ (s # <<>> => t[1] = s[1])
      BY <1>1, <2>1
    <2>5. ASSUME NEW m \in Nat, Nr(a) >= m, \A i \in 1..Len(s) : Nr(s[i]) >= m
          PROVE  \A i \in 1..Len(t) : Nr(t[i]) >= m
      BY <2>2, <2>5
    <2> QED BY <1>1, <1>3, <2>1, <2>3, <2>4, <2>5 DEF s
  <1>6. CASE t = s \o <<a, b>>
    <2>1. /\ Len(t) = Len(s) + 2 /\ t[Len(s) + 1] = a /\ t[Len(s) + 2] = b
          /\ \A i \in 1..Len(s) : t[i] = s[i]
      BY <1>1, <1>6
    <2>2. \A i \in 1..Len(t) : Nr(t[i]) = Nr(a) \/ (i \in 1..Len(s) /\ t[i] = s[i])
      <3>1. ASSUME NEW i \in 1..Len(t) PROVE i \in 1..Len(s) \/ i = Len(s) + 1 \/ i = Len(s) + 2
        BY <1>1, <2>1
      <3> QED BY <2>1, <3>1
    <2>3. \A i \in 1..Len(t) : taken + i <= 2 * Nr(t[i])
      BY <1>4, <2>2
    <2>4. (s = <<>> => t[1] = a) /\ (s # <<>> => t[1] = s[1])
      BY <1>1, <2>1
    <2>5. ASSUME NEW m \in Nat, Nr(a) >= m, \A i \in 1..Len(s) : Nr(s[i]) >= m
          PROVE  \A i \in 1..Len(t) : Nr(t[i]) >= m
      BY <2>2, <2>5
    <2> QED BY <1>1, <1>3, <2>1, <2>3, <2>4, <2>5 DEF s
  <1> QED BY <1>2, <1>5, <1>6

LEMMA AnswerInPlace ==
    ASSUME InPlace, TripProgram, program' = program, ServerAnswers
    PROVE  InPlace'
  <1> DEFINE stream == in[Remote]
  <1>1. Len(out) >= 2 /\ out' = SubSeq(out, 3, Len(out)) /\ peer[Remote] = "up"
    BY DEF ServerAnswers, Write
  <1>2. UNCHANGED <<pc, times, held, replies, pairs, sent>>
    BY DEF ServerAnswers, matchVars
  <1>3. stream \in Seq(Half) /\ rest \in [Peers -> Nat] /\ in \in [Peers -> Seq(Half)]
    BY RemoteAssumption DEF InPlace, Typed
  <1>4. out \in Seq(Nat)
    BY DEF InPlace, Typed
  <1>5. Written \in Nat
    BY NumbersTyped DEF InPlace
  <1>6. taken \in Nat /\ sent \in Nat /\ InFlight \in Nat
    BY DEF InPlace, Typed, InFlight
  <1>7. /\ out' \in Seq(Nat) /\ Len(out') = Len(out) - 2
        /\ \A i \in 1..Len(out') : out'[i] = out[i + 2]
    <2>1. out \in Seq(Nat) /\ Len(out) >= 2 /\ out' = SubSeq(out, 3, Len(out))
      BY <1>1, <1>4
    <2>2. /\ SubSeq(out, 3, Len(out)) \in Seq(Nat) /\ Len(SubSeq(out, 3, Len(out))) = Len(out) - 2
          /\ \A i \in 1..(Len(out) - 2) : SubSeq(out, 3, Len(out))[i] = out[i + 2]
      BY ONLY <2>1, DropTwo
    <2> QED BY ONLY <2>1, <2>2
  <1>8. out[2] \in Nat /\ Written + 2 <= 2 * out[2]
    BY <1>1, <1>4, <1>5 DEF InPlace, OutInPlace
  <1>9. InFlight' = InFlight /\ Used' = Used
    BY <1>2 DEF Used, InFlight
  <1>10. TimesInPlace'
    BY <1>2, <1>9 DEF InPlace, TimesInPlace
  <1>11. ASSUME NEW i \in 1..Len(out') PROVE Written + 2 + i <= 2 * out'[i]
    <2>1. i + 2 \in 1..Len(out) /\ i \in Nat
      BY <1>4, <1>7
    <2>2. Written + (i + 2) <= 2 * out[i + 2] /\ out[i + 2] \in Nat
      BY <1>4, <2>1 DEF InPlace, OutInPlace
    <2>3. out'[i] = out[i + 2]
      BY <1>7
    <2> QED BY <1>5, <2>1, <2>2, <2>3
  <1>12. Written + 2 + Len(out') <= 2 * (sent + InFlight) /\ Len(out') \in Nat
    <2>1. Written + Len(out) <= 2 * (sent + InFlight) /\ Len(out) \in Nat
      BY <1>4 DEF InPlace, OutInPlace
    <2>2. Len(out') = Len(out) - 2 /\ Len(out) >= 2
      BY <1>1, <1>7
    <2> QED BY <1>5, <1>6, <2>1, <2>2
  <1>13. CASE UNCHANGED netVars
    <2>1. Written' = Written /\ UNCHANGED <<in, rest, peer, taken, split>>
      BY <1>13, SameWritten DEF netVars
    <2>2. OutInPlace'
      <3>1. ASSUME NEW i \in 1..Len(out') PROVE Written + i <= 2 * out'[i]
        <4>1. i \in Nat /\ out'[i] \in Nat
          BY <1>7
        <4> QED BY <1>5, <1>11, <4>1
      <3> QED BY <1>2, <1>5, <1>6, <1>9, <1>12, <2>1, <3>1 DEF OutInPlace
    <2>3. Idle => Idle'
      BY <1>1, <2>1 DEF Idle
    <2>4. Awaiting => Awaiting'
      <3>1. SUFFICES ASSUME Awaiting PROVE Awaiting'
        OBVIOUS
      <3>2. \A i \in 1..Len(out) : out[i] >= sent + 1
        BY <1>1, <3>1 DEF Awaiting
      <3>3. ASSUME NEW i \in 1..Len(out') PROVE i + 2 \in 1..Len(out)
        BY <1>4, <1>7
      <3>4. \A i \in 1..Len(out') : out'[i] >= sent + 1
        BY <1>7, <3>2, <3>3
      <3>5. Len(stream) + OnItsWay + Len(out) <= 2
        BY <1>1, <3>1 DEF Awaiting
      <3>6. Len(stream) + OnItsWay + Len(out') <= 2 /\ OnItsWay' = OnItsWay
        <4>1. Len(stream) \in Nat /\ OnItsWay \in Nat /\ Len(out) \in Nat
          BY NumbersTyped DEF InPlace
        <4>2. Len(out') = Len(out) - 2
          BY <1>7
        <4>3. OnItsWay' = OnItsWay
          BY <2>1, SameWritten
        <4> QED BY <3>5, <4>1, <4>2, <4>3
      <3> QED BY <1>2, <2>1, <3>1, <3>4, <3>6 DEF Awaiting
    <2>5. OneAtATime'
      BY <1>2, <2>1, <2>3, <2>4 DEF InPlace, OneAtATime
    <2> QED BY <1>2, <1>7, <1>10, <2>1, <2>2, <2>5
        DEF InPlace, Typed, InInPlace, HeldInPlace, NeverTooShort
  <1>14. CASE Write(Remote, out[2])
    <2>1. UNCHANGED <<peer, taken, split>> /\ rest[Remote] = 0
      BY <1>14 DEF Write
    <2>2. PICK a \in Half, b \in Half :
            /\ Nr(a) = out[2] /\ Nr(b) = out[2] /\ Begins(a)
            /\ \/ in' = [in EXCEPT ![Remote] = @ \o <<a, b>>] /\ rest' = rest
               \/ in' = [in EXCEPT ![Remote] = Append(@, a)] /\ rest' = [rest EXCEPT ![Remote] = out[2]]
      <3>1. <<Remote, out[2], 1>> \in Half /\ <<Remote, out[2], 2>> \in Half
        BY <1>8, RemoteAssumption DEF Half
      <3> QED BY <1>14, <3>1 DEF Write, Nr, Begins
    <2>3. Append(stream, a) \in Seq(Half) /\ stream \o <<a, b>> \in Seq(Half)
      <3>1. <<a, b>> \in Seq(Half)
        OBVIOUS
      <3> HIDE DEF stream
      <3> QED BY <1>3, <3>1
    <2>4. PICK t \in Seq(Half) :
                   /\ t = Append(stream, a) \/ t = stream \o <<a, b>>
                   /\ in' = [in EXCEPT ![Remote] = t]
                   /\ \/ t = stream \o <<a, b>> /\ rest' = rest
                      \/ t = Append(stream, a) /\ rest' = [rest EXCEPT ![Remote] = out[2]]
      BY <2>2, <2>3
    <2>5. out[2] # 0 /\ Written = taken + Len(stream) /\ Len(stream) \in Nat
      <3>1. OnItsWay = 0 /\ Len(stream) \in Nat /\ Written = taken + Len(stream) + OnItsWay
        BY <2>1, NumbersTyped DEF OnItsWay, Written, InPlace
      <3> QED BY <1>5, <1>6, <1>8, <3>1
    <2>6. Len(t) + OnItsWay' = Len(stream) + 2 /\ Len(t) \in Nat /\ OnItsWay' \in {0, 1}
      <3> HIDE DEF stream
      <3>1. CASE t = stream \o <<a, b>> /\ rest' = rest
        <4>1. Len(t) = Len(stream) + 2
          BY <1>3, <3>1
        <4>2. OnItsWay' = 0
          BY <2>1, <3>1 DEF OnItsWay
        <4> QED BY <2>5, <4>1, <4>2
      <3>2. CASE t = Append(stream, a) /\ rest' = [rest EXCEPT ![Remote] = out[2]]
        <4>1. Len(t) = Len(stream) + 1
          BY <1>3, <3>2
        <4>2. OnItsWay' = 1
          BY <1>3, <2>5, <3>2, RemoteAssumption DEF OnItsWay
        <4> QED BY <2>5, <4>1, <4>2
      <3> QED BY <2>4, <3>1, <3>2
    <2>7. taken + Len(t) <= 2 * Nr(a)
      <3>1. Nr(a) = out[2]
        BY <2>2
      <3> QED BY <1>6, <1>8, <2>5, <2>6, <3>1, SMTT(20)
    <2>8. Typed /\ InInPlace
      BY DEF InPlace
    <2>9. /\ in' \in [Peers -> Seq(Half)] /\ in'[Remote] = t
          /\ \A i \in 1..Len(t) : taken + i <= 2 * Nr(t[i])
          /\ \A m \in Nat :
                 Nr(a) >= m /\ (\A i \in 1..Len(stream) : Nr(stream[i]) >= m)
                     => \A i \in 1..Len(t) : Nr(t[i]) >= m
          /\ stream = <<>> => t[1] = a
          /\ stream # <<>> => t[1] = stream[1]
      <3>1. t = Append(in[Remote], a) \/ t = in[Remote] \o <<a, b>>
        BY <2>4
      <3>2. in' = [in EXCEPT ![Remote] = t]
        BY <2>4
      <3>3. Nr(a) = Nr(b)
        BY <2>2
      <3>4. in' \in [Peers -> Seq(Half)] /\ in'[Remote] = t
        BY <1>3, <2>7, <2>8, <3>1, <3>2, <3>3, RemoteAssumption, ArriveInPlace
      <3>5. \A i \in 1..Len(t) : taken + i <= 2 * Nr(t[i])
        BY <1>3, <2>7, <2>8, <3>1, <3>2, <3>3, RemoteAssumption, ArriveInPlace
      <3>6. \A m \in Nat :
                Nr(a) >= m /\ (\A i \in 1..Len(in[Remote]) : Nr(in[Remote][i]) >= m)
                    => \A i \in 1..Len(t) : Nr(t[i]) >= m
        BY <1>3, <2>7, <2>8, <3>1, <3>2, <3>3, RemoteAssumption, ArriveInPlace
      <3>7. in[Remote] = <<>> => t[1] = a
        BY <1>3, <2>7, <2>8, <3>1, <3>2, <3>3, RemoteAssumption, ArriveInPlace
      <3>8. in[Remote] # <<>> => t[1] = in[Remote][1]
        BY <1>3, <2>7, <2>8, <3>1, <3>2, <3>3, RemoteAssumption, ArriveInPlace
      <3> QED BY <3>4, <3>5, <3>6, <3>7, <3>8
    <2>10. rest' \in [Peers -> Nat] /\ (rest'[Remote] # 0 => rest'[Remote] = out[2])
      BY <1>3, <1>8, <2>1, <2>4, RemoteAssumption
    <2>11. Written' = Written + 2
      <3>1. Written' = taken' + Len(in'[Remote]) + OnItsWay'
        BY DEF Written
      <3>2. Written' = taken + Len(t) + OnItsWay'
        BY <2>1, <2>9, <3>1
      <3> QED BY <1>6, <2>5, <2>6, <3>2
    <2>12. InInPlace'
      <3>1. rest'[Remote] # 0 => OnItsWay' = 1
        BY <2>6 DEF OnItsWay
      <3>2. rest'[Remote] # 0 => taken + Len(t) + 1 <= 2 * rest'[Remote]
        BY <1>6, <1>8, <2>5, <2>6, <2>10, <3>1, SMTT(20)
      <3> QED BY <2>1, <2>9, <3>2 DEF InInPlace
    <2>13. OutInPlace'
      BY <1>2, <1>9, <1>11, <1>12, <2>11 DEF OutInPlace
    <2>14. Awaiting => Awaiting'
      <3> SUFFICES ASSUME Awaiting PROVE Awaiting'
        OBVIOUS
      <3>1. \A i \in 1..Len(out) : out[i] >= sent + 1
        BY <1>1 DEF Awaiting
      <3>2. Len(stream) + OnItsWay + Len(out) <= 2
        BY <1>1 DEF Awaiting
      <3>3. out[2] >= sent + 1 /\ Len(out) \in Nat
        BY <1>1, <1>4, <3>1
      <3>4. OnItsWay = 0
        BY <2>1 DEF OnItsWay
      <3>5. Len(stream) = 0 /\ Len(out) = 2
        <4>1. Len(out) >= 2 /\ Len(stream) \in Nat /\ Len(out) \in Nat
          BY <1>1, <2>5, <3>3
        <4>2. Len(stream) + Len(out) <= 2
          <5> HIDE DEF stream
          <5> QED BY <3>2, <3>4, <4>1
        <4> DEFINE k == Len(stream)
                   n == Len(out)
        <4>3. k \in Nat /\ n \in Nat /\ n >= 2 /\ k + n <= 2
          BY <4>1, <4>2
        <4> HIDE DEF k, n
        <4>4. k = 0 /\ n = 2
          BY <4>3
        <4> QED BY <4>4 DEF k, n
      <3>6. stream = <<>> /\ Len(out') = 0
        BY <1>3, <1>7, <3>5
      <3>7. sent + 1 \in Nat
        BY <1>6
      <3>8. \A i \in 1..Len(t) : Nr(t[i]) >= sent + 1
        <4>1. \A i \in 1..Len(stream) : Nr(stream[i]) >= sent + 1
          BY <3>5
        <4> QED BY <2>2, <2>9, <3>3, <3>7, <4>1
      <3>9. Begins(t[1])
        BY <2>2, <2>9, <3>6
      <3>10. rest'[Remote] # 0 => rest'[Remote] >= sent + 1 /\ in'[Remote] # <<>>
        <4>1. t # <<>>
          BY <1>3, <2>2, <2>4
        <4> QED BY <2>9, <2>10, <3>3, <4>1
      <3>11. Len(t) + OnItsWay' <= 2 /\ Len(t) + OnItsWay' + Len(out') <= 2
        BY <2>6, <3>5, <3>6
      <3>12. \A i \in 1..Len(out') : out'[i] >= sent + 1
        BY <3>6
      <3> QED BY <1>2, <2>9, <3>8, <3>9, <3>10, <3>11, <3>12 DEF Awaiting
    <2>15. OneAtATime'
      <3>1. ~Idle
        BY <1>1 DEF Idle
      <3> QED BY <1>1, <1>2, <2>1, <2>14, <3>1 DEF InPlace, OneAtATime
    <2> QED BY <1>2, <1>7, <1>10, <2>1, <2>9, <2>10, <2>12, <2>13, <2>15
        DEF InPlace, Typed, HeldInPlace, NeverTooShort
  <1> QED BY <1>13, <1>14 DEF ServerAnswers

LEMMA RestInPlace ==
    ASSUME InPlace, TripProgram, program' = program, RestOfAnswer
    PROVE  InPlace'
  <1> DEFINE n == rest[Remote]
             a == <<Remote, n, 2>>
             stream == in[Remote]
             t == Append(stream, a)
  <1>1. /\ UNCHANGED <<pc, out, times, held, replies, pairs, sent, peer, taken, split>>
        /\ n # 0 /\ rest' = [rest EXCEPT ![Remote] = 0]
        /\ in' = [in EXCEPT ![Remote] = t] /\ peer[Remote] = "up"
    BY DEF RestOfAnswer, RestArrives, tripVars, sendVars, matchVars
  <1>2. Typed /\ InInPlace
    BY DEF InPlace
  <1>3. stream \in Seq(Half) /\ rest \in [Peers -> Nat] /\ in \in [Peers -> Seq(Half)]
    BY RemoteAssumption DEF InPlace, Typed
  <1>4. taken \in Nat /\ sent \in Nat /\ Len(stream) \in Nat /\ n \in Nat
    BY <1>3, RemoteAssumption DEF InPlace, Typed
  <1>5. a \in Half /\ Nr(a) = n
    BY <1>4, RemoteAssumption DEF Half, Nr
  <1> HIDE DEF a
  <1>6. t \in Seq(Half) /\ Len(t) = Len(stream) + 1
    <2> HIDE DEF stream
    <2> QED BY <1>3, <1>5
  <1>7. taken + Len(t) <= 2 * Nr(a)
    <2>1. taken + Len(stream) + 1 <= 2 * n
      BY <1>1, <1>2 DEF InInPlace
    <2> HIDE DEF t, stream, n
    <2> QED BY <1>4, <1>5, <1>6, <2>1
  <1>8. OnItsWay = 1 /\ OnItsWay' = 0 /\ rest' \in [Peers -> Nat] /\ rest'[Remote] = 0
    BY <1>1, <1>3, RemoteAssumption DEF OnItsWay
  <1>9. in' \in [Peers -> Seq(Half)] /\ in'[Remote] = t
    BY <1>1, <1>3, <1>6, RemoteAssumption
  <1>10. \A i \in 1..Len(t) : taken + i <= 2 * Nr(t[i])
    <2>1. t = Append(in[Remote], a)
      OBVIOUS
    <2>2. in' = [in EXCEPT ![Remote] = t]
      BY <1>1
    <2> HIDE DEF t, stream, n
    <2>3. Typed /\ InInPlace /\ a \in Half /\ t \in Seq(Half) /\ taken + Len(t) <= 2 * Nr(a)
      BY <1>2, <1>5, <1>6, <1>7
    <2> QED BY ONLY <2>1, <2>2, <2>3, ArriveInPlace, ZenonT(60)
  <1>11. Awaiting => \A i \in 1..Len(t) : Nr(t[i]) >= sent + 1
    <2>1. t = Append(in[Remote], a) /\ sent + 1 \in Nat
      BY <1>4
    <2>2. Awaiting => Nr(a) >= sent + 1 /\ \A i \in 1..Len(in[Remote]) : Nr(in[Remote][i]) >= sent + 1
      BY <1>1, <1>5 DEF Awaiting
    <2> HIDE DEF t, stream, n
    <2> QED BY <1>1, <1>2, <1>3, <1>5, <1>6, <1>7, <2>1, <2>2, RemoteAssumption, ArriveInPlace
  <1>12. Written' = Written
    <2>1. Written' = taken + Len(t) + OnItsWay' /\ Written = taken + Len(stream) + OnItsWay
      BY <1>1, <1>9 DEF Written
    <2> HIDE DEF t, stream
    <2> QED BY <1>4, <1>6, <1>8, <2>1
  <1>13. InFlight' = InFlight /\ Used' = Used
    BY <1>1 DEF Used, InFlight
  <1>14. OutInPlace' /\ InInPlace' /\ HeldInPlace' /\ TimesInPlace'
    <2>1. InInPlace'
      BY <1>1, <1>8, <1>9, <1>10 DEF InInPlace
    <2>2. OutInPlace'
      BY <1>1, <1>12, <1>13 DEF InPlace, OutInPlace
    <2>3. HeldInPlace' /\ TimesInPlace'
      BY <1>1, <1>13 DEF InPlace, HeldInPlace, TimesInPlace
    <2> QED BY <2>1, <2>2, <2>3
  <1>15. CASE program = "ping" /\ ~split /\ pc["main"] = "recv"
    <2>1. Awaiting
      BY <1>15 DEF InPlace, OneAtATime
    <2>2. Begins(t[1])
      <3>1. in[Remote] # <<>> /\ Begins(in[Remote][1])
        BY <1>1, <2>1 DEF Awaiting
      <3>2. t = Append(in[Remote], a)
        OBVIOUS
      <3> HIDE DEF t, stream, n
      <3>3. t[1] = in[Remote][1]
        BY <1>1, <1>2, <1>3, <1>5, <1>6, <1>7, <3>1, <3>2, RemoteAssumption, ArriveInPlace
      <3> QED BY <3>1, <3>3
    <2>3. Awaiting'
      <3>1. Len(t) + OnItsWay' = Len(stream) + OnItsWay
        BY <1>4, <1>6, <1>8
      <3> HIDE DEF t
      <3> QED BY <1>1, <1>8, <1>9, <1>11, <2>1, <2>2, <3>1 DEF Awaiting
    <2> QED BY <1>1, <1>8, <1>9, <1>14, <1>15, <2>3 DEF InPlace, Typed, OneAtATime, NeverTooShort
  <1>16. CASE ~(program = "ping" /\ ~split /\ pc["main"] = "recv")
    <2>1. ~Idle
      BY <1>1 DEF Idle
    <2>2. OneAtATime'
      BY <1>1, <1>8, <1>16, <2>1 DEF InPlace, OneAtATime
    <2> QED BY <1>1, <1>8, <1>9, <1>14, <2>2 DEF InPlace, Typed, NeverTooShort
  <1> QED BY <1>15, <1>16

LEMMA EndInPlace ==
    ASSUME InPlace, TripProgram, program' = program, ServerEnds
    PROVE  InPlace'
  <1>1. /\ UNCHANGED <<pc, out, times, held, replies, pairs, sent, in, taken, split>>
        /\ rest' = [rest EXCEPT ![Remote] = 0]
    BY DEF ServerEnds, PeerEnds, tripVars, sendVars, matchVars
  <1>2. peer[Remote] = "up" /\ peer' \in [Peers -> {"up", "fin", "err", "closed"}] /\ peer'[Remote] # "up"
    BY RemoteAssumption DEF ServerEnds, PeerEnds, InPlace, Typed
  <1>3. rest' \in [Peers -> Nat] /\ rest'[Remote] = 0 /\ OnItsWay' = 0
    BY <1>1, RemoteAssumption DEF InPlace, Typed, OnItsWay
  <1>4. InFlight' = InFlight /\ Used' = Used
    BY <1>1 DEF Used, InFlight
  <1>5. Written' <= Written /\ Written' \in Nat /\ Written \in Nat
    <2>1. taken \in Nat /\ Len(in[Remote]) \in Nat /\ OnItsWay \in {0, 1}
      BY NumbersTyped DEF InPlace, Typed
    <2>2. Written = taken + Len(in[Remote]) + OnItsWay /\ Written' = taken + Len(in[Remote]) + OnItsWay'
      BY <1>1 DEF Written
    <2> QED BY <1>3, <2>1, <2>2
  <1>6. OutInPlace'
    <2>1. ASSUME NEW i \in 1..Len(out) PROVE Written' + i <= 2 * out[i]
      <3>1. out[i] \in Nat /\ i \in Nat
        BY DEF InPlace, Typed
      <3>2. Written + i <= 2 * out[i]
        BY DEF InPlace, OutInPlace
      <3> QED BY <1>5, <3>1, <3>2
    <2>2. Written' + Len(out) <= 2 * (sent + InFlight)
      <3>1. Written + Len(out) <= 2 * (sent + InFlight)
        BY DEF InPlace, OutInPlace
      <3>2. Len(out) \in Nat /\ sent \in Nat /\ InFlight \in {0, 1}
        BY NumbersTyped DEF InPlace, Typed
      <3> QED BY <1>5, <3>1, <3>2
    <2> QED BY <1>1, <1>4, <2>1, <2>2 DEF OutInPlace
  <1>7. InInPlace' /\ HeldInPlace' /\ TimesInPlace'
    BY <1>1, <1>3, <1>4 DEF InPlace, InInPlace, HeldInPlace, TimesInPlace
  <1>8. (Idle => Idle') /\ (Awaiting => Awaiting')
    <2>1. Idle => Idle'
      BY <1>1, <1>2, <1>3 DEF Idle
    <2>2. Awaiting => Awaiting'
      <3>1. Awaiting => Len(in[Remote]) + OnItsWay' <= 2
        <4>1. Len(in[Remote]) \in Nat /\ OnItsWay \in {0, 1}
          BY NumbersTyped DEF InPlace
        <4>2. Awaiting => Len(in[Remote]) + OnItsWay <= 2
          BY DEF Awaiting
        <4> QED BY <1>3, <4>1, <4>2
      <3> QED BY <1>1, <1>2, <1>3, <3>1 DEF Awaiting
    <2> QED BY <2>1, <2>2
  <1>9. OneAtATime'
    BY <1>1, <1>3, <1>8 DEF InPlace, OneAtATime
  <1> QED BY <1>1, <1>2, <1>3, <1>6, <1>7, <1>9 DEF InPlace, Typed, NeverTooShort

-----------------------------------------------------------------------------
(* Steps that move no message                                              *)

PeerStates == {"up", "fin", "err", "closed"}

\* A thread goes on, and nothing else changes that the invariant is about.
Moves ==
    /\ UNCHANGED <<program, in, rest, taken, split, out, times, held, replies, pairs, sent>>
    /\ UNCHANGED <<failed, ignored, early>>
    /\ peer' \in [Peers -> PeerStates] /\ (peer'[Remote] = "up" => peer[Remote] = "up")
    /\ pc' \in [Threads -> Places]
    /\ InFlight' = InFlight
    /\ pc'["main"] \in BeforeTest => pc["main"] \in BeforeTest

LEMMA MovesInPlace ==
    ASSUME InPlace, program # "ping", Moves
    PROVE  InPlace'
  <1>1. Written' = Written /\ Used' = Used
    BY SameWritten DEF Moves, Used
  <1>2. Typed'
    BY DEF InPlace, Typed, Moves, PeerStates
  <1>3. OutInPlace'
    BY <1>1 DEF InPlace, OutInPlace, Moves
  <1>4. InInPlace' /\ HeldInPlace' /\ TimesInPlace'
    BY <1>1 DEF InPlace, InInPlace, HeldInPlace, TimesInPlace, Moves
  <1>5. OneAtATime' /\ NeverTooShort'
    BY DEF InPlace, OneAtATime, NeverTooShort, Moves
  <1> QED BY <1>2, <1>3, <1>4, <1>5 DEF InPlace

LEMMA RecvEndsPeer ==
    ASSUME Typed, RecvEnds \/ UNCHANGED netVars
    PROVE  /\ UNCHANGED <<in, rest, taken, split>> /\ peer' \in [Peers -> PeerStates]
           /\ peer'[Remote] = "up" => peer[Remote] = "up"
  BY RemoteAssumption DEF RecvEnds, SysRecvError, netVars, Typed, PeerStates

\* Places at which main() has a message in hand, but for simple_latency_test.
InHand == {"lock", "store"}

Goes(t, here, there) ==
    /\ Step(t, here, there)
    /\ t = "main" =>
           /\ here \in InHand <=> there \in InHand
           /\ there \in BeforeTest => here \in BeforeTest

LEMMA GoesMove ==
    ASSUME Typed, program # "ping", program' = program,
           NEW t \in Threads, NEW here \in Places, NEW there \in Places, Goes(t, here, there)
    PROVE  /\ pc' \in [Threads -> Places] /\ InFlight' = InFlight
           /\ pc'["main"] \in BeforeTest => pc["main"] \in BeforeTest
  <1>1. "main" \in Threads
    BY DEF Threads
  <1>2. pc' \in [Threads -> Places]
    BY DEF Goes, Step, Typed
  <1>3. (pc'["main"] \in InHand <=> pc["main"] \in InHand)
            /\ (pc'["main"] \in BeforeTest => pc["main"] \in BeforeTest)
    BY <1>1 DEF Goes, Step, Typed
  <1> QED BY <1>2, <1>3 DEF InFlight, InHand

\* latency_test but for its messages.
LEMMA LatencyMoves ==
    ASSUME InPlace, program = "latency", program' = program,
           \/ LatencyConnect \/ LatencyConnectFails \/ SetConnected \/ ClearStop \/ StartReceiver
           \/ AssignReceiver \/ LatencyNoTest
           \/ CreateMessageAborts \/ LatencyLock \/ LatencyLoopEnds \/ Percentiles
           \/ Disconnect("main") \/ Disconnect("handler") \/ JoinTwice \/ Interrupt
           \/ TestStop \/ LatencyRecvNothing \/ LatencyRecvEnds
    PROVE  InPlace' /\ Moves
  <1>1. UNCHANGED <<out, times, held, replies, pairs, sent, failed, ignored, early>>
    BY DEF LatencyConnect, LatencyConnectFails, SetConnected, ClearStop, StartReceiver, AssignReceiver,
       LatencyNoTest, CreateMessageAborts, LatencyLock, LatencyLoopEnds, Percentiles, Disconnect, ClearFlags,
       JoinReceiver, CloseSocket, ForgetSocket, JoinTwice, Interrupt, TestStop, LatencyRecvNothing,
       LatencyRecvEnds, tripVars, sendVars, matchVars
  <1>2. RecvEnds \/ UNCHANGED netVars
    BY DEF LatencyConnect, LatencyConnectFails, SetConnected, ClearStop, StartReceiver, AssignReceiver,
       LatencyNoTest, CreateMessageAborts, LatencyLock, LatencyLoopEnds, Percentiles, Disconnect, ClearFlags,
       JoinReceiver, CloseSocket, ForgetSocket, JoinTwice, Interrupt, TestStop, LatencyRecvNothing,
       LatencyRecvEnds
  <1>3. \/ StartReceiver \/ JoinTwice
        \/ \E t \in {"main", "handler", "receiver"}, here \in Places, there \in Places :
               Goes(t, here, there)
    <2>1. CASE \/ LatencyConnect \/ LatencyConnectFails \/ SetConnected \/ ClearStop
              \/ AssignReceiver \/ LatencyNoTest
      BY <2>1 DEF LatencyConnect, LatencyConnectFails, SetConnected, ClearStop, AssignReceiver,
         LatencyNoTest, MainStep, Goes, InHand, BeforeTest, Places
    <2>2. CASE CreateMessageAborts \/ LatencyLock \/ LatencyLoopEnds \/ Percentiles
      BY <2>2 DEF CreateMessageAborts, LatencyLock, LatencyLoopEnds, Percentiles,
         MainStep, Goes, InHand, BeforeTest, Places
    <2>3. CASE Disconnect("main")
      BY <2>3 DEF Disconnect, ClearFlags, JoinReceiver, CloseSocket, ForgetSocket, DisconnectStep,
         MainStep, Goes, InHand, BeforeTest, Places
    <2>4. CASE Disconnect("handler")
      BY <2>4 DEF Disconnect, ClearFlags, JoinReceiver, CloseSocket, ForgetSocket, DisconnectStep,
         MainStep, Goes, InHand, BeforeTest, Places
    <2>5. CASE Interrupt \/ TestStop \/ LatencyRecvNothing \/ LatencyRecvEnds
      BY <2>5 DEF Interrupt, TestStop, LatencyRecvNothing, LatencyRecvEnds, Goes, Places
    <2> QED BY <2>1, <2>2, <2>3, <2>4, <2>5
  <1>4. Typed /\ {"main", "handler", "receiver"} \subseteq Threads
    BY DEF InPlace, Threads
  <1>5. /\ pc' \in [Threads -> Places] /\ InFlight' = InFlight
        /\ pc'["main"] \in BeforeTest => pc["main"] \in BeforeTest
    <2>1. CASE StartReceiver
      BY <1>4, <2>1 DEF Typed, StartReceiver, InFlight, BeforeTest, Places
    <2>2. CASE JoinTwice
      BY <1>4, <2>2 DEF Typed, JoinTwice, InFlight, BeforeTest, Places
    <2>3. CASE \E t \in {"main", "handler", "receiver"}, here \in Places, there \in Places :
                   Goes(t, here, there)
      BY <1>4, <2>3, GoesMove
    <2> QED BY <1>3, <2>1, <2>2, <2>3
  <1> QED BY <1>1, <1>2, <1>4, <1>5, RecvEndsPeer, MovesInPlace DEF Moves

\* hft_latency_test_100k but for its messages.
LEMMA BurstMoves ==
    ASSUME InPlace, program = "burst", program' = program,
           ConnectFails \/ Connect \/ BurstSent \/ BurstReceived \/ CloseAndExit
    PROVE  InPlace' /\ Moves
  <1>1. UNCHANGED <<out, times, held, replies, pairs, sent, failed, ignored, early>>
    BY DEF ConnectFails, Connect, BurstSent, BurstReceived, CloseAndExit, tripVars, sendVars, matchVars
  <1>2. RecvEnds \/ UNCHANGED netVars
    BY DEF ConnectFails, Connect, BurstSent, BurstReceived, CloseAndExit
  <1>3. \E here \in Places, there \in Places : Goes("main", here, there)
    BY DEF ConnectFails, Connect, BurstSent, BurstReceived, CloseAndExit, Goes, InHand, BeforeTest, Places
  <1>4. Typed /\ "main" \in Threads
    BY DEF InPlace, Threads
  <1> QED BY <1>1, <1>2, <1>3, <1>4, RecvEndsPeer, GoesMove, MovesInPlace DEF Moves

\* The simple client but for its messages.
LEMMA SimpleMoves ==
    ASSUME InPlace, program = "simple", program' = program,
           \/ SimpleConnect \/ SimpleDisconnect \/ SimpleClose \/ SimpleJoin
           \/ ReadErrors("main") \/ WriteErrors("main")
           \/ ReadErrors("receiver") \/ WriteErrors("receiver")
           \/ TestState \/ SimpleRecvNothing \/ SimpleRecvEof \/ SimpleRecvFails
    PROVE  InPlace' /\ Moves
  <1>1. UNCHANGED <<out, times, held, replies, pairs, sent, failed, ignored, early>>
    BY DEF SimpleConnect, SimpleDisconnect, SimpleClose, SimpleJoin, ReadErrors, WriteErrors, TestState,
       SimpleRecvNothing, SimpleRecvEof, SimpleRecvFails, tripVars, sendVars, matchVars
  <1>2. RecvEnds \/ UNCHANGED netVars
    BY DEF SimpleConnect, SimpleDisconnect, SimpleClose, SimpleJoin, ReadErrors, WriteErrors, TestState,
       SimpleRecvNothing, SimpleRecvEof, SimpleRecvFails, RecvEnds
  <1>3. Typed /\ {"main", "receiver"} \subseteq Threads
    BY DEF InPlace, Threads
  <1>4. \/ SimpleConnect
        \/ \E t \in {"main", "receiver"}, here \in Places, there \in Places : Goes(t, here, there)
    BY DEF SimpleDisconnect, SimpleClose, SimpleJoin, ReadErrors, WriteErrors, TestState,
       SimpleRecvNothing, SimpleRecvEof, SimpleRecvFails, Goes, InHand, BeforeTest, Places
  <1>5. /\ pc' \in [Threads -> Places] /\ InFlight' = InFlight
        /\ pc'["main"] \in BeforeTest => pc["main"] \in BeforeTest
    <2>1. CASE SimpleConnect
      BY <1>3, <2>1 DEF Typed, SimpleConnect, InFlight, BeforeTest, Places
    <2>2. CASE \E t \in {"main", "receiver"}, here \in Places, there \in Places : Goes(t, here, there)
      BY <1>3, <2>2, GoesMove
    <2> QED BY <1>4, <2>1, <2>2
  <1> QED BY <1>1, <1>2, <1>3, <1>5, RecvEndsPeer, MovesInPlace DEF Moves

-----------------------------------------------------------------------------
(* Sending                                                                 *)

\* A message is sent, or not, and counted as sent or in hand.
LEMMA SentInPlace ==
    ASSUME InPlace, InFlight = 0, sent' \in Nat, sent' + InFlight' = sent + 1,
           UNCHANGED <<in, rest, taken>>,
           out' = out \/ \E k \in Outcomes : SysSend(sent + 1, k)
    PROVE  out' \in Seq(Nat) /\ OutInPlace'
  <1>1. Typed /\ OutInPlace /\ sent \in Nat /\ Len(out) \in Nat /\ Written \in Nat
    BY NumbersTyped DEF InPlace, Typed
  <1>2. Written' = Written
    BY SameWritten
  <1>3. CASE out' = out
    <2>1. Written + Len(out) <= 2 * sent
      BY <1>1 DEF OutInPlace
    <2>2. Written + Len(out) <= 2 * (sent + 1)
      BY <1>1, <2>1
    <2> QED BY <1>1, <1>2, <1>3, <2>2 DEF OutInPlace, Typed
  <1>4. CASE \E k \in Outcomes : SysSend(sent + 1, k)
    BY <1>1, <1>2, <1>4, SendKeepsPlaces DEF OutInPlace
  <1> QED BY <1>3, <1>4

\* The time of the message just sent is stored.
LEMMA AppendTime ==
    ASSUME TimesInPlace, Typed, program \in {"latency", "burst"}, program' = program, Used' = Used,
           times' = Append(times, sent + 1), sent' = sent + 1, pc'["main"] \notin BeforeTest
    PROVE  TimesInPlace' /\ times' \in Seq(Nat)
  <1>1. sent \in Nat /\ times \in Seq(Nat) /\ Len(times) \in Nat /\ Used \in Nat
    BY NumbersTyped DEF Typed
  <1>2. /\ times' \in Seq(Nat) /\ Len(times') = Len(times) + 1
        /\ \A i \in 1..Len(times) : times'[i] = times[i]
        /\ times'[Len(times) + 1] = sent + 1
    BY <1>1
  <1>3. sent <= Used + Len(times)
    BY DEF TimesInPlace
  <1>4. ASSUME NEW i \in 1..Len(times') PROVE times'[i] <= Used + i
    <2>1. CASE i \in 1..Len(times)
      BY <1>2, <2>1 DEF TimesInPlace
    <2>2. CASE i = Len(times) + 1
      <3>1. sent + 1 <= Used + (Len(times) + 1)
        BY <1>1, <1>3
      <3> QED BY <1>2, <2>2, <3>1
    <2> QED BY <1>1, <1>2, <2>1, <2>2
  <1>5. sent' <= Used + Len(times')
    BY <1>1, <1>2, <1>3
  <1> QED BY <1>2, <1>4, <1>5 DEF TimesInPlace

LEMMA LatencySendInPlace ==
    ASSUME InPlace, program = "latency", program' = program, LatencySend
    PROVE  InPlace'
  <1>1. UNCHANGED <<in, rest, peer, taken, split, times, held, replies, pairs, sent>>
    BY DEF LatencySend, netVars, matchVars
  <1>2. pc' \in [Threads -> Places] /\ InFlight = 0 /\ InFlight' = 1 /\ pc'["main"] = "lock"
    BY DEF LatencySend, MainStep, Step, InFlight, InPlace, Typed, Threads, Places
  <1>3. out' = out \/ \E k \in Outcomes : SysSend(sent + 1, k)
    BY DEF LatencySend, Outcomes
  <1>4. sent \in Nat
    BY DEF InPlace, Typed
  <1>5. out' \in Seq(Nat) /\ OutInPlace'
    BY <1>1, <1>2, <1>3, <1>4, SentInPlace
  <1>6. InInPlace' /\ HeldInPlace' /\ TimesInPlace' /\ OneAtATime' /\ NeverTooShort'
    BY <1>1, <1>2 DEF InPlace, InInPlace, HeldInPlace, TimesInPlace, OneAtATime, NeverTooShort,
       Used, BeforeTest
  <1> QED BY <1>1, <1>2, <1>5, <1>6 DEF InPlace, Typed

LEMMA BurstSendInPlace ==
    ASSUME InPlace, program = "burst", program' = program, BurstSend
    PROVE  InPlace'
  <1>1. /\ UNCHANGED <<pc, in, rest, peer, taken, split, held, replies, pairs>>
        /\ times' = Append(times, sent + 1) /\ sent' = sent + 1 /\ pc["main"] = "send"
    BY DEF BurstSend, netVars
  <1>2. InFlight = 0 /\ InFlight' = 0
    BY <1>1 DEF InFlight
  <1>3. \E k \in Outcomes : SysSend(sent + 1, k)
    BY DEF BurstSend
  <1>4. sent \in Nat /\ times \in Seq(Nat) /\ Len(times) \in Nat
    BY DEF InPlace, Typed
  <1>5. out' \in Seq(Nat) /\ OutInPlace'
    BY <1>1, <1>2, <1>3, <1>4, SentInPlace
  <1>6. TimesInPlace' /\ times' \in Seq(Nat)
    BY <1>1, AppendTime DEF InPlace, Used, BeforeTest
  <1>7. InInPlace' /\ HeldInPlace' /\ OneAtATime' /\ NeverTooShort'
    BY <1>1, <1>2 DEF InPlace, InInPlace, HeldInPlace, OneAtATime, NeverTooShort
  <1> QED BY <1>1, <1>4, <1>5, <1>6, <1>7 DEF InPlace, Typed

LEMMA SimpleSendInPlace ==
    ASSUME InPlace, program = "simple", program' = program, SimpleSend
    PROVE  InPlace'
  <1>1. UNCHANGED <<in, rest, peer, taken, split, times, held, replies, pairs>> /\ sent' = sent + 1
    BY DEF SimpleSend, netVars, matchVars
  <1>2. pc' \in [Threads -> Places] /\ InFlight = 0 /\ InFlight' = 0
    BY DEF SimpleSend, InFlight, InPlace, Typed, Threads, Places
  <1>3. \E k \in Outcomes : SysSend(sent + 1, k)
    BY DEF SimpleSend
  <1>4. sent \in Nat
    BY DEF InPlace, Typed
  <1>5. out' \in Seq(Nat) /\ OutInPlace'
    BY <1>1, <1>2, <1>3, <1>4, SentInPlace
  <1>6. InInPlace' /\ HeldInPlace' /\ TimesInPlace' /\ OneAtATime' /\ NeverTooShort'
    BY <1>1, <1>2 DEF InPlace, InInPlace, HeldInPlace, TimesInPlace, OneAtATime, NeverTooShort, Used
  <1> QED BY <1>1, <1>2, <1>4, <1>5, <1>6 DEF InPlace, Typed

LEMMA StoreInPlace ==
    ASSUME InPlace, program = "latency", program' = program, StoreSendTime
    PROVE  InPlace'
  <1>1. /\ UNCHANGED <<in, rest, peer, taken, split, out, held, replies, pairs>>
        /\ times' = Append(times, sent + 1) /\ sent' = sent + 1
    BY DEF StoreSendTime, netVars
  <1>2. pc' \in [Threads -> Places] /\ InFlight = 1 /\ InFlight' = 0 /\ pc'["main"] = "send"
    BY DEF StoreSendTime, MainStep, Step, InFlight, InPlace, Typed, Threads, Places
  <1>3. sent \in Nat
    BY DEF InPlace, Typed
  <1>4. Used' = Used /\ Written' = Written
    BY <1>1, SameWritten DEF Used
  <1>5. TimesInPlace' /\ times' \in Seq(Nat)
    BY <1>1, <1>2, <1>4, AppendTime DEF InPlace, BeforeTest
  <1>6. OutInPlace'
    <2>1. sent' + InFlight' = sent + InFlight
      BY <1>1, <1>2, <1>3
    <2> QED BY <1>1, <1>4, <2>1 DEF InPlace, OutInPlace
  <1>7. InInPlace' /\ HeldInPlace' /\ OneAtATime' /\ NeverTooShort'
    BY <1>1, <1>2 DEF InPlace, InInPlace, HeldInPlace, OneAtATime, NeverTooShort
  <1> QED BY <1>1, <1>2, <1>3, <1>5, <1>6, <1>7 DEF InPlace, Typed

\* Before the tests of latency_test nothing has been sent.
LEMMA NothingSent ==
    ASSUME InPlace, program = "latency", pc["main"] \in BeforeTest
    PROVE  Written = 0 /\ Len(out) = 0 /\ taken = 0 /\ held = <<>> /\ replies = 0 /\ sent = 0 /\ InFlight = 0
  <1>1. sent = 0 /\ InFlight = 0
    BY DEF InPlace, TimesInPlace, BeforeTest, InFlight
  <1>2. Written + Len(out) <= 0
    BY <1>1 DEF InPlace, OutInPlace
  <1>3. Written \in Nat /\ Len(out) \in Nat /\ taken \in Nat /\ Len(in[Remote]) \in Nat
        /\ OnItsWay \in {0, 1} /\ Len(held) \in Nat /\ replies \in Nat
    BY NumbersTyped DEF InPlace, Typed
  <1>4. Written = 0 /\ Len(out) = 0
    <2> DEFINE n == Len(out)
    <2>1. n \in Nat /\ Written + n <= 0
      BY <1>2, <1>3
    <2> HIDE DEF n
    <2>2. Written = 0 /\ n = 0
      BY <1>3, <2>1
    <2> QED BY <2>2 DEF n
  <1>5. taken = 0
    <2>1. taken + Len(in[Remote]) + OnItsWay = 0
      BY <1>4 DEF Written
    <2> DEFINE n == Len(in[Remote])
    <2> HIDE DEF n
    <2> QED BY <1>3, <2>1 DEF n
  <1>6. 2 * replies + Len(held) <= 0
    BY <1>5 DEF InPlace, HeldInPlace
  <1>7. Len(held) = 0 /\ replies = 0
    <2> DEFINE n == Len(held)
    <2>1. n \in Nat /\ 2 * replies + n <= 0
      BY <1>3, <1>6
    <2> HIDE DEF n
    <2>2. n = 0 /\ replies = 0
      BY <1>3, <2>1
    <2> QED BY <2>2 DEF n
  <1>8. held = <<>>
    BY <1>7 DEF InPlace, Typed
  <1> QED BY <1>1, <1>4, <1>5, <1>7, <1>8

\* A test starts before anything is sent, with its counters ...
LEMMA ResetInPlace ==
    ASSUME InPlace, program = "latency", program' = program, LatencyReset
    PROVE  InPlace'
  <1>1. /\ UNCHANGED <<in, rest, peer, taken, split, out, times, held, pairs, sent>>
        /\ replies' = 0 /\ pc["main"] = "reset"
    BY DEF LatencyReset, MainStep, Step, netVars, sendVars
  <1>2. pc' \in [Threads -> Places] /\ pc'["main"] = "wipe"
    BY DEF LatencyReset, MainStep, Step, InPlace, Typed, Threads, Places
  <1>3. replies = 0 /\ InFlight = 0
    BY <1>1, NothingSent DEF BeforeTest
  <1>4. replies' = replies /\ Used' = Used /\ Written' = Written /\ InFlight' = InFlight
    BY <1>1, <1>2, <1>3, SameWritten DEF Used, InFlight
  <1>5. OutInPlace' /\ InInPlace' /\ HeldInPlace' /\ OneAtATime' /\ NeverTooShort'
    BY <1>1, <1>4 DEF InPlace, OutInPlace, InInPlace, HeldInPlace, OneAtATime, NeverTooShort
  <1>6. TimesInPlace'
    BY <1>1, <1>2, <1>4 DEF InPlace, TimesInPlace, BeforeTest
  <1> QED BY <1>1, <1>2, <1>4, <1>5, <1>6 DEF InPlace, Typed

\* ... and its send times.
LEMMA ClearTimesInPlace ==
    ASSUME InPlace, program = "latency", program' = program, ClearTimes
    PROVE  InPlace'
  <1>1. /\ UNCHANGED <<in, rest, peer, taken, split, out, held, replies, pairs, sent>>
        /\ times' = <<>> /\ pc["main"] = "wiped"
    BY DEF ClearTimes, MainStep, Step, netVars, sendVars
  <1>2. pc' \in [Threads -> Places] /\ pc'["main"] = "send"
    BY DEF ClearTimes, MainStep, Step, InPlace, Typed, Threads, Places
  <1>3. sent = 0 /\ replies = 0 /\ InFlight = 0
    BY <1>1, NothingSent DEF BeforeTest
  <1>4. Used' = 0 /\ Written' = Written /\ InFlight' = InFlight
    BY <1>1, <1>2, <1>3, SameWritten DEF Used, InFlight
  <1>5. times' \in Seq(Nat) /\ TimesInPlace'
    BY <1>1, <1>2, <1>3, <1>4 DEF TimesInPlace, BeforeTest
  <1>6. OutInPlace' /\ InInPlace' /\ HeldInPlace' /\ OneAtATime' /\ NeverTooShort'
    BY <1>1, <1>4 DEF InPlace, OutInPlace, InInPlace, HeldInPlace, OneAtATime, NeverTooShort
  <1> QED BY <1>1, <1>2, <1>5, <1>6 DEF InPlace, Typed

-----------------------------------------------------------------------------
(* Receiving                                                               *)

LEMMA LatencyRecvInPlace ==
    ASSUME InPlace, program = "latency", program' = program, LatencyRecv
    PROVE  InPlace'
  <1> DEFINE a == Available(Remote, ReplyHalves)
             data == Received(Remote, ReplyHalves)
  <1>1. /\ UNCHANGED <<out, times, replies, pairs, sent>> /\ held' = data
        /\ SysRecv(Remote, ReplyHalves)
    BY DEF LatencyRecv, sendVars
  <1>2. pc' \in [Threads -> Places] /\ pc'["main"] = pc["main"]
    BY DEF LatencyRecv, Step, InPlace, Typed, Threads, Places
  <1>3. /\ a \in 0..Len(in[Remote])
        /\ in' \in [Peers -> Seq(Half)] /\ rest' = rest /\ peer' = peer
        /\ taken' = taken + a /\ taken' \in Nat /\ Written' = Written
        /\ data \in Seq(Half) /\ Len(data) = a
        /\ \A i \in 1..a : taken + i <= 2 * Nr(data[i])
        /\ InInPlace'
    BY <1>1, RecvKeepsPlaces, ReplyAssumption DEF InPlace
  <1>4. InFlight' = InFlight /\ Used' = Used
    BY <1>1, <1>2 DEF Used, InFlight
  <1> HIDE DEF a, data
  <1>5. HeldInPlace'
    <2>1. taken \in Nat /\ replies \in Nat /\ Len(held) \in Nat /\ 2 * replies + Len(held) <= taken
      BY NumbersTyped DEF InPlace, HeldInPlace, Typed
    <2>2. taken' - Len(held') = taken /\ 2 * replies + Len(held') <= taken'
      BY <1>1, <1>3, <2>1
    <2>3. \A i \in 1..Len(held') : taken' - Len(held') + i <= 2 * Nr(held'[i])
      BY <1>1, <1>3, <2>2
    <2> QED BY <1>1, <2>2, <2>3 DEF HeldInPlace
  <1>6. OutInPlace' /\ TimesInPlace' /\ OneAtATime' /\ NeverTooShort'
    BY <1>1, <1>2, <1>3, <1>4 DEF InPlace, OutInPlace, TimesInPlace, OneAtATime, NeverTooShort
  <1> QED BY <1>1, <1>2, <1>3, <1>5, <1>6 DEF InPlace, Typed

\* Half a message that is left is dropped.
LEMMA MatchNoMoreInPlace ==
    ASSUME InPlace, program = "latency", program' = program, MatchNoMore
    PROVE  InPlace'
  <1>1. UNCHANGED <<in, rest, peer, taken, split, out, times, replies, pairs, sent>> /\ held' = <<>>
    BY DEF MatchNoMore, netVars, sendVars
  <1>2. pc' \in [Threads -> Places] /\ pc'["main"] = pc["main"]
    BY DEF MatchNoMore, Step, InPlace, Typed, Threads, Places
  <1>3. InFlight' = InFlight /\ Used' = Used /\ Written' = Written
    BY <1>1, <1>2, SameWritten DEF Used, InFlight
  <1>4. HeldInPlace'
    <2>1. taken \in Nat /\ replies \in Nat /\ Len(held) \in Nat /\ 2 * replies + Len(held) <= taken
      BY NumbersTyped DEF InPlace, HeldInPlace, Typed
    <2>2. 2 * replies + 0 <= taken
      BY <2>1
    <2> QED BY <1>1, <2>2 DEF HeldInPlace
  <1>5. OutInPlace' /\ InInPlace' /\ TimesInPlace' /\ OneAtATime' /\ NeverTooShort'
    BY <1>1, <1>2, <1>3 DEF InPlace, OutInPlace, InInPlace, TimesInPlace, OneAtATime, NeverTooShort
  <1> QED BY <1>1, <1>2, <1>4, <1>5 DEF InPlace, Typed

\* A whole message ends no earlier than its place, and takes the first time.
LEMMA MatchInPlace ==
    ASSUME InPlace, program = "latency", program' = program, Match
    PROVE  InPlace'
  <1>1. /\ UNCHANGED <<in, rest, peer, taken, split, out, sent>>
        /\ Len(held) >= 2 /\ held' = SubSeq(held, 3, Len(held)) /\ replies' = replies + 1
        /\ times' = IF times = <<>> THEN times ELSE Tail(times)
    BY DEF Match, netVars, sendVars
  <1>2. pc' \in [Threads -> Places] /\ pc'["main"] = pc["main"]
    BY DEF Match, Step, InPlace, Typed, Threads, Places
  <1>3. InFlight' = InFlight /\ Written' = Written /\ Used' = Used + 1 /\ Used = replies
    BY <1>1, <1>2, SameWritten DEF Used, InFlight
  <1>4. /\ taken \in Nat /\ replies \in Nat /\ held \in Seq(Half) /\ Len(held) \in Nat
        /\ times \in Seq(Nat) /\ Len(times) \in Nat
    BY DEF InPlace, Typed
  <1>5. 2 * replies + Len(held) <= taken
    BY DEF InPlace, HeldInPlace
  <1>6. /\ held' \in Seq(Half) /\ Len(held') = Len(held) - 2
        /\ \A i \in 1..(Len(held) - 2) : held'[i] = held[i + 2]
    BY <1>1, <1>4, DropTwo
  <1>7. HeldInPlace'
    <2>1. ASSUME NEW i \in 1..Len(held') PROVE taken - Len(held') + i <= 2 * Nr(held'[i])
      <3>1. i \in 1..(Len(held) - 2) /\ i + 2 \in 1..Len(held)
        BY <1>4, <1>6
      <3>2. taken - Len(held) + (i + 2) <= 2 * Nr(held[i + 2])
        BY <3>1 DEF InPlace, HeldInPlace
      <3>3. taken - Len(held') + i = taken - Len(held) + (i + 2)
        BY <1>4, <1>6, <3>1
      <3> QED BY <1>6, <3>1, <3>2, <3>3
    <2>2. 2 * replies' + Len(held') <= taken
      <3>1. Len(held') = Len(held) - 2 /\ replies' = replies + 1
        BY <1>1, <1>6
      <3> QED BY <1>4, <1>5, <3>1
    <2> QED BY <1>1, <2>1, <2>2 DEF HeldInPlace
  <1>8. times' \in Seq(Nat) /\ TimesInPlace'
    <2>1. sent <= Used + Len(times) /\ (pc["main"] \in BeforeTest => sent = 0) /\ sent \in Nat
      BY DEF InPlace, TimesInPlace, Typed
    <2>2. CASE times = <<>>
      <3>1. sent <= Used' + Len(times')
        BY <1>1, <1>3, <1>4, <2>1, <2>2
      <3> QED BY <1>1, <1>2, <1>4, <2>1, <2>2, <3>1 DEF TimesInPlace
    <2>3. CASE times # <<>>
      <3>1. /\ times' \in Seq(Nat) /\ Len(times') = Len(times) - 1
            /\ \A i \in 1..(Len(times) - 1) : times'[i] = times[i + 1]
        BY <1>1, <1>4, <2>3
      <3>2. ASSUME NEW i \in 1..Len(times') PROVE times'[i] <= Used' + i
        <4>1. i \in 1..(Len(times) - 1) /\ i + 1 \in 1..Len(times) /\ Used' + i = Used + (i + 1)
          BY <1>3, <1>4, <3>1
        <4> QED BY <3>1, <4>1 DEF InPlace, TimesInPlace
      <3>3. sent <= Used' + Len(times')
        BY <1>3, <1>4, <2>1, <3>1
      <3> QED BY <1>1, <1>2, <2>1, <3>1, <3>2, <3>3 DEF TimesInPlace
    <2> QED BY <2>2, <2>3
  <1>9. NeverTooShort'
    <2>1. CASE times = <<>>
      <3>1. pairs' = pairs
        BY <2>1 DEF Match
      <3> QED BY <1>1, <3>1 DEF InPlace, NeverTooShort
    <2>2. CASE times # <<>>
      <3>1. pairs' = pairs \cup {<<Nr(held[2]), times[1]>>}
        BY <1>4, <2>2 DEF Match, ReplyNr, Nr
      <3>2. Nr(held[2]) \in Nat /\ taken - Len(held) + 2 <= 2 * Nr(held[2])
        <4>1. 2 \in 1..Len(held)
          BY <1>1, <1>4
        <4> QED BY <1>4, <4>1 DEF InPlace, HeldInPlace, Nr, Half
      <3>3. replies + 1 <= Nr(held[2])
        BY <1>4, <1>5, <3>2
      <3>4. times[1] <= replies + 1 /\ times[1] \in Nat
        <4>1. 1 \in 1..Len(times)
          BY <1>4, <2>2
        <4> QED BY <1>3, <1>4, <4>1 DEF InPlace, TimesInPlace
      <3>5. Nr(held[2]) >= times[1]
        BY <1>4, <3>2, <3>3, <3>4
      <3> QED BY <3>1, <3>5 DEF InPlace, NeverTooShort
    <2> QED BY <2>1, <2>2
  <1>10. OutInPlace' /\ InInPlace' /\ OneAtATime'
    BY <1>1, <1>2, <1>3 DEF InPlace, OutInPlace, InInPlace, OneAtATime
  <1> QED BY <1>1, <1>2, <1>4, <1>6, <1>7, <1>8, <1>9, <1>10 DEF InPlace, Typed

LEMMA Halved ==
    ASSUME NEW n \in Nat
    PROVE  n \div 2 \in Nat /\ 2 * (n \div 2) <= n
  OBVIOUS

LEMMA BurstRecvInPlace ==
    ASSUME InPlace, program = "burst", program' = program, BurstRecv
    PROVE  InPlace'
  <1> DEFINE a == Available(Remote, ReplyHalves)
             data == Received(Remote, ReplyHalves)
             room == Len(times) - replies
             whole == IF a \div 2 < room THEN a \div 2 ELSE room
  <1>1. UNCHANGED <<pc, out, times, held, sent>> /\ SysRecv(Remote, ReplyHalves) /\ replies < Len(times)
    BY DEF BurstRecv, sendVars
  <1>2. /\ a \in 0..Len(in[Remote])
        /\ in' \in [Peers -> Seq(Half)] /\ rest' = rest /\ peer' = peer
        /\ taken' = taken + a /\ taken' \in Nat /\ Written' = Written
        /\ data \in Seq(Half) /\ Len(data) = a
        /\ \A i \in 1..a : taken + i <= 2 * Nr(data[i])
        /\ InInPlace'
    BY <1>1, RecvKeepsPlaces, ReplyAssumption DEF InPlace
  <1>3. /\ pairs' = pairs \cup {<<Nr(data[2 * k]), times[replies + k]>> : k \in 1..whole}
        /\ replies' = replies + whole
    BY <1>2 DEF BurstRecv, ReplyNr, Nr
  <1>4. taken \in Nat /\ replies \in Nat /\ held = <<>> /\ 2 * replies <= taken /\ Len(times) \in Nat
        /\ times \in Seq(Nat)
    BY DEF InPlace, HeldInPlace, Typed
  <1>5. InFlight' = InFlight /\ Used' = Used /\ Used = 0
    BY <1>1 DEF Used, InFlight
  <1> HIDE DEF a, data
  <1>6. whole \in Nat /\ 2 * whole <= a /\ replies + whole <= Len(times)
    <2>1. a \in Nat
      BY <1>2
    <2> QED BY <1>1, <1>4, <2>1, Halved
  <1> HIDE DEF whole
  <1>7. HeldInPlace'
    <2>1. 2 * replies' + 0 <= taken' /\ held' = <<>>
      BY <1>1, <1>2, <1>3, <1>4, <1>6
    <2> QED BY <2>1 DEF HeldInPlace
  <1>8. ASSUME NEW k \in 1..whole PROVE Nr(data[2 * k]) >= times[replies + k]
    <2>1. 2 * k \in 1..a /\ replies + k \in 1..Len(times)
      BY <1>2, <1>4, <1>6
    <2>2. taken + 2 * k <= 2 * Nr(data[2 * k]) /\ Nr(data[2 * k]) \in Nat
      BY <1>2, <2>1 DEF Nr, Half
    <2>3. times[replies + k] <= replies + k /\ times[replies + k] \in Nat
      <3>1. times[replies + k] <= Used + (replies + k)
        BY <2>1 DEF InPlace, TimesInPlace
      <3> QED BY <1>4, <1>5, <2>1, <3>1
    <2> QED BY <1>4, <2>2, <2>3
  <1>9. NeverTooShort'
    BY <1>3, <1>8 DEF InPlace, NeverTooShort
  <1>10. OutInPlace' /\ TimesInPlace' /\ OneAtATime'
    BY <1>1, <1>2, <1>5 DEF InPlace, OutInPlace, TimesInPlace, OneAtATime
  <1> QED BY <1>1, <1>2, <1>3, <1>4, <1>6, <1>7, <1>9, <1>10, SMTT(20) DEF InPlace, Typed

LEMMA SimpleRecvInPlace ==
    ASSUME InPlace, program = "simple", program' = program, SimpleRecv
    PROVE  InPlace'
  <1> DEFINE a == Available(Remote, ReplyHalves)
  <1>1. /\ UNCHANGED <<out, times, held, pairs, sent>> /\ SysRecv(Remote, ReplyHalves)
        /\ replies' = replies + a \div 2
    BY DEF SimpleRecv, sendVars
  <1>2. pc' \in [Threads -> Places] /\ pc'["main"] = pc["main"]
    BY DEF SimpleRecv, Step, InPlace, Typed, Threads, Places
  <1>3. /\ a \in 0..Len(in[Remote])
        /\ in' \in [Peers -> Seq(Half)] /\ rest' = rest /\ peer' = peer
        /\ taken' = taken + a /\ taken' \in Nat /\ Written' = Written
        /\ InInPlace'
    BY <1>1, RecvKeepsPlaces, ReplyAssumption DEF InPlace
  <1>4. taken \in Nat /\ replies \in Nat /\ held = <<>> /\ 2 * replies <= taken
    BY DEF InPlace, HeldInPlace, Typed
  <1>5. InFlight' = InFlight /\ Used' = Used
    BY <1>1, <1>2 DEF Used, InFlight
  <1> HIDE DEF a
  <1>6. HeldInPlace' /\ replies' \in Nat
    <2>1. a \in Nat
      BY <1>3
    <2>2. replies' \in Nat /\ 2 * replies' + 0 <= taken' /\ held' = <<>>
      BY <1>1, <1>3, <1>4, <2>1, Halved
    <2> QED BY <2>2 DEF HeldInPlace
  <1>7. OutInPlace' /\ TimesInPlace' /\ OneAtATime' /\ NeverTooShort'
    BY <1>1, <1>2, <1>3, <1>5 DEF InPlace, OutInPlace, TimesInPlace, OneAtATime, NeverTooShort
  <1> QED BY <1>1, <1>2, <1>3, <1>6, <1>7 DEF InPlace, Typed

-----------------------------------------------------------------------------
(* simple_latency_test                                                     *)

\* Its steps outside send() and recv().
LEMMA PingMoves ==
    ASSUME InPlace, program = "ping", program' = program,
           ConnectFails \/ Connect \/ PingSent \/ CloseAndExit
    PROVE  InPlace' /\ Moves
  <1>1. UNCHANGED <<in, rest, peer, taken, split, out, times, held, replies, pairs, sent,
                    failed, ignored, early>>
    BY DEF ConnectFails, Connect, PingSent, CloseAndExit, netVars, tripVars, sendVars, matchVars
  <1>2. /\ pc' \in [Threads -> Places]
        /\ \/ pc["main"] = "connect" /\ pc'["main"] = "send"
           \/ pc["main"] \in {"connect", "send", "close"} /\ pc'["main"] \in {"close", "over"}
    BY DEF ConnectFails, Connect, PingSent, CloseAndExit, Step, InPlace, Typed, Threads, Places
  <1>3. InFlight' = InFlight /\ Used' = Used /\ Written' = Written
    BY <1>1, <1>2, SameWritten DEF InFlight, Used
  <1>4. Idle => Idle'
    BY <1>1 DEF Idle
  <1>5. OneAtATime'
    BY <1>1, <1>2, <1>4 DEF InPlace, OneAtATime
  <1>6. OutInPlace' /\ InInPlace' /\ HeldInPlace' /\ TimesInPlace' /\ NeverTooShort'
    BY <1>1, <1>3 DEF InPlace, OutInPlace, InInPlace, HeldInPlace, TimesInPlace, NeverTooShort
  <1>7. InPlace'
    BY <1>1, <1>2, <1>5, <1>6 DEF InPlace, Typed
  <1>8. Moves
    BY <1>1, <1>2, <1>3 DEF InPlace, Typed, Moves, PeerStates, BeforeTest
  <1> QED BY <1>7, <1>8

LEMMA JustOne ==
    ASSUME NEW n \in Nat, n # 0, n < 2
    PROVE  n = 1
  OBVIOUS

LEMMA JustTwo ==
    ASSUME NEW n \in Nat, NEW r \in {0, 1}, n >= 2, n + r <= 2
    PROVE  n = 2 /\ r = 0
  OBVIOUS

LEMMA PingSendInPlace ==
    ASSUME InPlace, program = "ping", program' = program, PingSend
    PROVE  InPlace'
  <1>1. UNCHANGED <<in, rest, peer, taken, split, times, held, replies, pairs>> /\ pc["main"] = "send"
    BY DEF PingSend, netVars, matchVars
  <1>2. PICK k \in {2, 0} :
            /\ k = 2 \/ peer[Remote] # "up"
            /\ SysSend(sent + 1, k)
            /\ pc' = [pc EXCEPT !["main"] = IF k = 2 THEN "recv" ELSE "send"]
            /\ sent' = sent + (IF k = 2 THEN 0 ELSE 1)
    BY DEF PingSend
  <1>3. sent \in Nat /\ sent' \in Nat
    BY <1>2 DEF InPlace, Typed
  <1>4. /\ pc' \in [Threads -> Places] /\ InFlight = 0
        /\ pc'["main"] = (IF k = 2 THEN "recv" ELSE "send")
        /\ InFlight' = (IF k = 2 THEN 1 ELSE 0)
    BY <1>1, <1>2 DEF InFlight, InPlace, Typed, Threads, Places
  <1>5. Used' = Used /\ OnItsWay' = OnItsWay
    BY <1>1, SameWritten DEF Used
  <1>6. out' \in Seq(Nat) /\ OutInPlace'
    <2>1. sent' + InFlight' = sent + 1
      BY <1>2, <1>3, <1>4
    <2> QED BY <1>1, <1>2, <1>3, <1>4, <2>1, SentInPlace DEF Outcomes
  <1>7. OneAtATime'
    <2> SUFFICES ASSUME ~split PROVE OneAtATime'
      BY <1>1 DEF OneAtATime
    <2>1. Idle
      BY <1>1 DEF InPlace, OneAtATime
    <2>2. CASE k = 2
      <3>1. pc'["main"] = "recv" /\ sent' = sent
        BY <1>2, <1>3, <1>4, <2>2
      <3>2. in[Remote] = <<>> /\ rest[Remote] = 0 /\ OnItsWay = 0
        BY <2>1 DEF Idle, OnItsWay
      <3>3. peer[Remote] = "up" => Len(out') = 2 /\ \A i \in 1..Len(out') : out'[i] >= sent + 1
        <4> SUFFICES ASSUME peer[Remote] = "up"
                     PROVE  Len(out') = 2 /\ \A i \in 1..Len(out') : out'[i] >= sent + 1
          OBVIOUS
        <4> DEFINE new == [i \in 1..2 |-> sent + 1]
        <4>1. out' = <<>> \o new
          BY <1>2, <2>1, <2>2 DEF SysSend, Idle
        <4>2. new \in Seq(Nat) /\ Len(new) = 2 /\ \A i \in 1..2 : new[i] = sent + 1
          BY <1>3
        <4> HIDE DEF new
        <4>3. out' = new
          BY <4>1, <4>2
        <4>4. \A i \in 1..2 : new[i] >= sent + 1
          BY <1>3, <4>2
        <4> QED BY <4>2, <4>3, <4>4
      <3>4. Awaiting'
        BY <1>1, <1>5, <3>1, <3>2, <3>3 DEF Awaiting
      <3> QED BY <1>1, <3>1, <3>2, <3>4 DEF OneAtATime
    <2>3. CASE k = 0
      <3>1. pc'["main"] = "send" /\ peer[Remote] # "up"
        BY <1>2, <1>4, <2>3
      <3>2. Idle'
        BY <1>1, <2>1, <3>1 DEF Idle
      <3> QED BY <1>1, <2>1, <3>1, <3>2 DEF OneAtATime, Idle
    <2> QED BY <2>2, <2>3
  <1>8. InInPlace' /\ HeldInPlace' /\ TimesInPlace' /\ NeverTooShort'
    BY <1>1, <1>5 DEF InPlace, InInPlace, HeldInPlace, TimesInPlace, NeverTooShort
  <1> QED BY <1>1, <1>3, <1>4, <1>6, <1>7, <1>8 DEF InPlace, Typed

LEMMA PingRecvInPlace ==
    ASSUME InPlace, program = "ping", program' = program, PingRecv
    PROVE  InPlace'
  <1> DEFINE a == Available(Remote, 2)
             data == Received(Remote, 2)
  <1>1. /\ UNCHANGED <<out, times, held, replies>> /\ SysRecv(Remote, 2)
        /\ pc["main"] = "recv" /\ pc' = [pc EXCEPT !["main"] = "send"] /\ sent' = sent + 1
    BY DEF PingRecv, Step
  <1>2. /\ a \in 0..Len(in[Remote]) /\ a <= 2
        /\ in' \in [Peers -> Seq(Half)] /\ rest' = rest /\ peer' = peer
        /\ Len(in'[Remote]) = Len(in[Remote]) - a
        /\ taken' = taken + a /\ taken' \in Nat /\ Written' = Written
        /\ data \in Seq(Half) /\ Len(data) = a
        /\ \A i \in 1..a : data[i] = in[Remote][i]
        /\ InInPlace'
    BY <1>1, RecvKeepsPlaces DEF InPlace
  <1>3. pc' \in [Threads -> Places] /\ pc'["main"] = "send" /\ InFlight = 1 /\ InFlight' = 0
    BY <1>1 DEF InFlight, InPlace, Typed, Threads, Places
  <1>4. taken \in Nat /\ replies \in Nat /\ held = <<>> /\ 2 * replies <= taken /\ sent \in Nat
    BY DEF InPlace, HeldInPlace, Typed
  <1>5. Used' = Used
    BY <1>1 DEF Used
  <1>6. pairs' = IF a = 2 THEN pairs \cup {<<Nr(data[2]), sent + 1>>} ELSE pairs
    BY DEF PingRecv, ReplyNr, Nr
  <1>7. split' = (split \/ Begins(in[Remote][a]))
    BY <1>1 DEF SysRecv, Begins
  <1>8. in[Remote] # <<>> /\ in[Remote] \in Seq(Half)
    BY <1>1, RemoteAssumption DEF SysRecv, InPlace, Typed
  <1>9. a = IF Len(in[Remote]) < 2 THEN Len(in[Remote]) ELSE 2
    BY DEF Available
  <1> HIDE DEF a, data
  <1>10. HeldInPlace'
    <2>1. a \in Nat
      BY <1>2
    <2>2. 2 * replies + 0 <= taken'
      BY <1>2, <1>4, <2>1
    <2> QED BY <1>1, <1>4, <2>2 DEF HeldInPlace
  <1>11. OutInPlace' /\ TimesInPlace'
    <2>1. sent' + InFlight' = sent + InFlight
      BY <1>1, <1>3, <1>4
    <2> QED BY <1>1, <1>2, <1>5, <2>1 DEF InPlace, OutInPlace, TimesInPlace
  <1>12. OneAtATime' /\ NeverTooShort'
    <2> SUFFICES ASSUME ~split' PROVE OneAtATime' /\ NeverTooShort'
      BY DEF OneAtATime, NeverTooShort
    <2>1. ~split /\ Awaiting
      BY <1>1, <1>7 DEF InPlace, OneAtATime
    <2>2. a = 2
      <3> SUFFICES ASSUME Len(in[Remote]) < 2 PROVE FALSE
        BY <1>9
      <3>1. Len(in[Remote]) = 1
        <4>1. Len(in[Remote]) \in Nat /\ Len(in[Remote]) # 0
          BY <1>8
        <4> QED BY <4>1, JustOne
      <3> QED BY <1>7, <1>8, <1>9, <2>1, <3>1 DEF Awaiting
    <2>3. Len(in[Remote]) + OnItsWay <= 2 /\ Len(in[Remote]) \in Nat /\ OnItsWay \in {0, 1}
          /\ Len(out) \in Nat
      BY <2>1, NumbersTyped DEF Awaiting, InPlace
    <2>4. Len(in[Remote]) = 2 /\ OnItsWay = 0
      <3>1. Len(in[Remote]) >= 2
        BY <1>2, <2>2, <2>3
      <3> QED BY <2>3, <3>1, JustTwo
    <2>5. in'[Remote] = <<>> /\ rest'[Remote] = 0
      <3>1. in'[Remote] \in Seq(Half) /\ Len(in'[Remote]) = 0
        BY <1>2, <2>2, <2>4, RemoteAssumption
      <3>2. rest[Remote] = 0
        BY <2>4 DEF OnItsWay
      <3> QED BY <1>2, <3>1, <3>2
    <2>6. peer[Remote] = "up" => out = <<>>
      <3> SUFFICES ASSUME peer[Remote] = "up" PROVE out = <<>>
        OBVIOUS
      <3>1. Len(in[Remote]) + OnItsWay + Len(out) <= 2
        BY <2>1 DEF Awaiting
      <3>2. Len(out) = 0
        BY <2>3, <2>4, <3>1
      <3> QED BY <3>2 DEF InPlace, Typed
    <2>7. OneAtATime'
      BY <1>1, <1>2, <1>3, <2>5, <2>6 DEF OneAtATime, Idle
    <2>8. Nr(data[2]) >= sent + 1
      BY <1>2, <2>1, <2>2, <2>4 DEF Awaiting
    <2>9. \A m \in pairs : m[1] >= m[2]
      BY <2>1 DEF InPlace, NeverTooShort
    <2> QED BY <1>6, <2>2, <2>7, <2>8, <2>9 DEF NeverTooShort
  <1> QED BY <1>1, <1>2, <1>3, <1>4, <1>10, <1>11, <1>12 DEF InPlace, Typed

LEMMA PingEndInPlace ==
    ASSUME InPlace, program = "ping", program' = program, PingRecvEnds
    PROVE  InPlace'
  <1>1. /\ UNCHANGED <<in, rest, taken, split, out, times, held, replies, pairs>>
        /\ pc["main"] = "recv" /\ pc' = [pc EXCEPT !["main"] = "send"] /\ sent' = sent + 1
        /\ in[Remote] = <<>> /\ peer[Remote] # "up"
        /\ peer' \in [Peers -> PeerStates] /\ peer'[Remote] # "up"
    <2>1. RecvEnds
      BY DEF PingRecvEnds
    <2>2. UNCHANGED <<in, rest, taken, split>> /\ peer' \in [Peers -> PeerStates]
      BY <2>1, RecvEndsPeer DEF InPlace
    <2>3. in[Remote] = <<>> /\ peer[Remote] # "up" /\ peer'[Remote] # "up"
      BY <2>1, RemoteAssumption DEF RecvEnds, AtEof, SysRecvError, netVars, InPlace, Typed
    <2> QED BY <2>2, <2>3 DEF PingRecvEnds, Step, matchVars
  <1>2. pc' \in [Threads -> Places] /\ pc'["main"] = "send" /\ InFlight = 1 /\ InFlight' = 0
    BY <1>1 DEF InFlight, InPlace, Typed, Threads, Places
  <1>3. Used' = Used /\ Written' = Written /\ sent \in Nat
    BY <1>1, SameWritten DEF Used, InPlace, Typed
  <1>4. OutInPlace'
    <2>1. sent' + InFlight' = sent + InFlight
      BY <1>1, <1>2, <1>3
    <2> QED BY <1>1, <1>3, <2>1 DEF InPlace, OutInPlace
  <1>5. OneAtATime'
    <2>1. program = "ping" /\ ~split => rest[Remote] = 0
      BY <1>1 DEF InPlace, OneAtATime
    <2> QED BY <1>1, <1>2, <2>1 DEF OneAtATime, Idle
  <1>6. InInPlace' /\ HeldInPlace' /\ TimesInPlace' /\ NeverTooShort'
    BY <1>1, <1>3 DEF InPlace, InInPlace, HeldInPlace, TimesInPlace, NeverTooShort
  <1> QED BY <1>1, <1>2, <1>3, <1>4, <1>5, <1>6 DEF InPlace, Typed, PeerStates

-----------------------------------------------------------------------------
LEMMA OrderedInit == Init => Ordered
  <1> SUFFICES ASSUME Init, program \in TripPrograms PROVE InPlace
    BY DEF Ordered, Init
  <1>1. pc \in [Threads -> Places] /\ pc["main"] = "connect"
    BY DEF Init, Start, Places, TripPrograms, Threads
  <1>2. Typed
    BY <1>1 DEF Init, Typed
  <1>3. in[Remote] = <<>> /\ rest[Remote] = 0 /\ OnItsWay = 0 /\ Written = 0
    BY RemoteAssumption DEF Init, OnItsWay, Written
  <1>4. InFlight = 0 /\ Used = 0
    BY <1>1 DEF Init, InFlight, Used
  <1> QED BY <1>1, <1>2, <1>3, <1>4
      DEF Init, InPlace, OutInPlace, InInPlace, HeldInPlace, TimesInPlace, OneAtATime, Idle, NeverTooShort

LEMMA OrderedStep == Ordered /\ [Next]_vars => Ordered'
  <1> SUFFICES ASSUME Ordered, [Next]_vars PROVE Ordered'
    OBVIOUS
  <1>1. program' = program
    <2>1. CASE Next
      BY <2>1 DEF Next, PeerStep, AnswerStep, Sigint, ThreadStep, Shared, Trip
    <2>2. CASE UNCHANGED vars
      BY <2>2 DEF vars
    <2> QED BY <2>1, <2>2
  <1>2. CASE program \notin TripPrograms
    <2>1. pairs' = pairs
      <3>1. CASE UNCHANGED vars
        BY <3>1 DEF vars, tripVars, matchVars
      <3>2. CASE PeerStep
        BY <3>2 DEF PeerStep, Shared, tripVars, matchVars
      <3>3. CASE AnswerStep \/ Sigint
        BY <1>2, <3>3 DEF AnswerStep, Sigint, Trip, ServerAnswers, RestOfAnswer, ServerEnds, TripProgram,
           TripPrograms
      <3>4. ASSUME NEW t \in Threads, ThreadStep(t) PROVE pairs' = pairs
        BY <1>2, <3>4 DEF ThreadStep, Shared, TripPrograms, tripVars, matchVars
      <3>5. CASE Next
        BY <3>2, <3>3, <3>4, <3>5 DEF Next
      <3> QED BY <3>1, <3>5
    <2> QED BY <1>1, <1>2, <2>1 DEF Ordered
  <1>3. CASE program \in TripPrograms
    <2> SUFFICES InPlace'
      BY <1>1, <1>3 DEF Ordered
    <2>1. InPlace
      BY <1>3 DEF Ordered
    <2>2. CASE UNCHANGED vars
      <3>1. UNCHANGED <<program, pc, in, rest, peer, taken, split, out, times, held, replies, pairs, sent>>
        BY <2>2 DEF vars, netVars, tripVars, sendVars, matchVars
      <3>2. InFlight' = InFlight /\ Used' = Used /\ Written' = Written /\ OnItsWay' = OnItsWay
        BY <3>1, SameWritten DEF InFlight, Used
      <3> QED BY <2>1, <3>1, <3>2 DEF InPlace, Typed, OutInPlace, InInPlace, HeldInPlace, TimesInPlace,
              OneAtATime, Idle, Awaiting, NeverTooShort
    <2>3. CASE Next
      <3>1. CASE PeerStep
        BY <1>3, <3>1 DEF PeerStep, Shared, PeerWrites, SecondHalf, PeerLeaves, SharedProgram, TripPrograms
      <3>2. CASE AnswerStep
        BY <1>1, <1>3, <2>1, <3>2, AnswerInPlace, RestInPlace, EndInPlace DEF AnswerStep, Trip, TripProgram
      <3>3. CASE Sigint
        <4>1. program = "latency" /\ Interrupt
          BY <3>3 DEF Sigint, Trip
        <4> QED BY <1>1, <2>1, <4>1, LatencyMoves
      <3>4. ASSUME NEW t \in Threads, ThreadStep(t) PROVE InPlace'
        <4>1. CASE program = "latency"
          <5>1. LatencyMainStep \/ LatencyReceiverStep
            BY <3>4, <4>1 DEF ThreadStep, Trip
          <5> QED BY <1>1, <2>1, <4>1, <5>1, LatencyMoves, LatencySendInPlace, StoreInPlace, ResetInPlace,
                     ClearTimesInPlace, LatencyRecvInPlace, MatchInPlace, MatchNoMoreInPlace
              DEF LatencyMainStep, LatencyReceiverStep
        <4>2. CASE program = "burst"
          <5>1. BurstStep
            BY <3>4, <4>2 DEF ThreadStep, Trip
          <5> QED BY <1>1, <2>1, <4>2, <5>1, BurstMoves, BurstSendInPlace, BurstRecvInPlace DEF BurstStep
        <4>3. CASE program = "ping"
          <5>1. PingStep
            BY <3>4, <4>3 DEF ThreadStep, Trip
          <5> QED BY <1>1, <2>1, <4>3, <5>1, PingMoves, PingSendInPlace, PingRecvInPlace, PingEndInPlace
              DEF PingStep
        <4>4. CASE program = "simple"
          <5>1. SimpleMainStep \/ SimpleReceiverStep
            BY <3>4, <4>4 DEF ThreadStep, Trip
          <5> QED BY <1>1, <2>1, <4>4, <5>1, SimpleMoves, SimpleSendInPlace, SimpleRecvInPlace
              DEF SimpleMainStep, SimpleReceiverStep
        <4> QED BY <1>3, <4>1, <4>2, <4>3, <4>4 DEF TripPrograms
      <3> QED BY <2>3, <3>1, <3>2, <3>3, <3>4 DEF Next
    <2> QED BY <2>2, <2>3
  <1> QED BY <1>2, <1>3

\* No latency is measured too short: whatever is lost, split or left without
\* an answer, a reply is matched with the send time of the message it answers
\* or of an earlier one.
THEOREM LatencyIsNeverTooShort == Spec => []NeverTooShort
  <1>1. Ordered => NeverTooShort
    BY DEF Ordered, InPlace, NeverTooShort
  <1> QED BY <1>1, OrderedInit, OrderedStep, PTL DEF Spec
=============================================================================
