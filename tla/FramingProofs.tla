---------------------------- MODULE FramingProofs ----------------------------
(***************************************************************************)
(* Proofs about Framing.tla, for any number of slots, any lengths of rows, *)
(* messages and segments, and writes that may be cut short or not.         *)
(***************************************************************************)
EXTENDS Framing, SequenceTheorems, TLAPS

-----------------------------------------------------------------------------
(* Helpers.                                                                *)

LEMMA LineType ==
  ASSUME NEW n \in Nat, NEW length \in Nat
  PROVE  /\ Line(n, length) \in Seq(Byte)
         /\ Len(Line(n, length)) = length + 1
         /\ \A i \in 1..(length + 1) : Line(n, length)[i] = ByteOf(n, i)
<1>1. Line(n, length) \in [1..(length + 1) -> Byte]
  BY DEF Line, ByteOf, Byte
<1>2. Line(n, length) \in Seq(Byte)
  BY <1>1, SeqDef
<1>3. DOMAIN Line(n, length) = 1..Len(Line(n, length))
  BY <1>2, LenProperties
<1>4. Len(Line(n, length)) = length + 1
  BY <1>2, <1>3, LenProperties DEF Line
<1> QED
  BY <1>2, <1>4 DEF Line

\* TCP hands on the front of what is on its way.
LEMMA Cut ==
  ASSUME NEW S, NEW s \in Seq(S), NEW len \in 0..Len(s)
  PROVE  /\ SubSeq(s, 1, len) \in Seq(S)
         /\ Len(SubSeq(s, 1, len)) = len
         /\ SubSeq(s, len + 1, Len(s)) \in Seq(S)
         /\ Len(SubSeq(s, len + 1, Len(s))) = Len(s) - len
         /\ \A k \in 1..len : SubSeq(s, 1, len)[k] = s[k]
         /\ \A k \in 1..(Len(s) - len) :
               SubSeq(s, len + 1, Len(s))[k] = s[len + k]
<1>1. Len(s) \in Nat /\ len \in Nat
  OBVIOUS
<1> QED
  BY <1>1

-----------------------------------------------------------------------------
(* Types.                                                                  *)

LEMMA SendTypes ==
  ASSUME TypeOK, NEW s \in Slots, NEW length \in Lengths, Send(s, length)
  PROVE  TypeOK'
<1>1. PICK taken \in 0..(length + 1) :
         wire' = [wire EXCEPT ![s] =
                    @ \o SubSeq(Line(Len(sent[s]) + 1, length), 1, taken)]
  BY DEF Send
<1>2. sent[s] \in Seq(Lengths) /\ wire[s] \in Seq(Byte) /\ length \in Nat
  BY LengthAssumption DEF TypeOK
<1>3. Len(sent[s]) + 1 \in Nat
  BY <1>2
<1>4. /\ Line(Len(sent[s]) + 1, length) \in Seq(Byte)
      /\ Len(Line(Len(sent[s]) + 1, length)) = length + 1
  BY <1>2, <1>3, LineType
<1>5. SubSeq(Line(Len(sent[s]) + 1, length), 1, taken) \in Seq(Byte)
  BY <1>2, <1>4, Cut
<1>6. wire' \in [Slots -> Seq(Byte)]
  BY <1>1, <1>2, <1>5 DEF TypeOK
<1>7. sent' \in [Slots -> Seq(Lengths)]
  BY <1>2 DEF TypeOK, Send
<1> QED
  BY <1>6, <1>7 DEF TypeOK, Send

LEMMA DataTypes ==
  ASSUME TypeOK, NEW s \in Slots, DataArrives(s)
  PROVE  TypeOK'
<1>1. wire[s] \in Seq(Byte) /\ s \in open /\ call = Idle
  BY DEF TypeOK, DataArrives
<1>2. PICK len \in 1..Len(wire[s]) :
         /\ wire' = [wire EXCEPT ![s] = SubSeq(@, len + 1, Len(@))]
         /\ IF Fits(s, len)
            THEN /\ call' = [slot |-> s, rest |-> SubSeq(wire[s], 1, len)]
                 /\ UNCHANGED buf
            ELSE /\ buf' = [buf EXCEPT ![s] = <<>>]
                 /\ UNCHANGED call
  BY DEF DataArrives
<1>3. /\ SubSeq(wire[s], 1, len) \in Seq(Byte) \ {<<>>}
      /\ SubSeq(wire[s], len + 1, Len(wire[s])) \in Seq(Byte)
  <2>1. len \in 0..Len(wire[s]) /\ len # 0
    BY <1>1
  <2>2. /\ SubSeq(wire[s], 1, len) \in Seq(Byte)
        /\ Len(SubSeq(wire[s], 1, len)) = len
        /\ SubSeq(wire[s], len + 1, Len(wire[s])) \in Seq(Byte)
    BY <1>1, <2>1, Cut, SMTT(30)
  <2>3. Len(<<>>) = 0
    OBVIOUS
  <2>4. SubSeq(wire[s], 1, len) # <<>>
    BY <2>1, <2>2, <2>3, Zenon
  <2> QED
    BY <2>2, <2>4
<1>4. wire' \in [Slots -> Seq(Byte)]
  BY <1>1, <1>2, <1>3 DEF TypeOK
<1>5. buf' \in [Slots -> Seq(Byte)]
  <2>1. buf' = buf \/ buf' = [buf EXCEPT ![s] = <<>>]
    BY <1>2, Zenon
  <2>2. buf \in [Slots -> Seq(Byte)] /\ <<>> \in Seq(Byte)
    BY DEF TypeOK
  <2> QED
    BY <2>1, <2>2
<1>6. call' \in {Idle} \union [slot : open, rest : Seq(Byte) \ {<<>>}]
  <2> DEFINE front == SubSeq(wire[s], 1, len)
  <2>1. front \in Seq(Byte) \ {<<>>}
    BY <1>3
  <2>2. call' = Idle \/ call' = [slot |-> s, rest |-> front]
    BY <1>1, <1>2, Zenon
  <2> HIDE DEF front
  <2> QED
    BY <1>1, <2>1, <2>2
<1> QED
  BY <1>4, <1>5, <1>6 DEF TypeOK, DataArrives

LEMMA ReadTypes ==
  ASSUME TypeOK, ReadByte
  PROVE  TypeOK'
<1>1. /\ call.slot \in open /\ call.slot \in Slots
      /\ call.rest \in Seq(Byte) /\ call.rest # <<>>
      /\ call = [slot |-> call.slot, rest |-> call.rest]
  BY DEF TypeOK, ReadByte
<1>2. Head(call.rest) \in Byte /\ buf[call.slot] \in Seq(Byte)
      /\ lines[call.slot] \in Seq(Seq(Byte))
  BY <1>1 DEF TypeOK
<1>3. /\ buf' \in [Slots -> Seq(Byte)]
      /\ lines' \in [Slots -> Seq(Seq(Byte))]
  <2>1. TakeByte(call.slot, Head(call.rest))
    BY DEF ReadByte
  <2>2. \/ /\ lines' = [lines EXCEPT ![call.slot] =
                              Append(@, buf[call.slot])]
           /\ buf' = [buf EXCEPT ![call.slot] = <<>>]
        \/ /\ lines' = lines
           /\ buf' = [buf EXCEPT ![call.slot] = Append(@, Head(call.rest))]
    BY <2>1, Zenon DEF TakeByte
  <2>3. /\ Append(lines[call.slot], buf[call.slot]) \in Seq(Seq(Byte))
        /\ Append(buf[call.slot], Head(call.rest)) \in Seq(Byte)
    BY <1>2
  <2>4. /\ buf \in [Slots -> Seq(Byte)] /\ <<>> \in Seq(Byte)
        /\ lines \in [Slots -> Seq(Seq(Byte))]
    BY DEF TypeOK
  <2> QED
    BY <1>1, <2>2, <2>3, <2>4
<1>4. call' \in {Idle} \union [slot : open, rest : Seq(Byte) \ {<<>>}]
  <2>1. CASE Len(call.rest) = 1
    BY <2>1 DEF ReadByte
  <2>2. CASE Len(call.rest) # 1
    <3>1. Tail(call.rest) \in Seq(Byte) \ {<<>>}
      <4>1. /\ Tail(call.rest) \in Seq(Byte)
            /\ Len(Tail(call.rest)) = Len(call.rest) - 1
            /\ Len(call.rest) \in Nat \ {0}
        BY <1>1
      <4>2. Len(Tail(call.rest)) # 0
        BY <2>2, <4>1
      <4>3. Len(<<>>) = 0
        OBVIOUS
      <4>4. Tail(call.rest) # <<>>
        BY <4>2, <4>3, Zenon
      <4> QED
        BY <4>1, <4>4
    <3>2. call' = [slot |-> call.slot, rest |-> Tail(call.rest)]
      BY <1>1, <2>2 DEF ReadByte
    <3> QED
      BY <1>1, <3>1, <3>2
  <2> QED
    BY <2>1, <2>2
<1> QED
  BY <1>3, <1>4 DEF TypeOK, ReadByte

LEMMA StepTypes ==
  ASSUME TypeOK, [Next]_vars
  PROVE  TypeOK'
<1>1. CASE UplinkConnects
  BY <1>1 DEF TypeOK, UplinkConnects, StartReading
<1>2. CASE UplinkGone
  BY <1>2 DEF TypeOK, UplinkGone
<1>3. CASE ReadByte
  BY <1>3, ReadTypes
<1>4. ASSUME NEW s \in Slots, ClientConnects(s) PROVE TypeOK'
  BY <1>4 DEF TypeOK, ClientConnects, StartReading
<1>5. ASSUME NEW s \in Slots, ClientGone(s) PROVE TypeOK'
  BY <1>5 DEF TypeOK, ClientGone
<1>6. ASSUME NEW s \in Slots, DataArrives(s) PROVE TypeOK'
  BY <1>6, DataTypes
<1>7. ASSUME NEW s \in Slots, NEW length \in Lengths, Send(s, length)
      PROVE  TypeOK'
  BY <1>7, SendTypes
<1>8. CASE UNCHANGED vars
  BY <1>8 DEF TypeOK, vars
<1> QED
  BY <1>1, <1>2, <1>3, <1>4, <1>5, <1>6, <1>7, <1>8 DEF Next

\* onData() runs for a connection that is open, with bytes still to see.
THEOREM FramingTypes == Spec => []TypeOK
<1>1. Init => TypeOK
  BY DEF Init, TypeOK
<1>2. TypeOK /\ [Next]_vars => TypeOK'
  BY StepTypes
<1> QED
  BY <1>1, <1>2, PTL DEF Spec

-----------------------------------------------------------------------------
(* The rows of inbuffer.                                                   *)

LEMMA StepNoOverrun ==
  ASSUME TypeOK, NoOverrun, [Next]_vars
  PROVE  NoOverrun'
<1>1. CASE call = Idle /\ UNCHANGED call
  BY <1>1 DEF NoOverrun
<1>2. CASE UNCHANGED <<call, buf>>
  BY <1>2 DEF NoOverrun
<1>3. CASE ReadByte
  <2>1. /\ call # Idle /\ call.slot \in Slots /\ call.rest \in Seq(Byte)
        /\ call.rest # <<>> /\ buf \in [Slots -> Seq(Byte)]
    BY <1>3 DEF TypeOK, ReadByte
  <2>2. CASE Len(call.rest) = 1
    BY <1>3, <2>2 DEF ReadByte, NoOverrun
  <2>3. CASE Len(call.rest) # 1
    <3>1. /\ call'.slot = call.slot /\ call'.rest = Tail(call.rest)
          /\ Len(Tail(call.rest)) = Len(call.rest) - 1
          /\ Len(call.rest) \in Nat
      BY <1>3, <2>1, <2>3 DEF ReadByte, TypeOK
    <3>2. Len(buf[call.slot]) + Len(call.rest) <= MaxPacket
      BY <2>1 DEF NoOverrun
    <3>3. Len(buf'[call.slot]) <= Len(buf[call.slot]) + 1
      BY <1>3, <2>1 DEF ReadByte, TakeByte
    <3>4. Len(buf'[call.slot]) \in Nat /\ Len(buf[call.slot]) \in Nat
      <4>1. TypeOK'
        BY <1>3, ReadTypes
      <4> QED
        BY <2>1, <4>1 DEF TypeOK
    <3>5. Len(buf'[call'.slot]) + Len(call'.rest) <= MaxPacket
      <4> DEFINE m == Len(buf'[call.slot])
                 n == Len(buf[call.slot])
      <4>1. m \in Nat /\ n \in Nat /\ m <= n + 1
        BY <3>3, <3>4
      <4> HIDE DEF m, n
      <4>2. n + Len(call.rest) <= MaxPacket
        BY <3>2 DEF n
      <4>3. Len(call.rest) \in Nat /\ MaxPacket \in Nat
        BY <3>1, SizeAssumption
      <4>4. m + (Len(call.rest) - 1) <= MaxPacket
        BY <4>1, <4>2, <4>3
      <4> QED
        BY <3>1, <4>4 DEF m
    <3> QED
      BY <3>5 DEF NoOverrun
  <2> QED
    BY <2>2, <2>3
<1>4. ASSUME NEW s \in Slots, DataArrives(s) PROVE NoOverrun'
  <2>1. PICK len \in 1..Len(wire[s]) :
           IF Fits(s, len)
           THEN /\ call' = [slot |-> s, rest |-> SubSeq(wire[s], 1, len)]
                /\ UNCHANGED buf
           ELSE UNCHANGED call
    BY <1>4 DEF DataArrives
  <2>2. CASE Fits(s, len)
    <3>1. Len(SubSeq(wire[s], 1, len)) = len
      BY Cut DEF TypeOK
    <3> QED
      BY <2>1, <2>2, <3>1 DEF Fits, NoOverrun
  <2>3. CASE ~Fits(s, len)
    BY <1>1, <1>4, <2>1, <2>3 DEF DataArrives
  <2> QED
    BY <2>2, <2>3
<1>5. CASE UplinkConnects \/ UplinkGone
  BY <1>1, <1>5 DEF UplinkConnects, UplinkGone
<1>6. ASSUME NEW s \in Slots, ClientConnects(s) \/ ClientGone(s)
      PROVE  NoOverrun'
  BY <1>1, <1>6 DEF ClientConnects, ClientGone
<1>7. ASSUME NEW s \in Slots, NEW length \in Lengths, Send(s, length)
      PROVE  NoOverrun'
  BY <1>2, <1>7 DEF Send
<1>8. CASE UNCHANGED vars
  BY <1>2, <1>8 DEF vars
<1> QED
  BY <1>3, <1>4, <1>5, <1>6, <1>7, <1>8 DEF Next

\* The one check of onData() before its loop is enough: no byte is ever
\* written behind a row of inbuffer, whatever a peer sends.
THEOREM RowsNeverOverrun == Spec => []NoOverrun
<1>1. Init => NoOverrun
  BY DEF Init, NoOverrun
<1>2. TypeOK /\ NoOverrun /\ [Next]_vars => NoOverrun'
  BY StepNoOverrun
<1> QED
  BY <1>1, <1>2, FramingTypes, PTL DEF Spec

-----------------------------------------------------------------------------
(* Messages arrive whole.                                                  *)

\* write() takes all it is given, and a row has room for the longest line
\* and one segment.
RoomForSegment ==
    ~ShortWrites /\ \A length \in Lengths : length + Mss <= MaxPacket

\* The byte that follows b among the messages of lengths S.
Following(S, b) ==
    IF b.at <= S[b.msg] THEN ByteOf(b.msg, b.at + 1) ELSE ByteOf(b.msg + 1, 1)

\* P is what is missing of messages of lengths S when L of them and B bytes
\* of the next one have been read.
Missing(P, S, L, B) ==
    /\ \A k \in 1..Len(P) : /\ P[k].msg \in 1..Len(S)
                            /\ P[k].at \in 1..(S[P[k].msg] + 1)
    /\ \A k \in 1..(Len(P) - 1) : P[k + 1] = Following(S, P[k])
    /\ P = <<>> => L = Len(S) /\ B = 0
    /\ P # <<>> => /\ P[1] = ByteOf(L + 1, B + 1)
                   /\ P[Len(P)] = ByteOf(Len(S), S[Len(S)] + 1)

LEMMA MissingSent ==
  ASSUME NEW P \in Seq(Byte), NEW S \in Seq(Lengths), NEW L \in Nat,
         NEW B \in Nat, NEW length \in Lengths, Missing(P, S, L, B)
  PROVE  Missing(P \o Line(Len(S) + 1, length), Append(S, length), L, B)
<1> DEFINE N == Len(S) + 1
           M == Line(N, length)
           Q == P \o M
           T == Append(S, length)
<1>1. length \in Nat /\ Len(S) \in Nat /\ N \in Nat /\ Len(P) \in Nat
  BY LengthAssumption
<1>2. /\ M \in Seq(Byte) /\ Len(M) = length + 1
      /\ \A i \in 1..(length + 1) : M[i] = ByteOf(N, i)
  BY <1>1, LineType
<1> HIDE DEF M
<1>3. /\ Len(Q) = Len(P) + length + 1
      /\ \A k \in 1..Len(P) : Q[k] = P[k]
      /\ \A k \in 1..(length + 1) : Q[Len(P) + k] = ByteOf(N, k)
  <2>1. /\ Len(Q) = Len(P) + Len(M)
        /\ \A k \in 1..(Len(P) + Len(M)) :
              Q[k] = IF k <= Len(P) THEN P[k] ELSE M[k - Len(P)]
    BY <1>2, ConcatProperties, Zenon
  <2> HIDE DEF Q
  <2>2. Len(Q) = Len(P) + length + 1
    BY <1>1, <1>2, <2>1
  <2>3. ASSUME NEW k \in 1..Len(P) PROVE Q[k] = P[k]
    BY <1>1, <1>2, <2>1
  <2>4. ASSUME NEW k \in 1..(length + 1) PROVE Q[Len(P) + k] = ByteOf(N, k)
    <3>1. /\ Len(P) + k \in 1..(Len(P) + Len(M)) /\ ~ (Len(P) + k <= Len(P))
          /\ (Len(P) + k) - Len(P) = k
      BY <1>1, <1>2
    <3> QED
      BY <1>2, <2>1, <3>1
  <2> QED
    BY <2>2, <2>3, <2>4
<1>4. /\ Len(T) = N /\ T[N] = length
      /\ \A n \in 1..Len(S) : T[n] = S[n]
  BY <1>1
<1>5. \A n \in 1..Len(S) : S[n] \in Nat
  <2>1. \A n \in 1..Len(S) : S[n] \in Lengths
    OBVIOUS
  <2> QED
    BY <2>1, LengthAssumption
<1> HIDE DEF Q, T
<1>6. ASSUME NEW k \in 1..Len(Q)
      PROVE  Q[k].msg \in 1..Len(T) /\ Q[k].at \in 1..(T[Q[k].msg] + 1)
  <2>1. CASE k <= Len(P)
    <3>1. k \in 1..Len(P)
      BY <1>1, <2>1
    <3>2. Q[k] = P[k] /\ P[k].msg \in 1..Len(S)
          /\ P[k].at \in 1..(S[P[k].msg] + 1)
      BY <1>3, <3>1 DEF Missing
    <3>3. T[P[k].msg] = S[P[k].msg]
      BY <1>4, <3>2
    <3> QED
      BY <1>1, <1>4, <3>2, <3>3
  <2>2. CASE k > Len(P)
    <3>1. k - Len(P) \in 1..(length + 1) /\ Len(P) + (k - Len(P)) = k
      BY <1>1, <1>3, <2>2
    <3>2. Q[k] = ByteOf(N, k - Len(P))
      BY <1>3, <3>1
    <3> QED
      BY <1>1, <1>4, <3>1, <3>2 DEF ByteOf
  <2> QED
    BY <1>1, <2>1, <2>2
<1>7. ASSUME NEW k \in 1..(Len(Q) - 1)
      PROVE  Q[k + 1] = Following(T, Q[k])
  <2>1. CASE k < Len(P)
    <3>1. k \in 1..(Len(P) - 1) /\ k \in 1..Len(P) /\ k + 1 \in 1..Len(P)
      BY <1>1, <2>1
    <3>2. P[k + 1] = Following(S, P[k]) /\ P[k].msg \in 1..Len(S)
      BY <3>1 DEF Missing
    <3>3. Q[k] = P[k] /\ Q[k + 1] = P[k + 1] /\ T[P[k].msg] = S[P[k].msg]
      BY <1>3, <1>4, <3>1, <3>2
    <3> QED
      BY <3>2, <3>3 DEF Following
  <2>2. CASE k = Len(P)
    <3>1. P # <<>> /\ Len(P) \in 1..Len(P)
      BY <1>1, <2>2
    <3>2. P[k] = ByteOf(Len(S), S[Len(S)] + 1)
      BY <2>2, <3>1 DEF Missing
    <3>3. P[k].msg = Len(S) /\ P[k].msg \in 1..Len(S)
      BY <2>2, <3>1, <3>2 DEF Missing, ByteOf
    <3>4. Q[k] = P[k] /\ Q[k + 1] = ByteOf(N, 1)
      BY <1>1, <1>3, <2>2, <3>1
    <3>5. T[Len(S)] = S[Len(S)] /\ S[Len(S)] \in Nat
      BY <1>4, <1>5, <3>3
    <3> QED
      BY <1>1, <3>2, <3>4, <3>5 DEF Following, ByteOf
  <2>3. CASE k > Len(P)
    <3>1. /\ k - Len(P) \in 1..length /\ k - Len(P) \in 1..(length + 1)
          /\ k - Len(P) + 1 \in 1..(length + 1)
          /\ Len(P) + (k - Len(P)) = k
          /\ Len(P) + (k - Len(P) + 1) = k + 1
      BY <1>1, <1>3, <2>3
    <3>2. Q[k] = ByteOf(N, k - Len(P)) /\ Q[k + 1] = ByteOf(N, k - Len(P) + 1)
      BY <1>3, <3>1
    <3> QED
      BY <1>1, <1>4, <3>1, <3>2 DEF Following, ByteOf
  <2> QED
    BY <1>1, <2>1, <2>2, <2>3
<1>8. Q # <<>>
  BY <1>1, <1>3
<1>9. Q[1] = ByteOf(L + 1, B + 1)
  <2>1. CASE P = <<>>
    <3>1. L = Len(S) /\ B = 0 /\ Len(P) = 0
      BY <2>1 DEF Missing
    <3>2. 1 \in 1..(length + 1) /\ Len(P) + 1 = 1
      BY <1>1, <3>1
    <3>3. Q[1] = ByteOf(N, 1)
      BY <1>3, <3>2
    <3> QED
      BY <3>1, <3>3
  <2>2. CASE P # <<>>
    <3>1. 1 \in 1..Len(P)
      BY <1>1, <2>2
    <3> QED
      BY <1>3, <2>2, <3>1 DEF Missing
  <2> QED
    BY <2>1, <2>2
<1>10. Q[Len(Q)] = ByteOf(Len(T), T[Len(T)] + 1)
  <2>1. length + 1 \in 1..(length + 1) /\ Len(Q) = Len(P) + (length + 1)
    BY <1>1, <1>3
  <2> QED
    BY <1>3, <1>4, <2>1
<1>11. Missing(Q, T, L, B)
  BY <1>6, <1>7, <1>8, <1>9, <1>10 DEF Missing
<1> QED
  BY <1>11 DEF M, Q, T

LEMMA MissingRead ==
  ASSUME NEW P \in Seq(Byte), P # <<>>, NEW S \in Seq(Lengths),
         NEW L \in Nat, NEW B \in Nat, Missing(P, S, L, B)
  PROVE  /\ Head(P) = ByteOf(L + 1, B + 1)
         /\ L + 1 \in 1..Len(S) /\ B <= S[L + 1]
         /\ B = S[L + 1] => Missing(Tail(P), S, L + 1, 0)
         /\ B # S[L + 1] => Missing(Tail(P), S, L, B + 1)
<1>1. /\ Len(P) \in Nat \ {0} /\ Len(S) \in Nat /\ 1 \in 1..Len(P)
      /\ \A n \in 1..Len(S) : S[n] \in Nat
  <2>1. \A n \in 1..Len(S) : S[n] \in Lengths
    OBVIOUS
  <2> QED
    <3>1. \A n \in 1..Len(S) : S[n] \in Nat
      BY <2>1, LengthAssumption
    <3>2. Len(P) \in Nat \ {0} /\ Len(S) \in Nat
      BY EmptySeq
    <3> QED
      BY <3>1, <3>2
<1>2. P[1] = ByteOf(L + 1, B + 1) /\ Head(P) = P[1]
  BY DEF Missing
<1>3. L + 1 \in 1..Len(S) /\ B + 1 \in 1..(S[L + 1] + 1)
  <2>1. P[1].msg \in 1..Len(S) /\ P[1].at \in 1..(S[P[1].msg] + 1)
    BY <1>1 DEF Missing
  <2>2. P[1].msg = L + 1 /\ P[1].at = B + 1
    BY <1>2 DEF ByteOf
  <2> QED
    BY <2>1, <2>2
<1>4. S[L + 1] \in Nat
  BY <1>1, <1>3
<1>5. B <= S[L + 1]
  BY <1>3, <1>4
<1> DEFINE R == Tail(P)
<1>6. /\ R \in Seq(Byte) /\ Len(R) = Len(P) - 1
      /\ \A k \in 1..(Len(P) - 1) : R[k] = P[k + 1]
  BY <1>1
<1> HIDE DEF R
<1>7. ASSUME NEW k \in 1..Len(R)
      PROVE  R[k].msg \in 1..Len(S) /\ R[k].at \in 1..(S[R[k].msg] + 1)
  <2>1. k \in 1..(Len(P) - 1) /\ k + 1 \in 1..Len(P)
    BY <1>1, <1>6
  <2> QED
    BY <1>6, <2>1 DEF Missing
<1>8. ASSUME NEW k \in 1..(Len(R) - 1)
      PROVE  R[k + 1] = Following(S, R[k])
  <2>1. /\ k \in 1..(Len(P) - 1) /\ k + 1 \in 1..(Len(P) - 1)
    BY <1>1, <1>6
  <2>2. R[k] = P[k + 1] /\ R[k + 1] = P[(k + 1) + 1]
    BY <1>6, <2>1
  <2> QED
    BY <2>1, <2>2 DEF Missing
<1>9. CASE Len(P) = 1
  <2>1. P[1] = ByteOf(Len(S), S[Len(S)] + 1)
    BY <1>9 DEF Missing
  <2>2. L + 1 = Len(S) /\ B + 1 = S[Len(S)] + 1
    BY <1>2, <2>1 DEF ByteOf
  <2>3. B = S[L + 1]
    BY <1>4, <2>2
  <2>4. R = <<>>
    BY <1>6, <1>9
  <2>5. Missing(R, S, L + 1, 0)
    BY <1>7, <1>8, <2>2, <2>4 DEF Missing
  <2> QED
    BY <1>2, <1>3, <1>5, <2>3, <2>5 DEF R
<1>10. CASE Len(P) # 1
  <2>1. R # <<>> /\ Len(R) \in Nat \ {0} /\ 1 \in 1..(Len(P) - 1)
    BY <1>1, <1>6, <1>10
  <2>2. R[1] = Following(S, P[1])
    <3>1. P[1 + 1] = Following(S, P[1])
      BY <2>1 DEF Missing
    <3> QED
      BY <1>6, <2>1, <3>1
  <2>3. R[Len(R)] = ByteOf(Len(S), S[Len(S)] + 1)
    <3>1. Len(R) \in 1..(Len(P) - 1) /\ Len(R) + 1 = Len(P)
      BY <1>1, <1>6, <2>1
    <3>2. R[Len(R)] = P[Len(P)]
      BY <1>6, <3>1
    <3> QED
      BY <3>2 DEF Missing
  <2>4. CASE B = S[L + 1]
    <3>1. ~(B + 1 <= S[L + 1])
      BY <1>4, <2>4
    <3>2. R[1] = ByteOf((L + 1) + 1, 0 + 1)
      BY <1>2, <2>2, <3>1 DEF Following, ByteOf
    <3>3. Missing(R, S, L + 1, 0)
      BY <1>7, <1>8, <2>1, <2>3, <3>2 DEF Missing
    <3> QED
      BY <1>2, <1>3, <1>5, <2>4, <3>3 DEF R
  <2>5. CASE B # S[L + 1]
    <3>1. B + 1 <= S[L + 1]
      BY <1>4, <1>5, <2>5
    <3>2. R[1] = ByteOf(L + 1, (B + 1) + 1)
      BY <1>2, <2>2, <3>1 DEF Following, ByteOf
    <3>3. Missing(R, S, L, B + 1)
      BY <1>7, <1>8, <2>1, <2>3, <3>2 DEF Missing
    <3> QED
      BY <1>2, <1>3, <1>5, <2>5, <3>3 DEF R
  <2> QED
    BY <2>4, <2>5
<1> QED
  BY <1>9, <1>10

\* What is missing of the messages written to a slot: the rest of the piece
\* onData() is at, and what is on its way.
Rest(s) == IF call # Idle /\ call.slot = s THEN call.rest ELSE <<>>
Pending(s) == Rest(s) \o wire[s]

\* A row holds the start of the message after those handed on.
RowOK(s) ==
    \A k \in 1..Len(buf[s]) : buf[s][k] = ByteOf(Len(lines[s]) + 1, k)

\* The inductive invariant: every byte is in a line, in the row, in the
\* piece being read or on its way, in the order it was written in.
InTransit(s) ==
    /\ Missing(Pending(s), sent[s], Len(lines[s]), Len(buf[s]))
    /\ RowOK(s)

LinesOf(s) ==
    /\ Len(lines[s]) <= Len(sent[s])
    /\ \A n \in DOMAIN lines[s] : lines[s][n] = Text(n, sent[s][n])

IInv == \A s \in Slots : LinesOf(s) /\ (s \in open => InTransit(s))

LEMMA TextIs ==
  ASSUME NEW b \in Seq(Byte), NEW n \in Nat, NEW length \in Nat,
         Len(b) = length, \A k \in 1..Len(b) : b[k] = ByteOf(n, k)
  PROVE  b = Text(n, length)
<1>1. b \in [1..length -> Byte]
  BY LenProperties
<1> QED
  BY <1>1 DEF Text

LEMMA SlotTypes ==
  ASSUME TypeOK, NEW s \in Slots
  PROVE  /\ sent[s] \in Seq(Lengths) /\ Len(sent[s]) \in Nat
         /\ wire[s] \in Seq(Byte)
         /\ buf[s] \in Seq(Byte) /\ Len(buf[s]) \in Nat
         /\ lines[s] \in Seq(Seq(Byte)) /\ Len(lines[s]) \in Nat
         /\ Rest(s) \in Seq(Byte) /\ Pending(s) \in Seq(Byte)
<1>1. Rest(s) \in Seq(Byte)
  BY DEF TypeOK, Rest
<1>2. sent[s] \in Seq(Lengths) /\ wire[s] \in Seq(Byte)
      /\ buf[s] \in Seq(Byte) /\ lines[s] \in Seq(Seq(Byte))
  BY DEF TypeOK
<1>3. Pending(s) \in Seq(Byte)
  BY <1>1, <1>2 DEF Pending
<1> QED
  BY <1>1, <1>2, <1>3

\* A slot of which nothing changes but that it may be closed.
LEMMA SlotUnchanged ==
  ASSUME NEW s \in Slots, LinesOf(s), s \in open => InTransit(s),
         sent'[s] = sent[s], lines'[s] = lines[s],
         s \in open' => /\ s \in open /\ wire'[s] = wire[s]
                        /\ buf'[s] = buf[s] /\ Rest(s)' = Rest(s)
  PROVE  LinesOf(s)' /\ (s \in open' => InTransit(s)')
<1>1. LinesOf(s)'
  BY DEF LinesOf
<1>2. ASSUME s \in open' PROVE InTransit(s)'
  BY <1>2 DEF InTransit, Pending, RowOK
<1> QED
  BY <1>1, <1>2

LEMMA StartStep ==
  ASSUME TypeOK, IInv, NEW s \in Slots, call = Idle, UNCHANGED call,
         open' = open \union {s}, StartReading(s)
  PROVE  IInv'
<1>1. /\ sent'[s] = <<>> /\ wire'[s] = <<>> /\ buf'[s] = <<>>
      /\ lines'[s] = <<>> /\ Rest(s)' = <<>>
  BY DEF StartReading, TypeOK, Rest
<1>2. Pending(s)' = <<>>
  BY <1>1 DEF Pending
<1>3. Len(<<>>) = 0
  OBVIOUS
<1>4. LinesOf(s)'
  BY <1>1 DEF LinesOf
<1>5. InTransit(s)'
  BY <1>1, <1>2, <1>3 DEF InTransit, Missing, RowOK
<1>6. ASSUME NEW t \in Slots, t # s
      PROVE  LinesOf(t)' /\ (t \in open' => InTransit(t)')
  <2>1. /\ sent'[t] = sent[t] /\ wire'[t] = wire[t] /\ buf'[t] = buf[t]
        /\ lines'[t] = lines[t] /\ Rest(t)' = Rest(t)
        /\ t \in open' => t \in open
    BY <1>6 DEF StartReading, TypeOK, Rest
  <2> QED
    BY <2>1, SlotUnchanged DEF IInv
<1> QED
  BY <1>4, <1>5, <1>6 DEF IInv

LEMMA CloseStep ==
  ASSUME IInv, call = Idle, UNCHANGED <<sent, buf, lines, call>>,
         open' \subseteq open,
         \A s \in open' : wire'[s] = wire[s]
  PROVE  IInv'
<1> SUFFICES ASSUME NEW s \in Slots
             PROVE  LinesOf(s)' /\ (s \in open' => InTransit(s)')
  BY DEF IInv
<1>1. Rest(s)' = Rest(s)
  BY DEF Rest
<1> QED
  BY <1>1, SlotUnchanged DEF IInv

LEMMA SendStep ==
  ASSUME RoomForSegment, TypeOK, IInv, NEW s \in Slots,
         NEW length \in Lengths, Send(s, length)
  PROVE  IInv'
<1> DEFINE M == Line(Len(sent[s]) + 1, length)
<1>1. /\ sent[s] \in Seq(Lengths) /\ wire[s] \in Seq(Byte)
      /\ Rest(s) \in Seq(Byte) /\ Pending(s) \in Seq(Byte)
      /\ Len(lines[s]) \in Nat /\ Len(buf[s]) \in Nat /\ length \in Nat
      /\ Len(sent[s]) \in Nat
  BY SlotTypes, LengthAssumption
<1>2. M \in Seq(Byte) /\ Len(M) = length + 1
  <2>1. Len(sent[s]) + 1 \in Nat
    BY <1>1
  <2> QED
    BY <1>1, <2>1, LineType
<1>3. wire'[s] = wire[s] \o M
  <2>1. PICK taken \in 0..(length + 1) :
           /\ taken <= length => ShortWrites
           /\ wire' = [wire EXCEPT ![s] = @ \o SubSeq(M, 1, taken)]
    BY DEF Send
  <2>2. taken = Len(M)
    BY <1>1, <1>2, <2>1 DEF RoomForSegment
  <2> HIDE DEF M
  <2>3. SubSeq(M, 1, Len(M)) = M
    BY <1>2
  <2> QED
    BY <2>1, <2>2, <2>3 DEF TypeOK
<1> HIDE DEF M
<1>4. /\ s \in open /\ sent'[s] = Append(sent[s], length)
      /\ open' = open /\ buf' = buf /\ lines' = lines /\ call' = call
      /\ Rest(s)' = Rest(s)
  BY DEF Send, TypeOK, Rest
<1>5. Pending(s)' = Pending(s) \o M
  <2>1. Rest(s) \o (wire[s] \o M) = (Rest(s) \o wire[s]) \o M
    <3>1. \A r, w, m \in Seq(Byte) : r \o (w \o m) = (r \o w) \o m
      BY ConcatAssociative
    <3> QED
      BY <1>1, <1>2, <3>1
  <2>2. Pending(s)' = Rest(s)' \o wire'[s]
    BY DEF Pending
  <2> QED
    BY <1>3, <1>4, <2>1, <2>2 DEF Pending
<1>6. InTransit(s)'
  <2>1. Missing(Pending(s), sent[s], Len(lines[s]), Len(buf[s])) /\ RowOK(s)
    BY <1>4 DEF IInv, InTransit
  <2>2. Missing(Pending(s) \o M, Append(sent[s], length), Len(lines[s]),
                Len(buf[s]))
    BY <1>1, <2>1, MissingSent DEF M
  <2>3. RowOK(s)'
    BY <1>4, <2>1 DEF RowOK
  <2> QED
    BY <1>4, <1>5, <2>2, <2>3 DEF InTransit
<1>7. LinesOf(s)'
  <2>1. lines[s] \in Seq(Seq(Byte)) /\ LinesOf(s)
    BY SlotTypes DEF IInv
  <2>2. /\ Len(sent'[s]) = Len(sent[s]) + 1
        /\ \A n \in 1..Len(sent[s]) : sent'[s][n] = sent[s][n]
    BY <1>1, <1>4
  <2>3. DOMAIN lines[s] = 1..Len(lines[s]) /\ Len(lines[s]) <= Len(sent[s])
    BY <2>1 DEF LinesOf
  <2>4. ASSUME NEW n \in DOMAIN lines[s]
        PROVE  lines[s][n] = Text(n, sent'[s][n])
    <3>1. n \in 1..Len(sent[s])
      BY <1>1, <2>3
    <3> QED
      BY <2>1, <2>2, <3>1 DEF LinesOf
  <2> QED
    BY <1>1, <1>4, <2>2, <2>3, <2>4 DEF LinesOf
<1>8. ASSUME NEW t \in Slots, t # s
      PROVE  LinesOf(t)' /\ (t \in open' => InTransit(t)')
  <2>1. /\ sent'[t] = sent[t] /\ wire'[t] = wire[t] /\ Rest(t)' = Rest(t)
    BY <1>8 DEF Send, TypeOK, Rest
  <2> QED
    BY <1>4, <2>1, SlotUnchanged DEF IInv
<1> QED
  BY <1>6, <1>7, <1>8 DEF IInv

LEMMA DataStep ==
  ASSUME RoomForSegment, TypeOK, IInv, NEW s \in Slots, DataArrives(s)
  PROVE  IInv'
<1>1. /\ sent[s] \in Seq(Lengths) /\ wire[s] \in Seq(Byte)
      /\ Len(wire[s]) \in Nat /\ Len(sent[s]) \in Nat
      /\ Len(lines[s]) \in Nat /\ Len(buf[s]) \in Nat
  BY SlotTypes
<1>2. call = Idle /\ s \in open /\ UNCHANGED <<open, sent, lines>>
  BY DEF DataArrives
<1>3. PICK len \in 1..Len(wire[s]) :
         /\ len <= Mss
         /\ wire' = [wire EXCEPT ![s] = SubSeq(@, len + 1, Len(@))]
         /\ IF Fits(s, len)
            THEN /\ call' = [slot |-> s, rest |-> SubSeq(wire[s], 1, len)]
                 /\ UNCHANGED buf
            ELSE /\ buf' = [buf EXCEPT ![s] = <<>>]
                 /\ UNCHANGED call
  BY DEF DataArrives
<1> DEFINE front == SubSeq(wire[s], 1, len)
           back  == SubSeq(wire[s], len + 1, Len(wire[s]))
<1>4. /\ front \in Seq(Byte) /\ Len(front) = len
      /\ back \in Seq(Byte) /\ Len(back) = Len(wire[s]) - len
      /\ \A k \in 1..len : front[k] = wire[s][k]
      /\ \A k \in 1..(Len(wire[s]) - len) : back[k] = wire[s][len + k]
  <2>1. len \in 0..Len(wire[s])
    BY <1>1
  <2> QED
    BY <1>1, <2>1, Cut, SMTT(30)
<1>5. Pending(s) = wire[s] /\ wire[s] # <<>>
  BY <1>1, <1>2 DEF Pending, Rest
<1>6. Fits(s, len)
  <2>1. Missing(wire[s], sent[s], Len(lines[s]), Len(buf[s]))
    BY <1>2, <1>5 DEF IInv, InTransit
  <2>2. /\ Len(lines[s]) + 1 \in 1..Len(sent[s])
        /\ Len(buf[s]) <= sent[s][Len(lines[s]) + 1]
    BY <1>1, <1>5, <2>1, MissingRead
  <2>3. sent[s][Len(lines[s]) + 1] \in Lengths
    BY <1>1, <2>2
  <2> DEFINE longest == sent[s][Len(lines[s]) + 1]
  <2>4. longest + Mss <= MaxPacket /\ longest \in Nat
    BY <2>3, LengthAssumption DEF RoomForSegment
  <2>5. Len(buf[s]) <= longest
    BY <2>2
  <2> HIDE DEF longest
  <2> QED
    BY <1>1, <1>3, <2>4, <2>5, SizeAssumption DEF Fits
<1> HIDE DEF front, back
<1>7. /\ call' = [slot |-> s, rest |-> front] /\ buf' = buf
      /\ wire'[s] = back
  BY <1>3, <1>6 DEF TypeOK, front, back
<1>8. Rest(s)' = front
  <2>1. call' # Idle
    BY <1>7, SlotAssumption DEF Idle
  <2> QED
    BY <1>7, <2>1 DEF Rest
<1>9. front \o back = wire[s]
  <2>1. /\ front \o back \in Seq(Byte)
        /\ Len(front \o back) = Len(wire[s])
    BY <1>1, <1>4
  <2>2. ASSUME NEW k \in 1..Len(wire[s])
        PROVE  (front \o back)[k] = wire[s][k]
    <3>1. CASE k <= len
      <4>1. (front \o back)[k] = front[k]
        BY <1>4, <2>1, <3>1
      <4> QED
        BY <1>4, <3>1, <4>1
    <3>2. CASE k > len
      <4>1. (front \o back)[k] = back[k - len]
        BY <1>1, <1>4, <2>1, <3>2
      <4>2. k - len \in 1..(Len(wire[s]) - len) /\ len + (k - len) = k
        BY <1>1, <3>2
      <4> QED
        BY <1>4, <4>1, <4>2
    <3>3. k <= len \/ k > len
      BY <1>1
    <3> QED
      BY <3>1, <3>2, <3>3
  <2> QED
    BY <1>1, <2>1, <2>2, SeqEqual
<1>10. Pending(s)' = Pending(s)
  BY <1>5, <1>7, <1>8, <1>9 DEF Pending
<1>11. LinesOf(s)' /\ InTransit(s)'
  BY <1>2, <1>7, <1>10 DEF IInv, LinesOf, InTransit, RowOK
<1>12. ASSUME NEW t \in Slots, t # s
       PROVE  LinesOf(t)' /\ (t \in open' => InTransit(t)')
  <2>1. wire'[t] = wire[t]
    BY <1>3, <1>12 DEF TypeOK
  <2>2. Rest(t)' = Rest(t)
    BY <1>2, <1>7, <1>12 DEF Rest
  <2> QED
    BY <1>2, <1>7, <2>1, <2>2, SlotUnchanged DEF IInv
<1> QED
  BY <1>11, <1>12 DEF IInv

LEMMA TailConcat ==
  ASSUME NEW S, NEW s \in Seq(S), NEW t \in Seq(S), s # <<>>
  PROVE  /\ s \o t # <<>> /\ Head(s \o t) = Head(s)
         /\ Tail(s \o t) = Tail(s) \o t
<1>1. Len(s) \in Nat \ {0} /\ Len(t) \in Nat
  BY EmptySeq
<1>2. /\ s \o t \in Seq(S) /\ Len(s \o t) = Len(s) + Len(t)
      /\ s \o t # <<>>
  BY <1>1
<1>3. Head(s \o t) = Head(s)
  BY <1>1, <1>2
<1>4. /\ Tail(s) \in Seq(S) /\ Len(Tail(s)) = Len(s) - 1
      /\ \A k \in 1..(Len(s) - 1) : Tail(s)[k] = s[k + 1]
  BY <1>1
<1>5. /\ Tail(s \o t) \in Seq(S) /\ Len(Tail(s \o t)) = Len(s) + Len(t) - 1
      /\ \A k \in 1..(Len(s) + Len(t) - 1) : Tail(s \o t)[k] = (s \o t)[k + 1]
  BY <1>1, <1>2
<1> DEFINE u == Tail(s)
           v == Tail(s \o t)
<1>6. u \o t \in Seq(S) /\ Len(u \o t) = Len(s) + Len(t) - 1
  BY <1>1, <1>4
<1>7. ASSUME NEW k \in 1..(Len(s) + Len(t) - 1)
      PROVE  v[k] = (u \o t)[k]
  <2>1. k \in Nat /\ v[k] = (s \o t)[k + 1]
    BY <1>1, <1>5
  <2>2. CASE k <= Len(s) - 1
    <3>1. k + 1 \in 1..Len(s) /\ k \in 1..Len(u)
      BY <1>1, <1>4, <2>1, <2>2
    <3>2. (s \o t)[k + 1] = s[k + 1] /\ (u \o t)[k] = u[k]
      BY <1>1, <1>4, <3>1, ConcatProperties
    <3> QED
      BY <1>4, <2>1, <3>1, <3>2
  <2>3. CASE k > Len(s) - 1
    <3>1. /\ (s \o t)[k + 1] = t[(k + 1) - Len(s)]
          /\ (u \o t)[k] = t[k - Len(u)]
      BY <1>1, <1>4, <2>1, <2>3, ConcatProperties
    <3> QED
      BY <1>1, <1>4, <2>1, <3>1
  <2> QED
    BY <1>1, <2>1, <2>2, <2>3
<1> HIDE DEF u, v
<1>8. v \in Seq(S) /\ Len(v) = Len(s) + Len(t) - 1
  BY <1>5 DEF v
<1>9. u \o t \in Seq(S) /\ Len(u \o t) = Len(s) + Len(t) - 1
  BY <1>6
<1>10. v = u \o t
  BY <1>7, <1>8, <1>9, SeqEqual
<1> QED
  BY <1>2, <1>3, <1>10 DEF u, v

LEMMA ReadSlot ==
  ASSUME TypeOK, IInv, ReadByte, NEW s, s = call.slot,
         NEW b, b = Head(call.rest),
         NEW L \in Nat, L = Len(lines[s]), NEW B \in Nat, B = Len(buf[s])
  PROVE  IInv'
<1>1. /\ call # Idle /\ s \in open /\ s \in Slots
      /\ call.rest \in Seq(Byte) /\ call.rest # <<>>
      /\ UNCHANGED <<open, sent, wire>>
  BY DEF TypeOK, ReadByte
<1>2. /\ sent[s] \in Seq(Lengths) /\ wire[s] \in Seq(Byte)
      /\ buf[s] \in Seq(Byte) /\ lines[s] \in Seq(Seq(Byte))
      /\ L \in Nat /\ B \in Nat /\ Len(sent[s]) \in Nat
      /\ Pending(s) \in Seq(Byte)
  BY <1>1, SlotTypes
<1>3. Pending(s) = call.rest \o wire[s]
  BY <1>1 DEF Pending, Rest
<1>4. Pending(s) # <<>> /\ Head(Pending(s)) = b
  <2>1. \A r, w \in Seq(Byte) : r # <<>> =>
           r \o w # <<>> /\ Head(r \o w) = Head(r)
    BY TailConcat
  <2> QED
    BY <1>1, <1>2, <1>3, <2>1
<1>5. Pending(s)' = Tail(Pending(s))
  <2>1. Rest(s)' = Tail(call.rest)
    <3>1. CASE Len(call.rest) = 1
      <4>1. call' = Idle
        BY <3>1 DEF ReadByte
      <4>2. Tail(call.rest) = <<>>
        <5>1. Tail(call.rest) \in Seq(Byte) /\ Len(Tail(call.rest)) = 0
          BY <1>1, <3>1
        <5> QED
          BY <5>1, EmptySeq
      <4> QED
        BY <4>1, <4>2 DEF Rest
    <3>2. CASE Len(call.rest) # 1
      <4>1. call' = [call EXCEPT !.rest = Tail(@)]
        BY <3>2 DEF ReadByte
      <4>2. call'.slot = s /\ call'.rest = Tail(call.rest)
        BY <1>1, <4>1 DEF TypeOK
      <4>3. call' # Idle
        BY <1>1, <4>2, SlotAssumption DEF Idle
      <4> QED
        BY <4>2, <4>3 DEF Rest
    <3> QED
      BY <3>1, <3>2
  <2>2. Pending(s)' = Tail(call.rest) \o wire[s]
    BY <1>1, <1>2, <2>1 DEF Pending
  <2>3. Tail(call.rest \o wire[s]) = Tail(call.rest) \o wire[s]
    BY <1>1, <1>2, TailConcat
  <2> QED
    BY <1>3, <2>2, <2>3
<1>6. Missing(Pending(s), sent[s], L, B) /\ RowOK(s) /\ LinesOf(s)
  BY <1>1 DEF IInv, InTransit
<1>7. /\ b = ByteOf(L + 1, B + 1)
      /\ L + 1 \in 1..Len(sent[s]) /\ B <= sent[s][L + 1]
      /\ B = sent[s][L + 1] => Missing(Pending(s)', sent[s], L + 1, 0)
      /\ B # sent[s][L + 1] => Missing(Pending(s)', sent[s], L, B + 1)
  <2>1. /\ Head(Pending(s)) = ByteOf(L + 1, B + 1)
        /\ L + 1 \in 1..Len(sent[s]) /\ B <= sent[s][L + 1]
        /\ B = sent[s][L + 1] => Missing(Tail(Pending(s)), sent[s], L + 1, 0)
        /\ B # sent[s][L + 1] => Missing(Tail(Pending(s)), sent[s], L, B + 1)
    <3>1. PICK P \in Seq(Byte) : P = Pending(s)
      BY <1>2
    <3>2. PICK S \in Seq(Lengths) : S = sent[s]
      BY <1>2
    <3>3. P # <<>> /\ Missing(P, S, L, B)
      BY <1>4, <1>6, <3>1, <3>2
    <3>4. /\ Head(P) = ByteOf(L + 1, B + 1)
          /\ L + 1 \in 1..Len(S) /\ B <= S[L + 1]
          /\ B = S[L + 1] => Missing(Tail(P), S, L + 1, 0)
          /\ B # S[L + 1] => Missing(Tail(P), S, L, B + 1)
      BY <3>3, MissingRead
    <3> QED
      BY <3>1, <3>2, <3>4
  <2> QED
    BY <1>4, <1>5, <2>1
<1>8. sent[s][L + 1] \in Nat
  <2>1. sent[s][L + 1] \in Lengths
    BY <1>2, <1>7
  <2> QED
    BY <2>1, LengthAssumption
<1>9. IsNewline(s, b) <=> B = sent[s][L + 1]
  <2>1. b.msg = L + 1 /\ b.at = B + 1
    BY <1>7 DEF ByteOf
  <2> QED
    <3>1. IsNewline(s, b) <=> B + 1 = sent[s][L + 1] + 1
      BY <2>1 DEF IsNewline
    <3>2. B + 1 = sent[s][L + 1] + 1 <=> B = sent[s][L + 1]
      BY <1>8
    <3> QED
      BY <3>1, <3>2, Zenon
<1>10. TakeByte(s, b) /\ s \in Slots
  BY <1>1 DEF ReadByte
<1>11. ASSUME B = sent[s][L + 1] PROVE LinesOf(s)' /\ InTransit(s)'
  <2>1. /\ lines' = [lines EXCEPT ![s] = Append(@, buf[s])]
        /\ buf' = [buf EXCEPT ![s] = <<>>]
    BY <1>9, <1>10, <1>11 DEF TakeByte
  <2>2. lines'[s] = Append(lines[s], buf[s]) /\ buf'[s] = <<>>
    BY <1>10, <2>1 DEF TypeOK
  <2>3. /\ Len(lines'[s]) = L + 1 /\ lines'[s][L + 1] = buf[s]
        /\ \A n \in 1..L : lines'[s][n] = lines[s][n]
        /\ DOMAIN lines'[s] = 1..(L + 1)
        /\ DOMAIN lines[s] = 1..L
    BY <1>2, <2>2
  <2>4. buf[s] = Text(L + 1, sent[s][L + 1])
    <3>1. /\ Len(buf[s]) = sent[s][L + 1]
          /\ \A k \in 1..Len(buf[s]) : buf[s][k] = ByteOf(L + 1, k)
      BY <1>6, <1>11 DEF RowOK
    <3>2. L + 1 \in Nat
      BY <1>2
    <3> QED
      <4>1. PICK r \in Seq(Byte) : r = buf[s]
        BY <1>2
      <4>2. PICK x \in Nat : x = sent[s][L + 1]
        BY <1>8
      <4>3. r = Text(L + 1, x)
        BY <3>1, <3>2, <4>1, <4>2, TextIs
      <4> QED
        BY <4>1, <4>2, <4>3
  <2>5. LinesOf(s)'
    <3>1. ASSUME NEW n \in 1..(L + 1)
          PROVE  lines'[s][n] = Text(n, sent[s][n])
      <4>1. CASE n = L + 1
        BY <2>3, <2>4, <4>1
      <4>2. CASE n # L + 1
        <5>1. n \in 1..L
          BY <4>2
        <5> QED
          BY <1>6, <2>3, <5>1 DEF LinesOf
      <4> QED
        BY <4>1, <4>2
    <3>2. L + 1 <= Len(sent[s])
      BY <1>7
    <3> QED
      BY <1>1, <2>3, <3>1, <3>2 DEF LinesOf
  <2>6. InTransit(s)'
    <3>1. Len(buf'[s]) = 0
      BY <2>2
    <3> QED
      BY <1>1, <1>7, <1>11, <2>3, <3>1 DEF InTransit, RowOK
  <2> QED
    BY <2>5, <2>6
<1>12. ASSUME B # sent[s][L + 1] PROVE LinesOf(s)' /\ InTransit(s)'
  <2>1. lines' = lines /\ buf' = [buf EXCEPT ![s] = Append(@, b)]
    BY <1>9, <1>10, <1>12 DEF TakeByte
  <2>2. buf'[s] = Append(buf[s], b)
    BY <1>10, <2>1 DEF TypeOK
  <2>3. /\ Len(buf'[s]) = B + 1 /\ buf'[s][B + 1] = b
        /\ \A k \in 1..B : buf'[s][k] = buf[s][k]
    BY <1>2, <2>2
  <2>4. LinesOf(s)'
    BY <1>1, <1>6, <2>1 DEF LinesOf
  <2>5. RowOK(s)'
    <3>1. ASSUME NEW k \in 1..(B + 1) PROVE buf'[s][k] = ByteOf(L + 1, k)
      <4>1. CASE k = B + 1
        BY <1>7, <2>3, <4>1
      <4>2. CASE k # B + 1
        <5>1. k \in 1..B
          BY <1>2, <4>2
        <5> QED
          BY <1>6, <2>3, <5>1 DEF RowOK
      <4> QED
        BY <4>1, <4>2
    <3> QED
      BY <2>1, <2>3, <3>1 DEF RowOK
  <2>6. InTransit(s)'
    BY <1>1, <1>7, <1>12, <2>1, <2>3, <2>5 DEF InTransit
  <2> QED
    BY <2>4, <2>6
<1>13. ASSUME NEW t \in Slots, t # s
       PROVE  LinesOf(t)' /\ (t \in open' => InTransit(t)')
  <2>1. buf'[t] = buf[t] /\ lines'[t] = lines[t]
    BY <1>10, <1>13 DEF TakeByte, TypeOK
  <2>2. Rest(t)' = Rest(t)
    <3>1. Rest(t) = <<>>
      BY <1>13 DEF Rest
    <3>2. call' = Idle \/ call'.slot = call.slot
      BY DEF ReadByte, TypeOK
    <3>3. Rest(t)' = <<>>
      BY <1>13, <3>2 DEF Rest
    <3> QED
      BY <3>1, <3>3
  <2> QED
    BY <1>1, <2>1, <2>2, SlotUnchanged DEF IInv
<1> QED
  BY <1>11, <1>12, <1>13 DEF IInv

LEMMA ReadStep ==
  ASSUME TypeOK, IInv, ReadByte
  PROVE  IInv'
<1>1. call.slot \in Slots
  BY DEF TypeOK, ReadByte
<1>2. Len(lines[call.slot]) \in Nat /\ Len(buf[call.slot]) \in Nat
  BY <1>1, SlotTypes
<1> QED
  BY <1>2, ReadSlot

LEMMA StepIInv ==
  ASSUME RoomForSegment, TypeOK, IInv, [Next]_vars
  PROVE  IInv'
<1>1. CASE UplinkConnects
  BY <1>1, StartStep DEF UplinkConnects
<1>2. CASE UplinkGone
  BY <1>2, CloseStep DEF UplinkGone
<1>3. CASE ReadByte
  BY <1>3, ReadStep
<1>4. ASSUME NEW s \in Slots, ClientConnects(s) PROVE IInv'
  BY <1>4, StartStep DEF ClientConnects
<1>5. ASSUME NEW s \in Slots, ClientGone(s) PROVE IInv'
  <2>1. \A t \in open' : wire'[t] = wire[t]
    BY <1>5 DEF ClientGone, TypeOK
  <2> QED
    BY <1>5, <2>1, CloseStep DEF ClientGone
<1>6. ASSUME NEW s \in Slots, DataArrives(s) PROVE IInv'
  BY <1>6, DataStep
<1>7. ASSUME NEW s \in Slots, NEW length \in Lengths, Send(s, length)
      PROVE  IInv'
  BY <1>7, SendStep
<1>8. CASE UNCHANGED vars
  <2>1. \A s \in Slots : Rest(s)' = Rest(s)
    BY <1>8 DEF vars, Rest
  <2> QED
    BY <1>8, <2>1, SlotUnchanged DEF vars, IInv
<1> QED
  BY <1>1, <1>2, <1>3, <1>4, <1>5, <1>6, <1>7, <1>8 DEF Next

\* Where a row has room for the longest line and one segment, and writes are
\* taken whole, each connection hands on the messages written on it, whole
\* and in their order, however TCP cuts or joins them and however slots are
\* reused: the lines of onData() are the messages of send_message().
THEOREM MessagesWhole ==
  ASSUME RoomForSegment
  PROVE  Spec => []LinesAreMessages
<1>1. Init => IInv
  BY DEF Init, IInv, LinesOf
<1>2. TypeOK /\ IInv /\ [Next]_vars => IInv'
  BY StepIInv
<1>3. IInv => LinesAreMessages
  BY DEF IInv, LinesOf, LinesAreMessages
<1> QED
  BY <1>1, <1>2, <1>3, FramingTypes, PTL DEF Spec

=============================================================================
