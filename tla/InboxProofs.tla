----------------------------- MODULE InboxProofs -----------------------------
(***************************************************************************)
(* Proofs about Inbox.tla, for rows of any length, any number of children  *)
(* and messages of any lengths: what is handed on is whole, and where the  *)
(* terminator of a message may be written.                                 *)
(***************************************************************************)
EXTENDS Inbox, NaturalsInduction, WellFoundedInduction, TLAPS

USE PacketAssumption, ClientsAssumption, MessagesAssumption

-----------------------------------------------------------------------------
(* Rows.                                                                   *)

LEMMA RowsApart ==
  ASSUME NEW M \in Nat, NEW r \in Nat, NEW s \in Nat, r < s
  PROVE  r * M + M <= s * M /\ r * M \in Nat /\ s * M \in Nat
<1>1. PICK k \in Nat : s = r + 1 + k
  <2>1. s - r - 1 \in Nat /\ s = r + 1 + (s - r - 1)
    OBVIOUS
  <2> QED
    BY <2>1
<1>2. r * M \in Nat /\ k * M \in Nat
  OBVIOUS
<1>3. (r + 1 + k) * M = r * M + M + k * M
  OBVIOUS
<1> QED
  BY <1>1, <1>2, <1>3

\* Every row lies in the array, and no two of them meet.
LEMMA Layout ==
  /\ Size \in Nat /\ Size >= MaxPacket
  /\ \A r \in Rows : Row(r) \in Nat /\ Row(r) + MaxPacket <= Size
  /\ \A r \in Rows \ {0} : Row(r) >= MaxPacket
  /\ Row(0) = 0
  /\ \A r, s \in Rows : r # s => \/ Row(r) + MaxPacket <= Row(s)
                                 \/ Row(s) + MaxPacket <= Row(r)
<1>1. \A r, s \in Nat : r < s => /\ Row(r) + MaxPacket <= Row(s)
                                 /\ Row(r) \in Nat /\ Row(s) \in Nat
  BY RowsApart DEF Row
<1>2. Size = Row(NumClients + 1) /\ Row(0) = 0
  BY DEF Size, Row
<1>3. \A r \in Rows : r \in Nat /\ r < NumClients + 1
  BY DEF Rows
<1> HIDE DEF Row, Size, Rows
<1>4. \A r \in Rows : Row(r) \in Nat /\ Row(r) + MaxPacket <= Size
  BY <1>1, <1>2, <1>3
<1>5. \A r \in Rows \ {0} : Row(r) >= MaxPacket
  BY <1>1, <1>2, <1>3
<1>6. Size \in Nat /\ Size >= MaxPacket
  BY <1>1, <1>2
<1>7. ASSUME NEW r \in Rows, NEW s \in Rows, r # s
      PROVE  Row(r) + MaxPacket <= Row(s) \/ Row(s) + MaxPacket <= Row(r)
  <2>1. r < s \/ s < r
    BY <1>3, <1>7
  <2> QED
    BY <1>1, <1>3, <2>1
<1> QED
  BY <1>2, <1>4, <1>5, <1>6, <1>7

-----------------------------------------------------------------------------
(* C strings.                                                              *)

\* A string has an end: its terminator or the end of the array.
LEMMA StringEnds ==
  ASSUME NEW memory \in [Cells -> Byte], NEW c \in 0..Size
  PROVE  \E e \in c..Size : EndOfString(memory, c, e)
<1> DEFINE T == {e \in c..Size : e \in Cells => memory[e] = Zero}
<1>1. Size \in T /\ T \subseteq Nat
  BY Layout DEF Cells
<1>2. PICK e \in T : \A d \in T : ~(<<d, e>> \in OpToRel(<, Nat))
  BY <1>1, NatLessThanWellFounded, WFMin
<1>3. ASSUME NEW d \in c..(e - 1) PROVE d \notin T /\ d \in c..Size
  <2>1. Size \in Nat /\ e \in c..Size
    BY Layout
  <2>2. d \in c..Size /\ d \in Nat /\ e \in Nat /\ d < e
    BY <2>1
  <2>3. <<d, e>> \in OpToRel(<, Nat)
    BY <2>2 DEF OpToRel
  <2> QED
    BY <1>2, <2>2, <2>3
<1> QED
  BY <1>2, <1>3 DEF EndOfString

LEMMA StringTyped ==
  ASSUME NEW memory \in [Cells -> Byte], NEW c \in 0..Size
  PROVE  StringAt(memory, c) \in Seq(Byte)
<1> DEFINE e == CHOOSE e \in c..Size : EndOfString(memory, c, e)
<1>1. e \in c..Size
  BY StringEnds
<1>2. StringAt(memory, c) = [i \in 1..(e - c) |-> memory[c + i - 1]]
  BY DEF StringAt
<1> HIDE DEF e
<1>3. e - c \in Nat
  BY <1>1, Layout
<1>4. \A i \in 1..(e - c) : c + i - 1 \in Cells
  BY <1>1, Layout DEF Cells
<1> QED
  BY <1>2, <1>3, <1>4

\* A string without a terminator in its first n places and with one behind
\* them is those n places.
LEMMA StringIs ==
  ASSUME NEW memory \in [Cells -> Byte], NEW c \in Nat, NEW n \in Nat,
         c + n \in Cells, memory[c + n] = Zero,
         \A d \in c..(c + n - 1) : memory[d] # Zero
  PROVE  StringAt(memory, c) = [i \in 1..n |-> memory[c + i - 1]]
<1> DEFINE e == CHOOSE e \in c..Size : EndOfString(memory, c, e)
<1>1. c \in 0..Size
  BY Layout DEF Cells
<1>2. e \in c..Size /\ EndOfString(memory, c, e)
  BY <1>1, StringEnds
<1>3. StringAt(memory, c) = [i \in 1..(e - c) |-> memory[c + i - 1]]
  BY DEF StringAt
<1> HIDE DEF e
<1>4. e \in Nat
  BY <1>2, Layout
<1>5. ~(e < c + n)
  BY <1>2, <1>4, Layout DEF EndOfString, Cells
<1>6. ~(e > c + n)
  BY <1>2, <1>4 DEF EndOfString
<1>7. e - c = n
  BY <1>4, <1>5, <1>6
<1> QED
  BY <1>3, <1>7

-----------------------------------------------------------------------------
(* The invariant.                                                          *)

\* Of a message under way, what was copied is there: a part that did not fit
\* the row is followed by parts that do not either.
MessageInv ==
    message.busy =>
        /\ link = "router" /\ message.index <= message.total
        /\ message.total >= MaxPacket => tooLong
        /\ message.index < MaxPacket =>
              \A c \in 0..(message.index - 1) :
                  inbuffer[c] = ByteOf(Mqtt, count[Mqtt], c + 1)

\* Of a line under way, what was read is there: in row 0 only while there is
\* a parent, in the others unless a terminator went astray.
LineAt(r) ==
    \A i \in 0..(bufptr[r] - 1) : inbuffer[Row(r) + i] = ByteOf(r, count[r], i + 1)

LineInv ==
    /\ link = "parent" => LineAt(0)
    /\ ~tooLong => \A r \in Rows \ {0} : LineAt(r)
    /\ \A r \in Rows : bufptr[r] > 0 => count[r] > 0

IInv == TypeOK /\ MessageInv /\ LineInv /\ HandedWhole

LEMMA Bytes ==
  /\ Zero \in Byte
  /\ \A who \in Senders, n \in 0..MaxMessages, i \in Nat :
        /\ ByteOf(who, n, i) \in Byte
        /\ i > 0 => ByteOf(who, n, i) # Zero
  /\ Mqtt \in Senders /\ Rows \subseteq Senders /\ 0 \in Rows
  /\ Mqtt \notin Rows /\ Rows \subseteq Nat
  BY DEF Zero, ByteOf, Byte, Senders, Rows, Mqtt

LEMMA InitIInv == Init => IInv
<1> SUFFICES ASSUME Init PROVE IInv
  OBVIOUS
<1> USE DEF Init
<1>1. TypeOK
  <2>1. inbuffer \in [Cells -> Byte]
    BY Bytes
  <2>2. handed \in [who : Senders, n : 0..MaxMessages, text : Seq(Byte), length : Nat]
    BY Bytes
  <2>3. message \in [total : Totals \union {0}, index : Nat, busy : BOOLEAN]
    BY DEF NoMessage
  <2>4. bufptr \in [Rows -> 0..(MaxPacket - 1)]
    OBVIOUS
  <2>5. count \in [Senders -> 0..MaxMessages]
    OBVIOUS
  <2> QED
    BY <2>1, <2>2, <2>3, <2>4, <2>5 DEF TypeOK
<1>2. MessageInv /\ LineInv
  BY DEF MessageInv, LineInv, LineAt, NoMessage
<1>3. HandedWhole
  BY DEF HandedWhole, TextOf
<1> QED
  BY <1>1, <1>2, <1>3 DEF IInv

\* A link comes or goes.
LEMMA LinkSteps ==
  ASSUME IInv,
         \/ RouterJoined
         \/ ParentJoined
         \/ LinkLost
         \/ \E r \in Rows : ClientConnects(r)
  PROVE  IInv'
<1> USE DEF IInv, NoMessage
<1>a. NoMessage \in [total : Totals \union {0}, index : Nat, busy : BOOLEAN]
  OBVIOUS
<1>1. CASE RouterJoined
  <2>1. TypeOK'
    BY <1>1, <1>a DEF RouterJoined, TypeOK
  <2>2. MessageInv'
    BY <1>1 DEF RouterJoined, MessageInv
  <2>3. LineInv'
    BY <1>1 DEF RouterJoined, LineInv, LineAt
  <2>4. HandedWhole'
    BY <1>1 DEF RouterJoined, HandedWhole
  <2> QED
    BY <2>1, <2>2, <2>3, <2>4
<1>2. CASE ParentJoined
  <2>1. TypeOK'
    <3>0. 0 \in 0..(MaxPacket - 1)
      OBVIOUS
    <3>1. bufptr' \in [Rows -> 0..(MaxPacket - 1)]
      BY <1>2, <3>0 DEF ParentJoined, TypeOK
    <3> QED
      BY <1>2, <3>1 DEF ParentJoined, TypeOK
  <2>2. MessageInv'
    BY <1>2 DEF ParentJoined, MessageInv
  <2>3. LineInv'
    <3>0. bufptr \in [Rows -> 0..(MaxPacket - 1)] /\ bufptr'[0] = 0
      BY <1>2, Bytes DEF ParentJoined, TypeOK
    <3>1. LineAt(0)'
      BY <3>0 DEF LineAt
    <3>2. \A r \in Rows \ {0} : LineAt(r) => LineAt(r)'
      BY <1>2, <3>0 DEF ParentJoined, LineAt
    <3>3. \A r \in Rows : bufptr'[r] > 0 => count'[r] > 0
      BY <1>2, <3>0 DEF ParentJoined, LineInv
    <3> QED
      BY <1>2, <3>1, <3>2, <3>3 DEF LineInv, ParentJoined
  <2>4. HandedWhole'
    BY <1>2 DEF ParentJoined, HandedWhole
  <2> QED
    BY <2>1, <2>2, <2>3, <2>4
<1>3. CASE LinkLost
  <2>1. TypeOK'
    BY <1>3, <1>a DEF LinkLost, TypeOK
  <2>2. MessageInv'
    BY <1>3 DEF LinkLost, MessageInv
  <2>3. LineInv'
    BY <1>3 DEF LinkLost, LineInv, LineAt
  <2>4. HandedWhole'
    BY <1>3 DEF LinkLost, HandedWhole
  <2> QED
    BY <2>1, <2>2, <2>3, <2>4
<1>4. ASSUME NEW r \in Rows, ClientConnects(r) PROVE IInv'
  <2>0. bufptr \in [Rows -> 0..(MaxPacket - 1)] /\ bufptr'[r] = 0
    BY <1>4 DEF ClientConnects, TypeOK
  <2>1. TypeOK'
    BY <1>4 DEF ClientConnects, TypeOK
  <2>2. MessageInv'
    BY <1>4 DEF ClientConnects, MessageInv
  <2>3. LineInv'
    <3>1. LineAt(r)'
      BY <2>0 DEF LineAt
    <3>2. \A q \in Rows \ {r} : LineAt(q) => LineAt(q)'
      BY <1>4, <2>0 DEF ClientConnects, LineAt
    <3>3. \A q \in Rows : bufptr'[q] > 0 => count'[q] > 0
      BY <1>4, <2>0 DEF ClientConnects, LineInv
    <3> QED
      BY <1>4, <3>1, <3>2, <3>3, Bytes DEF LineInv, ClientConnects
  <2>4. HandedWhole'
    BY <1>4 DEF ClientConnects, HandedWhole
  <2> QED
    BY <2>1, <2>2, <2>3, <2>4
<1> QED
  BY <1>1, <1>2, <1>3, <1>4

\* A message begins.
LEMMA MessageComesInv ==
  ASSUME IInv, NEW total \in Totals, MessageComes(total)
  PROVE  IInv'
<1> USE DEF IInv, MessageComes
<1>1. count[Mqtt] + 1 \in 0..MaxMessages /\ total \in Nat
  BY Bytes, TotalsAssumption DEF TypeOK, Cells
<1>2. \A r \in Rows : count'[r] = count[r]
  BY Bytes DEF TypeOK
<1>3. TypeOK'
  <2>1. message' \in [total : Totals \union {0}, index : Nat, busy : BOOLEAN]
    OBVIOUS
  <2>2. count' \in [Senders -> 0..MaxMessages]
    BY <1>1 DEF TypeOK
  <2> QED
    BY <2>1, <2>2 DEF TypeOK
<1>4. MessageInv'
  <2>1. /\ message'.index = 0 /\ message'.total = total
        /\ link' = "router"
    OBVIOUS
  <2>2. total >= MaxPacket => tooLong'
    OBVIOUS
  <2>3. \A c \in 0..(message'.index - 1) : FALSE
    BY <2>1
  <2> QED
    BY <1>1, <2>1, <2>2, <2>3 DEF MessageInv
<1>5. LineInv'
  <2>1. \A r \in Rows : LineAt(r) => LineAt(r)'
    BY <1>2 DEF LineAt
  <2>2. \A r \in Rows : bufptr'[r] > 0 => count'[r] > 0
    BY <1>2 DEF LineInv
  <2> QED
    BY <2>1, <2>2, Bytes DEF LineInv
<1>6. HandedWhole'
  BY DEF HandedWhole
<1> QED
  BY <1>3, <1>4, <1>5, <1>6

\* The next part of a message, copied if it fits.
LEMMA MessagePartInv ==
  ASSUME IInv, NEW len \in 0..message.total, MessagePart(len)
  PROVE  IInv'
<1> DEFINE idx == message.index
           tot == message.total
           n == count[Mqtt]
<1>1. /\ idx \in Nat /\ tot \in Nat /\ len \in Nat /\ idx + len <= tot
      /\ tot \in Cells \/ tot = 0
      /\ n \in 0..MaxMessages /\ message.busy /\ link = "router"
      /\ tot >= MaxPacket => tooLong
  BY Bytes, TotalsAssumption DEF IInv, TypeOK, MessagePart, MessageInv, Cells
<1>2. 0 \in Cells /\ tot \in Cells
  BY <1>1, Layout DEF Cells
<1>3. /\ message' = IF idx + len = tot THEN NoMessage
                    ELSE [message EXCEPT !.index = @ + len]
      /\ UNCHANGED <<link, bufptr, count, tooLong>>
  BY DEF MessagePart
<1>4. message' \in [total : Totals \union {0}, index : Nat, busy : BOOLEAN]
  <2>1. CASE idx + len = tot
    BY <1>3, <2>1 DEF NoMessage
  <2>2. CASE idx + len # tot
    <3>1. message' = [message EXCEPT !.index = @ + len]
      BY <1>3, <2>2
    <3>2. message \in [total : Totals \union {0}, index : Nat, busy : BOOLEAN]
      BY DEF IInv, TypeOK
    <3> QED
      BY <1>1, <3>1, <3>2
  <2> QED
    BY <2>1, <2>2
<1>5. CASE ~RoomFor(idx, len, tot)
  <2>0. UNCHANGED <<inbuffer, handed>>
    BY <1>5 DEF MessagePart
  <2>1. TypeOK'
    BY <2>0, <1>3, <1>4 DEF IInv, TypeOK
  <2>2. idx + len >= MaxPacket
    BY <1>1, <1>5 DEF RoomFor
  <2>3. MessageInv'
    BY <1>1, <1>3, <2>0, <2>2 DEF MessageInv, NoMessage, IInv, TypeOK
  <2>4. LineInv'
    BY <1>3, <2>0 DEF IInv, LineInv, LineAt
  <2>5. HandedWhole'
    BY <1>3, <2>0 DEF IInv, HandedWhole
  <2> QED
    BY <2>1, <2>3, <2>4, <2>5 DEF IInv
<1>6. CASE RoomFor(idx, len, tot)
  <2>0. inbuffer' = Copy(idx, len, tot) /\ idx + len < MaxPacket
    BY <1>1, <1>6 DEF MessagePart, RoomFor
  <2>1. /\ inbuffer' \in [Cells -> Byte]
        /\ \A c \in Cells : inbuffer'[c] =
              IF c \in idx..(idx + len - 1) THEN ByteOf(Mqtt, n, c + 1)
              ELSE IF c = tot THEN Zero ELSE inbuffer[c]
    <3>1. \A c \in Cells : c + 1 \in Nat
      BY DEF Cells
    <3> QED
      BY <1>1, <2>0, <3>1, Bytes DEF Copy, IInv, TypeOK
  <2>2. \A c \in 0..(idx + len - 1) :
           c \in Cells /\ inbuffer'[c] = ByteOf(Mqtt, n, c + 1)
    <3>1. SUFFICES ASSUME NEW c \in 0..(idx + len - 1)
                   PROVE  c \in Cells /\ inbuffer'[c] = ByteOf(Mqtt, n, c + 1)
      OBVIOUS
    <3>2. c \in Cells /\ c < tot
      BY <1>1, <1>2, Layout DEF Cells
    <3>3. c < idx => inbuffer[c] = ByteOf(Mqtt, n, c + 1)
      BY <1>1, <2>0 DEF IInv, MessageInv
    <3> QED
      BY <1>1, <2>1, <3>2, <3>3
  <2>3. idx + len = tot => inbuffer'[tot] = Zero
    BY <1>1, <1>2, <2>1
  <2>4. idx + len = tot =>
          StringAt(inbuffer', Row(0)) = TextOf(Mqtt, n, tot)
    <3>1. HAVE idx + len = tot
    <3>2. \A d \in 0..(0 + tot - 1) : inbuffer'[d] # Zero
      BY <1>1, <2>2, <3>1, Bytes
    <3>a. 0 + tot \in Cells /\ inbuffer'[0 + tot] = Zero /\ 0 \in Nat
      BY <1>1, <1>2, <2>3, <3>1
    <3> HIDE DEF tot
    <3>b. tot \in Nat
      BY <1>1
    <3>3. StringAt(inbuffer', 0) = [i \in 1..tot |-> inbuffer'[0 + i - 1]]
      BY <2>1, <3>a, <3>b, <3>2, StringIs
    <3>4. \A i \in 1..tot : inbuffer'[0 + i - 1] = ByteOf(Mqtt, n, i)
      BY <1>1, <2>2, <3>1
    <3> QED
      BY <3>3, <3>4, Layout DEF TextOf
  <2>5. handed' = IF idx + len = tot
                  THEN [who |-> Mqtt, n |-> n,
                        text |-> StringAt(inbuffer', Row(0)), length |-> tot]
                  ELSE handed
    BY <1>6 DEF MessagePart
  <2>6. TypeOK'
    <3>1. StringAt(inbuffer', Row(0)) \in Seq(Byte)
      BY <2>1, Layout, StringTyped
    <3>2. handed' \in [who : Senders, n : 0..MaxMessages, text : Seq(Byte),
                       length : Nat]
      BY <1>1, <2>5, <3>1, Bytes DEF IInv, TypeOK
    <3> QED
      BY <1>3, <1>4, <2>1, <3>2 DEF IInv, TypeOK
  <2>7. MessageInv'
    <3>1. CASE idx + len = tot
      BY <1>3, <3>1 DEF MessageInv, NoMessage
    <3>2. CASE idx + len # tot
      <4>1. message'.index = idx + len /\ message'.total = tot
        BY <1>3, <3>2 DEF IInv, TypeOK
      <4> QED
        BY <1>1, <1>3, <2>2, <4>1 DEF MessageInv
    <3> QED
      BY <3>1, <3>2
  <2>8. LineInv'
    <3>1. link' # "parent"
      BY <1>1, <1>3
    <3>2. ASSUME ~tooLong, NEW r \in Rows \ {0} PROVE LineAt(r)'
      <4>1. tot < MaxPacket
        BY <1>1, <3>2
      <4>2. /\ Row(r) \in Nat /\ Row(r) >= MaxPacket
            /\ Row(r) + MaxPacket <= Size /\ Size \in Nat
            /\ bufptr[r] \in 0..(MaxPacket - 1)
        BY Layout DEF IInv, TypeOK
      <4>3. \A i \in 0..(bufptr[r] - 1) :
               /\ Row(r) + i \in Cells
               /\ inbuffer'[Row(r) + i] = inbuffer[Row(r) + i]
        <5>1. TAKE i \in 0..(bufptr[r] - 1)
        <5>2. Row(r) + i \in Cells /\ Row(r) + i >= MaxPacket
          BY <4>2 DEF Cells
        <5> QED
          BY <1>1, <2>0, <2>1, <4>1, <5>2
      <4> QED
        BY <1>3, <3>2, <4>3 DEF LineAt, IInv, LineInv
    <3> QED
      BY <1>3, <3>1, <3>2 DEF LineInv, IInv
  <2>9. HandedWhole'
    BY <1>3, <2>4, <2>5 DEF HandedWhole, IInv
  <2> QED
    BY <2>6, <2>7, <2>8, <2>9 DEF IInv
<1> QED
  BY <1>5, <1>6

\* Where the next byte of a line goes: into its own row only.
LEMMA NextCell ==
  ASSUME TypeOK, NEW r \in Rows
  PROVE  /\ bufptr[r] \in 0..(MaxPacket - 1)
         /\ Row(r) \in Nat /\ Row(r) + bufptr[r] \in Cells
         /\ \A q \in Rows : \A i \in 0..(bufptr[q] - 1) :
               /\ Row(q) + i \in Cells
               /\ Row(q) + i # Row(r) + bufptr[r]
<1>1. \A q \in Rows : /\ bufptr[q] \in 0..(MaxPacket - 1)
                      /\ Row(q) \in Nat /\ Row(q) + MaxPacket <= Size
  BY Layout DEF TypeOK
<1>2. Row(r) + bufptr[r] \in Cells
  BY <1>1, Layout DEF Cells
<1>3. ASSUME NEW q \in Rows, NEW i \in 0..(bufptr[q] - 1)
      PROVE  Row(q) + i \in Cells /\ Row(q) + i # Row(r) + bufptr[r]
  <2>0. /\ bufptr[q] \in Nat /\ bufptr[r] \in Nat /\ bufptr[q] < MaxPacket
        /\ bufptr[r] < MaxPacket /\ Row(q) \in Nat /\ Row(r) \in Nat
        /\ i \in Nat /\ i < bufptr[q]
    BY <1>1
  <2>1. Row(q) + i \in Cells
    BY <1>1, Layout DEF Cells
  <2>2. CASE q = r
    BY <2>0, <2>1, <2>2
  <2>3. CASE q # r
    <3>1. \/ Row(q) + MaxPacket <= Row(r)
          \/ Row(r) + MaxPacket <= Row(q)
      BY <2>3, Layout
    <3> QED
      BY <2>0, <2>1, <3>1
  <2> QED
    BY <2>1, <2>2, <2>3
<1> QED
  BY <1>1, <1>2, <1>3

LEMMA LineByteInv ==
  ASSUME IInv, NEW r \in Rows, LineByte(r)
  PROVE  IInv'
<1> DEFINE k == bufptr[r]
           b == ByteOf(r, count'[r], k + 1)
<1>1. /\ k \in 0..(MaxPacket - 1) /\ Row(r) \in Nat /\ Row(r) + k \in Cells
      /\ r \in Senders
  BY NextCell, Bytes DEF IInv
<1>2. /\ Reads(r) /\ k < MaxPacket - 1
      /\ count' = [count EXCEPT ![r] = IF k = 0 THEN @ + 1 ELSE @]
      /\ count'[r] <= MaxMessages
      /\ inbuffer' = [inbuffer EXCEPT ![Row(r) + k] = b]
      /\ bufptr' = [bufptr EXCEPT ![r] = @ + 1]
      /\ UNCHANGED <<link, message, handed, tooLong>>
  BY DEF LineByte
<1>3. /\ count[r] \in Nat
      /\ count'[r] = (IF k = 0 THEN count[r] + 1 ELSE count[r])
      /\ count'[r] \in 0..MaxMessages
      /\ \A s \in Senders \ {r} : count'[s] = count[s]
      /\ count' \in [Senders -> 0..MaxMessages]
  <2>1. count[r] \in Nat /\ count \in [Senders -> 0..MaxMessages]
    BY <1>1 DEF IInv, TypeOK
  <2>2. count'[r] = (IF k = 0 THEN count[r] + 1 ELSE count[r])
    BY <1>1, <1>2, <2>1
  <2>3. count'[r] \in 0..MaxMessages
    BY <1>2, <2>1, <2>2
  <2> QED
    BY <1>1, <1>2, <2>1, <2>2, <2>3
<1>4. /\ inbuffer' \in [Cells -> Byte]
      /\ inbuffer'[Row(r) + k] = b
      /\ \A c \in Cells \ {Row(r) + k} : inbuffer'[c] = inbuffer[c]
  <2>1. b \in Byte
    BY <1>1, <1>3, Bytes
  <2> QED
    BY <1>1, <1>2, <2>1 DEF IInv, TypeOK
<1>5. /\ bufptr' \in [Rows -> 0..(MaxPacket - 1)]
      /\ bufptr'[r] = k + 1
      /\ \A q \in Rows \ {r} : bufptr'[q] = bufptr[q]
  BY <1>1, <1>2 DEF IInv, TypeOK
<1>6. TypeOK'
  BY <1>2, <1>3, <1>4, <1>5 DEF IInv, TypeOK
<1>7. \A q \in Rows \ {r} : LineAt(q) => LineAt(q)'
  <2>1. TAKE q \in Rows \ {r}
  <2>2. q \in Senders \ {r}
    BY Bytes
  <2>3. \A i \in 0..(bufptr[q] - 1) :
           inbuffer'[Row(q) + i] = inbuffer[Row(q) + i]
    BY <1>4, NextCell DEF IInv
  <2> QED
    BY <1>3, <1>5, <2>2, <2>3 DEF LineAt
<1>8. LineAt(r) => LineAt(r)'
  <2>1. HAVE LineAt(r)
  <2>2. ASSUME NEW i \in 0..k
        PROVE  inbuffer'[Row(r) + i] = ByteOf(r, count'[r], i + 1)
    <3>1. CASE i = k
      BY <1>4, <3>1
    <3>2. CASE i < k
      <4>1. i \in 0..(bufptr[r] - 1) /\ count'[r] = count[r]
        BY <1>1, <1>3, <3>2
      <4> QED
        BY <1>4, <2>1, <4>1, NextCell DEF LineAt, IInv
    <3> QED
      BY <1>1, <3>1, <3>2
  <2>3. bufptr'[r] - 1 = k
    BY <1>1, <1>5
  <2> QED
    BY <2>2, <2>3 DEF LineAt
<1>9. LineInv'
  <2>1. link' = "parent" => LineAt(0)'
    BY <1>2, <1>7, <1>8, Bytes DEF IInv, LineInv
  <2>2. ~tooLong' => \A q \in Rows \ {0} : LineAt(q)'
    BY <1>2, <1>7, <1>8 DEF IInv, LineInv
  <2>3. ASSUME NEW q \in Rows, bufptr'[q] > 0 PROVE count'[q] > 0
    <3>1. CASE q = r
      BY <1>1, <1>3, <3>1 DEF IInv, LineInv
    <3>2. CASE q # r
      BY <1>3, <1>5, <2>3, <3>2, Bytes DEF IInv, LineInv
    <3> QED
      BY <3>1, <3>2
  <2> QED
    BY <2>1, <2>2, <2>3 DEF LineInv
<1>10. MessageInv'
  <2>1. SUFFICES ASSUME message'.busy PROVE MessageInv'
    BY DEF MessageInv
  <2>2. link = "router" /\ r # 0 /\ r # Mqtt
    BY <1>2, <2>1, Bytes DEF IInv, MessageInv, Reads
  <2>3. Row(r) >= MaxPacket
    BY <2>2, Layout
  <2>4. count'[Mqtt] = count[Mqtt]
    BY <1>3, <2>2, Bytes
  <2>5. message.index < MaxPacket =>
           \A c \in 0..(message.index - 1) : inbuffer'[c] = inbuffer[c]
    <3>1. HAVE message.index < MaxPacket
    <3>2. TAKE c \in 0..(message.index - 1)
    <3>3. message.index \in Nat
      BY DEF IInv, TypeOK
    <3>4. c \in Cells /\ c < Row(r)
      BY <2>3, <3>1, <3>3, <1>1, Layout DEF Cells
    <3> QED
      BY <1>1, <1>4, <3>4
  <2> QED
    BY <1>2, <2>1, <2>2, <2>4, <2>5 DEF IInv, MessageInv
<1>11. HandedWhole'
  BY <1>2 DEF IInv, HandedWhole
<1> QED
  BY <1>6, <1>9, <1>10, <1>11 DEF IInv

LEMMA LineEndsInv ==
  ASSUME IInv, NEW r \in Rows, LineEnds(r)
  PROVE  IInv'
<1> DEFINE k == bufptr[r]
           text == StringAt(inbuffer', Row(r))
<1>1. /\ k \in 0..(MaxPacket - 1) /\ Row(r) \in Nat /\ Row(r) + k \in Cells
      /\ r \in Senders /\ count[r] \in 0..MaxMessages
  BY NextCell, Bytes DEF IInv, TypeOK
<1>2. /\ Reads(r) /\ k > 0
      /\ inbuffer' = [inbuffer EXCEPT ![Row(r) + k] = Zero]
      /\ handed' = [who |-> r, n |-> count[r], text |-> text, length |-> k]
      /\ bufptr' = [bufptr EXCEPT ![r] = 0]
      /\ UNCHANGED <<link, message, count, tooLong>>
  BY DEF LineEnds
<1>3. /\ inbuffer' \in [Cells -> Byte]
      /\ inbuffer'[Row(r) + k] = Zero
      /\ \A c \in Cells \ {Row(r) + k} : inbuffer'[c] = inbuffer[c]
  BY <1>1, <1>2, Bytes DEF IInv, TypeOK
<1>4. /\ bufptr' \in [Rows -> 0..(MaxPacket - 1)]
      /\ bufptr'[r] = 0
      /\ \A q \in Rows \ {r} : bufptr'[q] = bufptr[q]
  BY <1>1, <1>2 DEF IInv, TypeOK
<1>5. TypeOK'
  <2>1. text \in Seq(Byte)
    <3>1. Row(r) \in 0..Size
      BY <1>1, Layout DEF Cells
    <3> QED
      BY <1>3, <3>1, StringTyped
  <2>2. handed' \in [who : Senders, n : 0..MaxMessages, text : Seq(Byte),
                     length : Nat]
    BY <1>1, <1>2, <2>1
  <2> QED
    BY <1>2, <1>3, <1>4, <2>2 DEF IInv, TypeOK
<1>6. LineInv'
  <2>1. \A q \in Rows \ {r} : LineAt(q) => LineAt(q)'
    <3>1. TAKE q \in Rows \ {r}
    <3>2. \A i \in 0..(bufptr[q] - 1) :
             inbuffer'[Row(q) + i] = inbuffer[Row(q) + i]
      BY <1>3, NextCell DEF IInv
    <3> QED
      BY <1>2, <1>4, <3>2 DEF LineAt
  <2>2. LineAt(r)'
    BY <1>4 DEF LineAt
  <2>3. \A q \in Rows : bufptr'[q] > 0 => count'[q] > 0
    BY <1>2, <1>4 DEF IInv, LineInv
  <2> QED
    BY <1>2, <2>1, <2>2, <2>3, Bytes DEF IInv, LineInv
<1>7. MessageInv'
  <2>1. SUFFICES ASSUME message'.busy PROVE MessageInv'
    BY DEF MessageInv
  <2>2. link = "router" /\ r # 0
    BY <1>2, <2>1 DEF IInv, MessageInv, Reads
  <2>3. Row(r) >= MaxPacket
    BY <2>2, Layout
  <2>4. message.index < MaxPacket =>
           \A c \in 0..(message.index - 1) : inbuffer'[c] = inbuffer[c]
    <3>1. HAVE message.index < MaxPacket
    <3>2. TAKE c \in 0..(message.index - 1)
    <3>3. message.index \in Nat
      BY DEF IInv, TypeOK
    <3>4. c \in Cells /\ c < Row(r)
      BY <2>3, <3>1, <3>3, <1>1, Layout DEF Cells
    <3> QED
      BY <1>1, <1>3, <3>4
  <2> QED
    BY <1>2, <2>1, <2>2, <2>4 DEF IInv, MessageInv
<1>8. HandedWhole'
  <2>1. CASE tooLong /\ r # 0
    BY <1>2, <2>1 DEF HandedWhole
  <2>2. CASE ~(tooLong /\ r # 0)
    <3>1. LineAt(r)
      BY <1>2, <2>2 DEF IInv, LineInv, Reads
    <3>2. \A i \in 0..(k - 1) :
             /\ Row(r) + i \in Cells
             /\ inbuffer'[Row(r) + i] = ByteOf(r, count[r], i + 1)
      BY <1>3, <3>1, NextCell DEF IInv, LineAt
    <3>3. \A d \in Row(r)..(Row(r) + k - 1) : inbuffer'[d] # Zero
      <4>1. TAKE d \in Row(r)..(Row(r) + k - 1)
      <4>2. PICK i \in 0..(k - 1) : d = Row(r) + i
        <5>1. d - Row(r) \in 0..(k - 1) /\ d = Row(r) + (d - Row(r))
          BY <1>1
        <5> QED
          BY <5>1
      <4>3. ByteOf(r, count[r], i + 1) # Zero
        BY <1>1, Bytes
      <4> QED
        BY <3>2, <4>2, <4>3
    <3> HIDE DEF k
    <3>a. k \in Nat /\ Row(r) \in Nat /\ Row(r) + k \in Cells
      BY <1>1
    <3>4. text = [i \in 1..k |-> inbuffer'[Row(r) + i - 1]]
      BY <3>a, <1>3, <3>3, StringIs
    <3>5. \A i \in 1..k : inbuffer'[Row(r) + i - 1] = ByteOf(r, count[r], i)
      <4>1. TAKE i \in 1..k
      <4>2. i - 1 \in 0..(k - 1) /\ Row(r) + i - 1 = Row(r) + (i - 1)
            /\ (i - 1) + 1 = i
        BY <1>1
      <4> QED
        BY <3>2, <4>2
    <3>6. text = TextOf(r, count[r], k)
      BY <3>4, <3>5 DEF TextOf
    <3> QED
      BY <1>2, <3>6 DEF HandedWhole
  <2> QED
    BY <2>1, <2>2
<1> QED
  BY <1>5, <1>6, <1>7, <1>8 DEF IInv

-----------------------------------------------------------------------------
(* The theorems.                                                           *)

LEMMA NextIInv ==
  ASSUME IInv, [Next]_vars
  PROVE  IInv'
<1>1. CASE RouterJoined \/ ParentJoined \/ LinkLost
  BY <1>1, LinkSteps
<1>2. ASSUME NEW r \in Rows, ClientConnects(r) \/ LineByte(r) \/ LineEnds(r)
      PROVE  IInv'
  BY <1>2, LinkSteps, LineByteInv, LineEndsInv
<1>3. ASSUME NEW total \in Totals, MessageComes(total) PROVE IInv'
  BY <1>3, MessageComesInv
<1>4. ASSUME NEW len \in 0..message.total, MessagePart(len) PROVE IInv'
  BY <1>4, MessagePartInv
<1>5. CASE UNCHANGED vars
  BY <1>5 DEF vars, IInv, TypeOK, MessageInv, LineInv, LineAt, HandedWhole
<1> QED
  BY <1>1, <1>2, <1>3, <1>4, <1>5 DEF Next

LEMMA Invariance == Spec => []IInv
<1> QED
  BY InitIInv, NextIInv, PTL DEF Spec

\* The variables keep their types, and no message, however long, is written
\* outside the rows as long as its terminator falls into them.
THEOREM InboxTypes == Spec => []TypeOK
<1>1. IInv => TypeOK
  BY DEF IInv
<1> QED
  BY <1>1, Invariance, PTL

\* What parse_message() is given is one message as it was sent, whole, with
\* the exception that HandedWhole names.
THEOREM HandsOnWhole == Spec => []HandedWhole
<1>1. IInv => HandedWhole
  BY DEF IInv
<1> QED
  BY <1>1, Invariance, PTL

\* Without a message longer than a row, nothing onMqttMessage() writes falls
\* into a line that a child has begun.
THEOREM LinesStayUndisturbed == Spec => []LinesUndisturbed
<1>1. IInv => LinesUndisturbed
  BY DEF IInv, LineInv, LineAt, LinesUndisturbed
<1> QED
  BY <1>1, Invariance, PTL
=============================================================================
