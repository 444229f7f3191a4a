------------------------------- MODULE IRCodes -------------------------------
(***************************************************************************)
(* IRremoteESP8266.cpp: what the senders put on the air and what the       *)
(* decoders make of it.  A signal is the sequence of its lengths in us, a  *)
(* mark at every odd place and a space at every even one; the space behind *)
(* it, which no edge ends, is left out.  Values are sequences of bits, the *)
(* first sent first.  Loops over bits are written as what they require of  *)
(* each place of the buffer.                                               *)
(***************************************************************************)
EXTENDS Integers, Sequences, SequencesExt

USECPERTICK == 50
RAWBUF == 100
MARK_EXCESS == 100

-----------------------------------------------------------------------------
(* Times of the protocols: what comes before the bits, and the length of a *)
(* mark and of the spaces of a one and a zero.  A bit of Sony's is in the  *)
(* length of its mark.                                                     *)

NEC == [lead |-> <<9000, 4500>>, mark |-> 560, one |-> 1690, zero |-> 560,
        bits |-> 32]
LG == [lead |-> <<8000, 4000>>, mark |-> 600, one |-> 1600, zero |-> 550,
       bits |-> 28]
JVC == [lead |-> <<8000, 4000>>, mark |-> 600, one |-> 1600, zero |-> 550,
        bits |-> 16]
SAMSUNG == [lead |-> <<4500, 4500>>, mark |-> 590, one |-> 1690, zero |-> 590,
            bits |-> 32]
PANASONIC == [lead |-> <<3502, 1750>>, mark |-> 502, one |-> 1244, zero |-> 400,
              bits |-> 48]
WHYNTER == [lead |-> <<750, 750, 2850, 2850>>, mark |-> 750, one |-> 2150,
            zero |-> 750, bits |-> 32]
DENON == [lead |-> <<300, 750>>, mark |-> 300, one |-> 1800, zero |-> 750,
          bits |-> 14]
SONY == [lead |-> <<2400, 600>>, one |-> 1200, zero |-> 600, bits |-> 12]
MITSUBISHI == [space |-> 350, one |-> 1950, zero |-> 750, bits |-> 16]
RPT_SPACE == 2250 \* NEC_RPT_SPACE, SAMSUNG_RPT_SPACE
RC5_T1 == 889
RC6_T1 == 444
RC6_HDR_MARK == 2666
RC6_HDR_SPACE == 889
MIN_RC5_SAMPLES == 11
MIN_RC6_SAMPLES == 1

-----------------------------------------------------------------------------
(* Senders.                                                                *)

\* A lead, a mark and a space for each bit, and a mark at the end.
Signal(lead, p, bits) ==
    LET n == Len(lead)
    IN  [k \in 1..(n + 2 * Len(bits) + 1) |->
            IF k <= n THEN lead[k]
            ELSE IF k % 2 = 1 THEN p.mark
            ELSE IF bits[(k - n) \div 2] THEN p.one ELSE p.zero]

sendNEC(bits) == Signal(NEC.lead, NEC, bits)
sendLG(bits) == Signal(LG.lead, LG, bits)
sendWhynter(bits) == Signal(WHYNTER.lead, WHYNTER, bits)
sendSAMSUNG(bits) == Signal(SAMSUNG.lead, SAMSUNG, bits)
sendDenon(bits) == Signal(DENON.lead, DENON, bits)
sendPanasonic(address, data) == Signal(PANASONIC.lead, PANASONIC, address \o data)
sendJVC(bits, repeat) == Signal(IF repeat THEN <<>> ELSE JVC.lead, JVC, bits)

sendSony(bits) ==
    [k \in 1..(2 * Len(bits) + 1) |->
        IF k = 1 THEN SONY.lead[1]
        ELSE IF k % 2 = 0 THEN SONY.lead[2]
        ELSE IF bits[(k - 1) \div 2] THEN SONY.one ELSE SONY.zero]

\* Units of t1 us each, TRUE for one of a mark, as marks and spaces: those next
\* to each other that are the same are one.
Pulses(units, t1) ==
    LET IsEnd(k) == k < Len(units) => units[k] # units[k + 1]
        ends == SelectSeq([k \in 1..Len(units) |-> k], IsEnd)
        n == Len(ends)
    IN  [k \in 1..(IF n % 2 = 1 THEN n ELSE n - 1) |->
            t1 * (IF k = 1 THEN ends[1] ELSE ends[k] - ends[k - 1])]

sendRC5(bits) ==
    Pulses(<<TRUE, FALSE, TRUE>>
             \o FlattenSeq([i \in 1..Len(bits) |-> <<~ bits[i], bits[i]>>]),
           RC5_T1)
sendRC6(bits) ==
    LET Half(i, level) == IF i = 4 THEN <<level, level>> ELSE <<level>>
    IN  <<RC6_HDR_MARK, RC6_HDR_SPACE>>
        \o Pulses(<<TRUE, FALSE>>
                    \o FlattenSeq([i \in 1..Len(bits) |->
                            Half(i, bits[i]) \o Half(i, ~ bits[i])]),
                  RC6_T1)

-----------------------------------------------------------------------------
(* The receiver.                                                           *)

\* What gpio_intr() can leave of a signal in rawbuf, whose places behind
\* rawlen hold what an earlier code left there: one entry at the first edge,
\* and the ticks since the last edge at every other.  The detector makes marks
\* longer and spaces shorter, by up to MARK_EXCESS; a space of 15 ms, at which
\* read_timeout() ends a code, is in none of the signals above.
Heard(signal, rawbuf, rawlen) ==
    /\ rawbuf \in [0..(RAWBUF - 1) -> Nat]
    /\ rawlen = IF Len(signal) < RAWBUF THEN Len(signal) + 1 ELSE RAWBUF
    /\ rawbuf[0] = 20
    /\ \A k \in 1..(rawlen - 1) : \E lag \in 0..MARK_EXCESS :
          rawbuf[k] = (IF k % 2 = 1 THEN signal[k] + lag ELSE signal[k] - lag)
                        \div USECPERTICK + 1

\* 25 percent below and above.
TICKS_LOW(us) == (us * 3) \div (4 * USECPERTICK)
TICKS_HIGH(us) == (us * 5) \div (4 * USECPERTICK) + 1

MATCH(ticks, us) == ticks \in TICKS_LOW(us)..TICKS_HIGH(us)
MATCH_MARK(ticks, us) == MATCH(ticks, us + MARK_EXCESS)
MATCH_SPACE(ticks, us) == MATCH(ticks, us - MARK_EXCESS)
-----------------------------------------------------------------------------
(* Decoders.                                                               *)

ERR == [type |-> "ERR", value |-> <<>>]

\* results->value; the place of its first bit is lost for a long code, since
\* it has 32.  A repeat has no bits.
Decoded(type, bits) == [type |-> type, value |-> bits]
Repeat(type) == [type |-> type, value |-> <<>>]
LastOf(n, bit(_)) ==
    IF n <= 32 THEN [i \in 1..n |-> bit(i)] ELSE [i \in 1..32 |-> bit(n - 32 + i)]

\* Whether a lead is at the places from start on.
LeadAt(rawbuf, start, lead) ==
    \A k \in 1..Len(lead) :
        IF k % 2 = 1 THEN MATCH_MARK(rawbuf[start + k - 1], lead[k])
        ELSE MATCH_SPACE(rawbuf[start + k - 1], lead[k])

\* Whether p.bits marks and spaces are at the places from start on, the bits
\* they stand for, and whether a last mark follows them.
IsOne(rawbuf, start, p, i) == MATCH_SPACE(rawbuf[start + 2 * i - 1], p.one)
BitsAt(rawbuf, start, p) ==
    \A i \in 1..p.bits :
        /\ MATCH_MARK(rawbuf[start + 2 * i - 2], p.mark)
        /\ \/ IsOne(rawbuf, start, p, i)
           \/ MATCH_SPACE(rawbuf[start + 2 * i - 1], p.zero)
ValueAt(rawbuf, start, p) ==
    [i \in 1..p.bits |-> IsOne(rawbuf, start, p, i)]
StopAt(rawbuf, start, p) == MATCH_MARK(rawbuf[start + 2 * p.bits], p.mark)

\* NEC's and SAMSUNG's, from offset on.
IsRepeat(rawbuf, rawlen, offset, p) ==
    /\ rawlen = 4
    /\ MATCH_SPACE(rawbuf[offset + 1], RPT_SPACE)
    /\ MATCH_MARK(rawbuf[offset + 2], p.mark)

decodeNEC(rawbuf, rawlen) ==
    IF ~ MATCH_MARK(rawbuf[1], NEC.lead[1]) THEN ERR
    ELSE IF IsRepeat(rawbuf, rawlen, 1, NEC) THEN Repeat("NEC")
    ELSE IF /\ rawlen >= 2 * NEC.bits + 4
            /\ MATCH_SPACE(rawbuf[2], NEC.lead[2])
            /\ BitsAt(rawbuf, 3, NEC)
         THEN Decoded("NEC", ValueAt(rawbuf, 3, NEC)) ELSE ERR

\* From the gap on, which is taken for the first mark.
decodeSAMSUNG(rawbuf, rawlen) ==
    IF ~ MATCH_MARK(rawbuf[0], SAMSUNG.lead[1]) THEN ERR
    ELSE IF IsRepeat(rawbuf, rawlen, 0, SAMSUNG) THEN Repeat("SAMSUNG")
    ELSE IF /\ rawlen >= 2 * SAMSUNG.bits + 2
            /\ MATCH_SPACE(rawbuf[1], SAMSUNG.lead[2])
            /\ BitsAt(rawbuf, 2, SAMSUNG)
         THEN Decoded("SAMSUNG", ValueAt(rawbuf, 2, SAMSUNG)) ELSE ERR

decodeLG(rawbuf, rawlen) ==
    IF /\ rawlen >= 2 * LG.bits + 1
       /\ LeadAt(rawbuf, 1, LG.lead)
       /\ BitsAt(rawbuf, 3, LG)
       /\ StopAt(rawbuf, 3, LG)
    THEN Decoded("LG", ValueAt(rawbuf, 3, LG)) ELSE ERR

\* What a held button sends has no lead.
decodeJVC(rawbuf, rawlen) ==
    IF /\ rawlen = 34
       /\ MATCH_MARK(rawbuf[1], JVC.mark)
       /\ MATCH_MARK(rawbuf[33], JVC.mark)
    THEN Repeat("JVC")
    ELSE IF /\ rawlen >= 2 * JVC.bits + 1
            /\ LeadAt(rawbuf, 1, JVC.lead)
            /\ BitsAt(rawbuf, 3, JVC)
            /\ StopAt(rawbuf, 3, JVC)
         THEN Decoded("JVC", ValueAt(rawbuf, 3, JVC)) ELSE ERR

decodeWhynter(rawbuf, rawlen) ==
    IF /\ rawlen >= 2 * WHYNTER.bits + 6
       /\ LeadAt(rawbuf, 1, WHYNTER.lead)
       /\ BitsAt(rawbuf, 5, WHYNTER)
       /\ StopAt(rawbuf, 5, WHYNTER)
    THEN Decoded("WHYNTER", ValueAt(rawbuf, 5, WHYNTER)) ELSE ERR

\* The space of the lead is looked for at its mark, and as a mark; the bits are
\* compared without allowing for an excess.  rawlen is not looked at.  value
\* has the data, panasonicAddress the 16 bits before it.
decodePanasonic(rawbuf, rawlen) ==
    IF /\ MATCH_MARK(rawbuf[1], PANASONIC.lead[2])
       /\ \A i \in 1..PANASONIC.bits :
             /\ MATCH(rawbuf[2 * i], PANASONIC.mark)
             /\ \/ MATCH(rawbuf[2 * i + 1], PANASONIC.one)
                \/ MATCH(rawbuf[2 * i + 1], PANASONIC.zero)
    THEN Decoded("PANASONIC", [i \in 1..PANASONIC.bits |->
                                  MATCH(rawbuf[2 * i + 1], PANASONIC.one)])
    ELSE ERR

\* The loops of Sony's and Mitsubishi's decoders take two entries a turn, up to
\* the end or a space that does not match: the number of whole turns.
WholeTurns(rawlen, first, Space(_)) ==
    CHOOSE n \in 0..rawlen :
        /\ \A i \in 0..(n - 1) : first + 2 * i + 1 < rawlen /\ Space(i)
        /\ ~ (first + 2 * n + 1 < rawlen /\ Space(n))

decodeSony(rawbuf, rawlen) ==
    LET Space(i) == MATCH_SPACE(rawbuf[2 + 2 * i], SONY.lead[2])
        One(i) == MATCH_MARK(rawbuf[1 + 2 * i], SONY.one)
        Zero(i) == MATCH_MARK(rawbuf[1 + 2 * i], SONY.zero)
        n == WholeTurns(rawlen, 2, Space)
    IN  IF /\ rawlen >= 2 * SONY.bits + 2
           /\ MATCH_MARK(rawbuf[1], SONY.lead[1])
           /\ \A i \in 1..n : One(i) \/ Zero(i)
           /\ n >= 12
        THEN Decoded("SONY", LastOf(n, One)) ELSE ERR

\* The turn that a space ends has read its bit.  One more is counted, but not
\* read, if the loop came to the end of the buffer.
decodeMitsubishi(rawbuf, rawlen) ==
    LET Space(i) == MATCH_SPACE(rawbuf[4 + 2 * i], MITSUBISHI.space)
        One(i) == MATCH_MARK(rawbuf[1 + 2 * i], MITSUBISHI.one)
        Zero(i) == MATCH_MARK(rawbuf[1 + 2 * i], MITSUBISHI.zero)
        n == WholeTurns(rawlen, 3, Space)
        read == IF 3 + 2 * n + 1 < rawlen THEN n + 1 ELSE n
    IN  IF /\ rawlen >= 2 * MITSUBISHI.bits + 2
           /\ MATCH_MARK(rawbuf[2], MITSUBISHI.space)
           /\ \A i \in 1..read : One(i) \/ Zero(i)
           /\ n + 1 >= MITSUBISHI.bits
        THEN Decoded("MITSUBISHI", LastOf(read, One)) ELSE ERR
\* RC5 and RC6: an entry is one, two or three units of t1 long, or the code is
\* neither's (0).
UnitsAt(rawbuf, offset, t1) ==
    LET correction == IF offset % 2 = 1 THEN MARK_EXCESS ELSE -MARK_EXCESS
        Is(n) == MATCH(rawbuf[offset], n * t1 + correction)
    IN  IF Is(1) THEN 1 ELSE IF Is(2) THEN 2 ELSE IF Is(3) THEN 3 ELSE 0

\* The units of the entries from first on: whether each is one of a mark.
Levels(rawbuf, rawlen, first, t1) ==
    FlattenSeq([j \in 1..(rawlen - first) |->
        [u \in 1..UnitsAt(rawbuf, first + j - 1, t1) |-> (first + j) % 2 = 0]])

\* Unit k, counted from 0; there are spaces behind the last.
getRClevel(levels, k) == k < Len(levels) /\ levels[k + 1]

\* A unit of mark and one of space for each bit, the mark second in a one.
decodeRC5(rawbuf, rawlen) ==
    LET levels == Levels(rawbuf, rawlen, 1, RC5_T1)
        IsMark(k) == getRClevel(levels, k)
        IsSet(i) == IsMark(2 + 2 * i)
        n == (Len(levels) - 2) \div 2
    IN  IF /\ rawlen >= MIN_RC5_SAMPLES + 2
           /\ \A o \in 1..(rawlen - 1) : UnitsAt(rawbuf, o, RC5_T1) # 0
           /\ IsMark(0) /\ ~ IsMark(1) /\ IsMark(2)
           /\ \A i \in 1..n : IsMark(1 + 2 * i) # IsSet(i)
        THEN Decoded("RC5", LastOf(n, IsSet)) ELSE ERR

\* The mark is first in a one, and the fourth bit has two units of each.
decodeRC6(rawbuf, rawlen) ==
    LET levels == Levels(rawbuf, rawlen, 3, RC6_T1)
        total == Len(levels)
        IsMark(k) == getRClevel(levels, k)
        Units(n) == IF n <= 3 THEN 2 + 2 * n ELSE 4 + 2 * n
        n == CHOOSE n \in 0..total :
                Units(n) >= total /\ \A m \in 0..(n - 1) : Units(m) < total
        IsSet(i) == IsMark(Units(i - 1))
        IsClear(i) == IsMark(Units(i) - 1)
    IN  IF /\ rawlen >= MIN_RC6_SAMPLES
           /\ MATCH_MARK(rawbuf[1], RC6_HDR_MARK)
           /\ MATCH_SPACE(rawbuf[2], RC6_HDR_SPACE)
           /\ \A o \in 3..(rawlen - 1) : UnitsAt(rawbuf, o, RC6_T1) # 0
           /\ IsMark(0) /\ ~ IsMark(1)
           /\ \A i \in 1..n : IsSet(i) # IsClear(i)
           /\ n >= 4 => (IsMark(8) <=> IsMark(9)) /\ (IsMark(10) <=> IsMark(11))
        THEN Decoded("RC6", LastOf(n, IsSet)) ELSE ERR

\* Anything else, by a hash, which is left out.
decodeHash(rawbuf, rawlen) ==
    IF rawlen < 6 THEN ERR ELSE Decoded("UNKNOWN", <<>>)

\* The first decoder that takes it.
Attempts(rawbuf, rawlen) ==
    <<decodeNEC(rawbuf, rawlen), decodeSony(rawbuf, rawlen),
      decodeMitsubishi(rawbuf, rawlen), decodeRC5(rawbuf, rawlen),
      decodeRC6(rawbuf, rawlen), decodePanasonic(rawbuf, rawlen),
      decodeLG(rawbuf, rawlen), decodeJVC(rawbuf, rawlen),
      decodeSAMSUNG(rawbuf, rawlen), decodeWhynter(rawbuf, rawlen),
      decodeHash(rawbuf, rawlen)>>

decode(rawbuf, rawlen) ==
    LET attempts == Attempts(rawbuf, rawlen)
        taken == {i \in 1..11 : attempts[i] # ERR}
    IN  IF taken = {} THEN ERR
        ELSE attempts[CHOOSE i \in taken : \A j \in taken : i <= j]
=============================================================================
