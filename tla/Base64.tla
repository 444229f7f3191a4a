------------------------------- MODULE Base64 --------------------------------
(***************************************************************************)
(* Base64.cpp: the blocks of a firmware and its checksum travel in Base64. *)
(* The loops over groups of three bytes and four characters are written as *)
(* what they leave in each place of the output.                            *)
(***************************************************************************)
EXTENDS Integers, Sequences

ByteValue == 0..255
Sextet == 0..63

\* Characters by their codes; Equals is '='.
Char == 0..127
Equals == 61

\* b64_alphabet: A-Z, a-z, 0-9, + and /.
Alphabet(v) ==
    IF v < 26 THEN v + 65 ELSE IF v < 52 THEN v + 71 ELSE IF v < 62 THEN v - 4
    ELSE IF v = 62 THEN 43 ELSE 47

\* b64_lookup(), with -1 in an unsigned char for any other character.
b64_lookup(c) ==
    IF c \in 65..90 THEN c - 65 ELSE IF c \in 97..122 THEN c - 71
    ELSE IF c \in 48..57 THEN c + 4 ELSE IF c = 43 THEN 62
    ELSE IF c = 47 THEN 63 ELSE 255

\* Sextet q of the three bytes a, b, c, and byte k of the four sextets.
a3_to_a4(a, b, c, q) ==
    IF q = 0 THEN a \div 4 ELSE IF q = 1 THEN (a % 4) * 16 + (b \div 16)
    ELSE IF q = 2 THEN (b % 16) * 4 + (c \div 64) ELSE c % 64

a4_to_a3(a, b, c, d, k) ==
    IF k = 0 THEN ((a * 4) + ((b \div 16) % 4)) % 256
    ELSE IF k = 1 THEN (b % 16) * 16 + ((c \div 4) % 16)
    ELSE ((c % 4) * 64 + d) % 256

-----------------------------------------------------------------------------
base64_enc_len(n) == 4 * ((n + 2) \div 3)

\* Byte i of the input, or of the zeros behind its last group.
Padded(bytes, i) == IF i <= Len(bytes) THEN bytes[i] ELSE 0

EncodedAt(bytes, g, q) ==
    IF 3 * g + q > Len(bytes) THEN Equals
    ELSE Alphabet(a3_to_a4(Padded(bytes, 3 * g + 1), Padded(bytes, 3 * g + 2),
                           Padded(bytes, 3 * g + 3), q))

base64_encode(bytes) ==
    [p \in 1..base64_enc_len(Len(bytes)) |->
        EncodedAt(bytes, (p - 1) \div 4, (p - 1) % 4)]

-----------------------------------------------------------------------------
\* Where base64_decode() stops reading: before the first '='.
IsEnd(chars, m) ==
    /\ m \in 0..Len(chars)
    /\ m < Len(chars) => chars[m + 1] = Equals
    /\ \A p \in 1..m : chars[p] # Equals

End(chars) == CHOOSE m \in 0..Len(chars) : IsEnd(chars, m)

\* The bytes that m characters yield.
Yield(m) == 3 * (m \div 4) + (IF m % 4 = 0 THEN 0 ELSE (m % 4) - 1)

\* The value of character i, if it is before m.
Looked(chars, m, i) == b64_lookup(IF i <= m THEN chars[i] ELSE 0)

DecodedAt(chars, m, g, k) ==
    a4_to_a3(Looked(chars, m, 4 * g + 1), Looked(chars, m, 4 * g + 2),
             Looked(chars, m, 4 * g + 3), Looked(chars, m, 4 * g + 4), k)

base64_decode(chars) ==
    [d \in 1..Yield(End(chars)) |->
        DecodedAt(chars, End(chars), (d - 1) \div 3, (d - 1) % 3)]

\* base64_dec_len(), which parse_ota_info() asks before it decodes.
EqualsAtEnd(chars) ==
    CHOOSE n \in 0..Len(chars) :
        /\ \A i \in (Len(chars) - n + 1)..Len(chars) : chars[i] = Equals
        /\ n < Len(chars) => chars[Len(chars) - n] # Equals

base64_dec_len(chars) == ((6 * Len(chars)) \div 8) - EqualsAtEnd(chars)
=============================================================================
