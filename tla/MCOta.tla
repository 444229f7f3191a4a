------------------------------- MODULE MCOta --------------------------------
(* Small instances of Ota for TLC, and of the Base64 of its blocks.        *)
EXTENDS Ota, Base64

\* An image of two blocks and two sectors, which are not cut at the same
\* place, and one of a single block that does not fill a sector.
MCLength == [i \in Images |-> IF i = "A" THEN 5 ELSE 3]

\* Room for either image, and for none but the shorter one.
MCSpace == [n \in Nodes |-> IF n = "n1" THEN 8 ELSE 4]

\* Blocks of up to four bytes that use all parts of the alphabet come back,
\* and are as long as base64_dec_len() says.
ASSUME BlocksComeBack ==
    \A n \in 0..4 : \A bytes \in [1..n -> {0, 1, 107, 170, 239, 255}] :
        LET chars == base64_encode(bytes) IN
        base64_decode(chars) = bytes /\ base64_dec_len(chars) = n

\* What is no Base64 yields no more bytes than the caller has room for.
ASSUME YieldsAreBounded ==
    \A n \in 0..5 : \A chars \in [1..n -> {0, 43, 61, 65}] :
        4 * Len(base64_decode(chars)) <= 3 * n
=============================================================================
