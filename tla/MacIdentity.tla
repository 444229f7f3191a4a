----------------------------- MODULE MacIdentity -----------------------------
(***************************************************************************)
(* How a node makes the BSSID of its access point out of its chip id and   *)
(* the mesh password, and how others tell from a BSSID that it is one of a *)
(* node of their mesh.                                                     *)
(*                                                                         *)
(* Octets have OctetBits bits, and words of 32 bits are four of them: a    *)
(* number, or for lfsr() the set of its bits.                              *)
(***************************************************************************)
EXTENDS Integers, Sequences, FiniteSetsExt

CONSTANTS
    OctetBits,  \* 8
    Octet,      \* 256
    Feedback,   \* the bits of LFSR_FEEDBACK
    Password    \* mesh_password with MESH_API_VER behind it: octets, as bits

ASSUME OctetAssumption ==
    /\ OctetBits \in Nat /\ Octet \in Nat \ {0}
    /\ Octet = 2 ^ OctetBits
    /\ Octet % 8 = 0

Bits == 0..(4 * OctetBits - 1)

ASSUME LfsrAssumption == Feedback \subseteq Bits /\ Password \in Seq(SUBSET Bits)

-----------------------------------------------------------------------------
Xor(s, t) == (s \ t) \union (t \ s)

\* One turn of the loop of lfsr(), with the lowest bit of b.
LfsrTurn(seed, bit) ==
    Xor({i - 1 : i \in seed \ {0}},
        Xor(IF 0 \in seed THEN Feedback ELSE {},
            Bits \ (IF bit THEN {4 * OctetBits - 1} ELSE {})))

lfsr(seed, b) ==
    LET turn[i \in 0..OctetBits] ==
            IF i = 0 THEN seed ELSE LfsrTurn(turn[i - 1], i - 1 \in b)
    IN  turn[OctetBits]

Number(s) == SumSet({2 ^ i : i \in s})
BitsOf(n) == {i \in Bits : (n \div 2 ^ i) % 2 = 1}

\* The key of the mesh, from a seed that is a constant in the code.
mesh_bssid_key(seed) ==
    LET key[i \in 0..Len(Password)] ==
            IF i = 0 THEN BitsOf(seed) ELSE lfsr(key[i - 1], Password[i])
    IN  Number(key[Len(Password)])

-----------------------------------------------------------------------------
\* An id is its four octets, the lowest one first; a BSSID is its six, in the
\* order in which they are written.
Ids == [1..4 -> 0..(Octet - 1)]

OctetsBits(id) ==
    UNION {{OctetBits * (k - 1) + i : i \in BitsOf(id[k])} : k \in 1..4}

Hash(id) == Number(lfsr(OctetsBits(id), {}))

\* Three octets are kept of the product, and its lowest bits are those of a
\* unicast address that is administered locally.
Kept == Octet * Octet * Octet
encrypt_id(id, key) == (8 * ((Hash(id) % Kept) * (key % Kept)) + 2) % Kept

\* The three octets of such a number.
Octets(n) ==
    <<n % Octet, (n \div Octet) % Octet, (n \div (Octet * Octet)) % Octet>>

\* generate_mac(): the highest octet of the id is not in it.
generate_mac(id, key) ==
    Octets(encrypt_id(id, key)) \o <<id[3], id[2], id[1]>>

\* Bit 2 is 1 for a station and 0 for an access point.
WithoutStationBit(octet) == IF (octet \div 4) % 2 = 1 THEN octet - 4 ELSE octet

\* verify_bssid(): from an id whose highest octet is 0.
verify_bssid(bssid, key) ==
    <<WithoutStationBit(bssid[1]), bssid[2], bssid[3]>>
        = Octets(encrypt_id(<<bssid[6], bssid[5], bssid[4], 0>>, key))
=============================================================================
