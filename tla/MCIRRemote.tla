----------------------------- MODULE MCIRRemote ------------------------------
(* Small instances of IRRemote for TLC.                                    *)
EXTENDS IRRemote, IRCodes

\* A code with only a section to repeat, and a text with only the other one that
\* has a word more than its header says and than kv has room for.
A == [name |-> "a", once |-> 0, rpt |-> 1, words |-> 6, clean |-> TRUE]
B == [name |-> "b", once |-> 1, rpt |-> 0, words |-> 7, clean |-> TRUE]
TwoCodes == {A, B}

Count(n) == [key |-> "repeat", value |-> n]
Code(c) == [key |-> "code", value |-> c]
Saved == [key |-> "file", value |-> AnyFile]

\* A part that is no key=value; a code; a file; a count and a code; a code and
\* a file behind a count; a code behind a text that is too long.
SomeMessages ==
    {<<[key |-> "other", value |-> 0]>>, <<Code(A)>>, <<Saved>>,
     <<Count(-2), Code(A)>>, <<Count(3), Code(A), Saved>>, <<Code(B), Code(A)>>}
-----------------------------------------------------------------------------
(* Codes as they are sent, heard and decoded.                              *)

\* Words of n bits that a decoder could confuse.
Words(n) ==
    {[i \in 1..n |-> TRUE], [i \in 1..n |-> FALSE], [i \in 1..n |-> i % 2 = 0],
     [i \in 1..n |-> i % 3 = 1], [i \in 1..n |-> i = 1], [i \in 1..n |-> i = n]}

\* What rawbuf holds of a signal that came late by lags[1] at the even edges and
\* lags[2] at the odd, behind an earlier code.
Buffer(signal, lags, stale) ==
    [k \in 0..(RAWBUF - 1) |->
        IF k = 0 THEN 20
        ELSE IF k > Len(signal) THEN stale
        ELSE IF k % 2 = 1 THEN (signal[k] + lags[2]) \div USECPERTICK + 1
        ELSE (signal[k] - lags[1]) \div USECPERTICK + 1]

Readings(signal) ==
    {decode(Buffer(signal, lags, stale), Len(signal) + 1) :
        lags \in {<<0, 0>>, <<100, 100>>, <<0, 100>>, <<37, 71>>}, stale \in {12, 33}}

\* The buffers are ones that the receiver can fill.
ASSUME BuffersHeard ==
    \A b \in Words(16), lags \in {<<0, 0>>, <<100, 100>>, <<37, 71>>} :
        LET s == sendJVC(b, FALSE) IN Heard(s, Buffer(s, lags, 12), Len(s) + 1)

\* Every decoder leaves to the others what is theirs, Whynter's and the RC5
\* and RC6 decoders included, for which no theorem says so.
ASSUME CodesReadBack ==
    /\ \A b \in Words(32) : Readings(sendNEC(b)) = {Decoded("NEC", b)}
    /\ \A b \in Words(28) : Readings(sendLG(b)) = {Decoded("LG", b)}
    /\ \A b \in Words(16) : Readings(sendJVC(b, FALSE)) = {Decoded("JVC", b)}
    /\ \A b \in Words(32) : Readings(sendWhynter(b)) = {Decoded("WHYNTER", b)}
    /\ \A n \in {12, 20} : \A b \in Words(n) :
          Readings(sendSony(b)) = {Decoded("SONY", b)}
    /\ \A b \in Words(13) : Readings(sendRC5(b)) = {Decoded("RC5", b)}
    /\ \A b \in Words(20) : Readings(sendRC6(b)) = {Decoded("RC6", b)}

\* What is sent but not known when it is heard: SAMSUNG's and Panasonic's
\* decoders look for the lead in the wrong place, and Denon has none.
ASSUME CodesNotRead ==
    \A s \in {sendSAMSUNG(b) : b \in Words(32)}
             \union {sendPanasonic(a, b) : a \in Words(16), b \in Words(32)}
             \union {sendDenon(b) : b \in Words(14)} :
        Readings(s) = {Decoded("UNKNOWN", <<>>)}
=============================================================================
