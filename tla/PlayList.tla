------------------------------ MODULE PlayList -------------------------------
(***************************************************************************)
(* What the IR remote promises of the commands it is sent: those that find *)
(* room wait in the order in which they came, the first of them is played  *)
(* as often as was asked for, a turn each or all in one, and only then is  *)
(* it the turn of the next.  A reset forgets them all.                     *)
(***************************************************************************)
EXTENDS Integers, Sequences

CONSTANTS
    Codes,    \* what can be played
    Capacity, \* commands that can wait
    MaxTimes  \* as often as one can be asked for

VARIABLE waiting \* commands and how often each is yet to be played

Command == [code : Codes, left : 1..MaxTimes, together : BOOLEAN]

Init == waiting = <<>>

Accept ==
    /\ Len(waiting) < Capacity
    /\ \E c \in Command : waiting' = Append(waiting, c)

\* The last time a command is played, or all times together.
Finish ==
    /\ waiting # <<>>
    /\ Head(waiting).together \/ Head(waiting).left = 1
    /\ waiting' = Tail(waiting)

PlayOnce ==
    /\ waiting # <<>>
    /\ ~Head(waiting).together /\ Head(waiting).left > 1
    /\ waiting' = [waiting EXCEPT ![1].left = @ - 1]

Forget == waiting' = <<>>

Next == Accept \/ Finish \/ PlayOnce \/ Forget

Spec == Init /\ [][Next]_waiting
=============================================================================
