------------------------------- MODULE ApWalk -------------------------------
(***************************************************************************)
(* What a node promises about the access points it may join: it searches,  *)
(* tries the candidates it found in their order, gives one up only after   *)
(* it tried it, moves on by one, and searches again only at the end of the *)
(* list.  Timers, retries of a full access point, doubled events and the   *)
(* links above WiFi are left to NodeLink.tla, which implements this.       *)
(***************************************************************************)
EXTENDS Integers, Sequences

CONSTANT Lists  \* the lists a search may yield

VARIABLES
    phase,  \* "off", "search", "wait", "joining", "up" or "lost"
    list,   \* the candidates of the last search
    pos     \* the candidate it is at, 0 for none

walkVars == <<phase, list, pos>>

Init == phase = "off" /\ list = <<>> /\ pos = 0

PowerOn ==
    /\ phase = "off" /\ phase' = "search"
    /\ UNCHANGED <<list, pos>>

PowerOff == phase' = "off" /\ list' = <<>> /\ pos' = 0

\* A search ends, with candidates or without.
Found ==
    /\ phase = "search"
    /\ list' \in Lists
    /\ IF list' = <<>> THEN phase' = "search" /\ pos' = 0
                       ELSE phase' = "wait" /\ pos' = 1

Try     == phase = "wait" /\ phase' = "joining" /\ UNCHANGED <<list, pos>>
Joined  == phase = "joining" /\ phase' = "up" /\ UNCHANGED <<list, pos>>
Refused == phase = "joining" /\ phase' = "wait" /\ UNCHANGED <<list, pos>>

\* The node itself leaves its access point.
Leave == /\ phase \in {"joining", "up"} /\ phase' = "lost"
         /\ UNCHANGED <<list, pos>>

\* On to the next candidate; at the end of the list, to the next search.
GiveUp ==
    /\ phase \in {"joining", "up", "lost"}
    /\ IF pos < Len(list) THEN phase' = "wait" /\ pos' = pos + 1
                          ELSE phase' = "search" /\ pos' = 0
    /\ UNCHANGED list

Next == PowerOn \/ PowerOff \/ Found \/ Try \/ Joined \/ Refused \/ Leave
        \/ GiveUp

Spec == Init /\ [][Next]_walkVars
=============================================================================
