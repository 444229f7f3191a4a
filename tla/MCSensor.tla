------------------------------ MODULE MCSensor ------------------------------
(* Small instances of Sensor and of Meter for TLC.                         *)
EXTENDS Sensor, Meter

\* A heartbeat that is too short to be taken, one longer than a file may
\* hold, and one that is negative as an int.
SomeRequests == {0, 2, 4}

\* The sensor and its meter share no variable, so that no property can tell
\* how their steps are interleaved: either runs from the initial state, while
\* the other one waits there.
MCInit == Init /\ MeterInit
MCNext ==
    \/ MeterInit /\ Next /\ UNCHANGED meterVars
    \/ Init /\ MeterNext /\ UNCHANGED vars

MCSpec == MCInit /\ [][MCNext]_<<vars, meterVars>> /\ LoopRuns
=============================================================================
