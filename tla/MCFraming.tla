----------------------------- MODULE MCFraming ------------------------------
(* Small instances of Framing for TLC.                                     *)
EXTENDS Framing

\* Messages that leave room in the row for one more segment.
RoomyLengths == 1..(MaxPacket - Mss)

\* The longest a row can hold.
FullLengths == {MaxPacket}
=============================================================================
