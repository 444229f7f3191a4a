------------------------------ MODULE MCInbox -------------------------------
(* Small instances of Inbox for TLC.                                       *)
EXTENDS Inbox

\* An empty message, ones that fit a row with their terminator, one that is
\* as long as the row and one that reaches into the next.
SomeTotals == {0, 1, MaxPacket - 1, MaxPacket, MaxPacket + 1}
=============================================================================
