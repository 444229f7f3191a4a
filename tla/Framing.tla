------------------------------- MODULE Framing -------------------------------
(***************************************************************************)
(* How messages cross the TCP connections of the mesh: send_message() ends *)
(* each with a newline, TCP hands them on in pieces of its own choosing,   *)
(* and onData() puts the lines together again in the row of inbuffer that  *)
(* belongs to the slot of the connection.                                  *)
(*                                                                         *)
(* The module holds one receiving node with its slots and the nodes that   *)
(* write to it.  A step of onData() is one turn of its loop over the       *)
(* bytes; no other callback runs before the loop is over.  A byte is known *)
(* by the message it belongs to and its place in it.                       *)
(***************************************************************************)
EXTENDS Integers, Sequences, SequencesExt

CONSTANTS
    Slots,       \* slots of espClient: 0 is the uplink of a mesh node
    Lengths,     \* lengths of messages, in bytes before the newline
    MaxPacket,   \* MQTT_MAX_PACKET_SIZE, the length of a row of inbuffer
    Mss,         \* most bytes TCP hands to one call of onData()
    ShortWrites, \* write() may take a part only: the send buffer is full
    MaxSent      \* bound: messages written on one connection

ASSUME SlotAssumption == Slots \subseteq Nat
ASSUME LengthAssumption == Lengths \subseteq Nat
ASSUME SizeAssumption == MaxPacket \in Nat /\ Mss \in Nat
ASSUME WriteAssumption == ShortWrites \in BOOLEAN
ASSUME BoundAssumption == MaxSent \in Nat

VARIABLES
    open,  \* slots whose espClient is connected
    sent,  \* per slot, the lengths of the messages written so far
    wire,  \* per slot, the bytes on their way
    buf,   \* per slot, inbuffer up to bufptr
    lines, \* per slot, what handle_client_data() was given
    call   \* the running onData(): its slot and the bytes it has yet to see

vars == <<open, sent, wire, buf, lines, call>>

Byte == [msg : Nat, at : Nat]
Idle == [slot |-> -1, rest |-> <<>>]

\* Byte i of message n; the byte behind the last one is the newline.
ByteOf(n, i) == [msg |-> n, at |-> i]
Line(n, length) == [i \in 1..(length + 1) |-> ByteOf(n, i)]
Text(n, length) == [i \in 1..length |-> ByteOf(n, i)]

IsNewline(s, b) == b.at = sent[s][b.msg] + 1

TypeOK ==
    /\ open \subseteq Slots
    /\ sent \in [Slots -> Seq(Lengths)]
    /\ wire \in [Slots -> Seq(Byte)]
    /\ buf \in [Slots -> Seq(Byte)]
    /\ lines \in [Slots -> Seq(Seq(Byte))]
    /\ call \in {Idle} \union [slot : open, rest : Seq(Byte) \ {<<>>}]

-----------------------------------------------------------------------------
(* Connections.                                                            *)

\* The slots onClient() looks through, and the one it takes.
FreeSlots == {s \in Slots \ open : s # 0}
FirstFree(s) == s \in FreeSlots /\ \A t \in FreeSlots : s <= t

\* Mutant: the slot goes on with what its buffer holds.
StartReadingOn(s) ==
    /\ UNCHANGED buf
    /\ sent' = [sent EXCEPT ![s] = <<>>]
    /\ wire' = [wire EXCEPT ![s] = <<>>]
    /\ lines' = [lines EXCEPT ![s] = <<>>]

\* A connection starts empty and bufptr goes back to the start of its row.
StartReading(s) ==
    /\ buf' = [buf EXCEPT ![s] = <<>>]
    /\ sent' = [sent EXCEPT ![s] = <<>>]
    /\ wire' = [wire EXCEPT ![s] = <<>>]
    /\ lines' = [lines EXCEPT ![s] = <<>>]

\* onClient(): a node below takes a slot.
ClientConnects(s) ==
    /\ call = Idle
    /\ FirstFree(s)
    /\ open' = open \union {s}
    /\ StartReading(s)
    /\ UNCHANGED call

\* onWifiConnect(): this node connects to its parent.
UplinkConnects ==
    /\ call = Idle
    /\ 0 \in Slots \ open
    /\ open' = open \union {0}
    /\ StartReading(0)
    /\ UNCHANGED call

\* onDisconnect() of a node below: what was on its way is lost.
ClientGone(s) ==
    /\ call = Idle
    /\ s \in open \ {0}
    /\ open' = open \ {s}
    /\ wire' = [wire EXCEPT ![s] = <<>>]
    /\ UNCHANGED <<sent, buf, lines, call>>

\* onDisconnect() of the uplink: shutdown_AP() drops the nodes below.
UplinkGone ==
    /\ call = Idle
    /\ 0 \in open
    /\ open' = {}
    /\ wire' = [s \in Slots |-> <<>>]
    /\ UNCHANGED <<sent, buf, lines, call>>

-----------------------------------------------------------------------------
(* Sending and receiving.                                                  *)

\* send_message() at the other end: what write() did not take is dropped.
Send(s, length) ==
    /\ s \in open
    /\ Len(sent[s]) < MaxSent
    /\ \E taken \in 0..(length + 1) :
        /\ taken <= length => ShortWrites
        /\ wire' = [wire EXCEPT ![s] =
                       @ \o SubSeq(Line(Len(sent[s]) + 1, length), 1, taken)]
    /\ sent' = [sent EXCEPT ![s] = Append(@, length)]
    /\ UNCHANGED <<open, buf, lines, call>>

\* Mutant: only what is in the row is compared with its length.
FitsRow(s, len) == Len(buf[s]) <= MaxPacket

\* Mutant: the last byte of the row is not used.
FitsStrictly(s, len) == Len(buf[s]) + len < MaxPacket

\* The check against an overrun of the row of inbuffer.
Fits(s, len) == Len(buf[s]) + len <= MaxPacket

\* onData() is called: a piece that does not fit is dropped with what the
\* row holds of the message.
DataArrives(s) ==
    /\ call = Idle
    /\ s \in open
    /\ \E len \in 1..Len(wire[s]) :
        /\ len <= Mss
        /\ wire' = [wire EXCEPT ![s] = SubSeq(@, len + 1, Len(@))]
        /\ IF Fits(s, len)
           THEN /\ call' = [slot |-> s, rest |-> SubSeq(wire[s], 1, len)]
                /\ UNCHANGED buf
           ELSE /\ buf' = [buf EXCEPT ![s] = <<>>]
                /\ UNCHANGED call
    /\ UNCHANGED <<open, sent, lines>>

\* A newline hands the line on and empties the row, any other byte joins it.
TakeByte(s, b) ==
    \/ /\ IsNewline(s, b)
       /\ lines' = [lines EXCEPT ![s] = Append(@, buf[s])]
       /\ buf' = [buf EXCEPT ![s] = <<>>]
    \/ /\ ~IsNewline(s, b)
       /\ buf' = [buf EXCEPT ![s] = Append(@, b)]
       /\ UNCHANGED lines

\* One turn of the loop of onData().
ReadByte ==
    /\ call # Idle
    /\ TakeByte(call.slot, Head(call.rest))
    /\ call' = IF Len(call.rest) = 1 THEN Idle
               ELSE [call EXCEPT !.rest = Tail(@)]
    /\ UNCHANGED <<open, sent, wire>>

-----------------------------------------------------------------------------
Init ==
    /\ open = {}
    /\ sent = [s \in Slots |-> <<>>]
    /\ wire = [s \in Slots |-> <<>>]
    /\ buf = [s \in Slots |-> <<>>]
    /\ lines = [s \in Slots |-> <<>>]
    /\ call = Idle

Next ==
    \/ UplinkConnects \/ UplinkGone \/ ReadByte
    \/ \E s \in Slots :
        \/ ClientConnects(s) \/ ClientGone(s) \/ DataArrives(s)
        \/ \E length \in Lengths : Send(s, length)

Spec == Init /\ [][Next]_vars

\* TCP hands on what was written while the connection stands, and a loop
\* that has begun goes on.
FairSpec ==
    /\ Spec
    /\ WF_vars(ReadByte)
    /\ \A s \in Slots : SF_vars(DataArrives(s))

-----------------------------------------------------------------------------
(* Properties.                                                             *)

\* onData() checks once, before its loop, and the loop then writes a byte
\* per turn without looking: what it has yet to write always fits its row,
\* whatever its peer sends and however TCP cuts it.
NoOverrun ==
    call # Idle => Len(buf[call.slot]) + Len(call.rest) <= MaxPacket

\* What handle_client_data() has been given on a connection are the first
\* messages written on it, whole and in their order, however they were cut
\* or joined on their way, whatever comes in on other slots meanwhile and
\* whoever had the slot before.
LinesAreMessages ==
    \A s \in Slots :
        /\ Len(lines[s]) <= Len(sent[s])
        /\ \A n \in DOMAIN lines[s] : lines[s][n] = Text(n, sent[s][n])

\* A message written on a connection is handed on unless the connection
\* breaks.
MessagesArrive ==
    \A s \in Slots : \A n \in 1..MaxSent :
        Len(sent[s]) >= n ~> Len(lines[s]) >= n \/ s \notin open

=============================================================================
