-------------------------------- MODULE Inbox --------------------------------
(***************************************************************************)
(* How onMqttMessage() puts together the parts in which the MQTT client    *)
(* hands on a message.  It copies them to inbuffer[0], the row that also   *)
(* takes the lines of the uplink while the node hangs on a mesh parent,    *)
(* and the row before those of the children.                               *)
(*                                                                         *)
(* inbuffer is the array it is in the code, row behind row, so that a      *)
(* write behind the end of a row is a write into the next one.  A byte is  *)
(* known by its sender, the message it belongs to and its place in it.     *)
(* Lines fit their row here; module Framing is about those that do not.    *)
(***************************************************************************)
EXTENDS Integers, Sequences

CONSTANTS
    MaxPacket,   \* MQTT_MAX_PACKET_SIZE, the length of a row
    NumClients,  \* ESP8266_NUM_CLIENTS, the rows behind row 0
    Totals,      \* lengths of MQTT messages
    MaxMessages  \* bound: messages or lines of a sender

ASSUME PacketAssumption == MaxPacket \in Nat \ {0}
ASSUME ClientsAssumption == NumClients \in Nat
ASSUME MessagesAssumption == MaxMessages \in Nat

Rows == 0..NumClients
Size == (NumClients + 1) * MaxPacket
Cells == 0..(Size - 1)

\* A terminator behind the last row would fall among other members.
ASSUME TotalsAssumption == Totals \subseteq Cells
Row(r) == r * MaxPacket

Mqtt == -1
Senders == Rows \union {Mqtt}
ByteOf(who, n, i) == [who |-> who, n |-> n, at |-> i]
Byte == [who : Senders, n : 0..MaxMessages, at : Nat]

\* The terminator '\0'.
Zero == ByteOf(0, 0, 0)

\* No part of a message has come yet.
NoMessage == [total |-> 0, index |-> 0, busy |-> FALSE]

VARIABLES
    link,     \* what the station hangs on: a broker's router or a parent
    inbuffer, \* the rows
    bufptr,   \* per row, the place of the next byte of a line
    message,  \* the MQTT message under way, as far as it was handed on
    count,    \* per sender, the messages or lines begun so far
    handed,   \* the string last given to parse_message(), and by whom sent
    tooLong   \* history: a message longer than a row has begun

vars == <<link, inbuffer, bufptr, message, count, handed, tooLong>>

TypeOK ==
    /\ link \in {"none", "router", "parent"}
    /\ inbuffer \in [Cells -> Byte]
    /\ bufptr \in [Rows -> 0..(MaxPacket - 1)]
    /\ message \in [total : Totals \union {0}, index : Nat, busy : BOOLEAN]
    /\ count \in [Senders -> 0..MaxMessages]
    /\ handed \in [who : Senders, n : 0..MaxMessages, text : Seq(Byte),
                   length : Nat]
    /\ tooLong \in BOOLEAN

\* The C string that begins at cell c.
EndOfString(memory, c, e) ==
    /\ e \in Cells => memory[e] = Zero
    /\ \A d \in c..(e - 1) : memory[d] # Zero

StringAt(memory, c) ==
    LET end == CHOOSE e \in c..Size : EndOfString(memory, c, e)
    IN  [i \in 1..(end - c) |-> memory[c + i - 1]]

\* What a message of this length should be.
TextOf(who, n, length) == [i \in 1..length |-> ByteOf(who, n, i)]

-----------------------------------------------------------------------------
(* The uplink and the children come and go.                                *)

\* onWifiConnect() on a router leaves bufptr alone; the MQTT client starts
\* with no message.
RouterJoined ==
    /\ link = "none"
    /\ link' = "router"
    /\ message' = NoMessage
    /\ UNCHANGED <<inbuffer, bufptr, count, handed, tooLong>>

\* Mutant: onWifiConnect() does not reset bufptr[0].
ParentJoinedMidRow ==
    /\ link = "none"
    /\ link' = "parent"
    /\ UNCHANGED <<inbuffer, bufptr, message, count, handed, tooLong>>

\* onWifiConnect() on a parent: bufptr[0] goes back to the row's start.
ParentJoined ==
    /\ link = "none"
    /\ link' = "parent"
    /\ bufptr' = [bufptr EXCEPT ![0] = 0]
    /\ UNCHANGED <<inbuffer, message, count, handed, tooLong>>

\* The uplink is lost, in the midst of a message as well.
LinkLost ==
    /\ link # "none"
    /\ link' = "none"
    /\ message' = NoMessage
    /\ UNCHANGED <<inbuffer, bufptr, count, handed, tooLong>>

\* onClient(): the slot's row starts anew.
ClientConnects(r) ==
    /\ r # 0
    /\ bufptr[r] # 0
    /\ bufptr' = [bufptr EXCEPT ![r] = 0]
    /\ UNCHANGED <<link, inbuffer, message, count, handed, tooLong>>

-----------------------------------------------------------------------------
(* MQTT messages.                                                          *)

\* The broker sends a message.
MessageComes(total) ==
    /\ link = "router"
    /\ ~message.busy
    /\ count[Mqtt] < MaxMessages
    /\ count' = [count EXCEPT ![Mqtt] = @ + 1]
    /\ message' = [total |-> total, index |-> 0, busy |-> TRUE]
    /\ tooLong' = (tooLong \/ total >= MaxPacket)
    /\ UNCHANGED <<link, inbuffer, bufptr, handed>>

\* The two tests of onMqttMessage().
RoomFor(index, len, total) ==
    /\ index + len + 1 <= MaxPacket
    /\ index + len <= total

\* Mutant: every part is copied to the start of the row.
CopyToStart(index, len, total) ==
    [c \in Cells |->
        IF c \in 0..(len - 1) THEN ByteOf(Mqtt, count[Mqtt], index + c + 1)
        ELSE IF c = total THEN Zero ELSE inbuffer[c]]

\* Mutant: the place of the terminator is counted from the part.
CopyEndsFromPart(index, len, total) ==
    [c \in Cells |->
        IF c \in index..(index + len - 1)
        THEN ByteOf(Mqtt, count[Mqtt], c + 1)
        ELSE IF c = index + total THEN Zero ELSE inbuffer[c]]

\* memcpy() of the part, and the terminator behind the whole message.
Copy(index, len, total) ==
    [c \in Cells |->
        IF c \in index..(index + len - 1)
        THEN ByteOf(Mqtt, count[Mqtt], c + 1)
        ELSE IF c = total THEN Zero ELSE inbuffer[c]]

\* onMqttMessage(): the client hands on the next len bytes.
MessagePart(len) ==
    /\ message.busy
    /\ len > 0 \/ message.total = 0
    /\ message.index + len <= message.total
    /\ IF RoomFor(message.index, len, message.total)
       THEN /\ inbuffer' = Copy(message.index, len, message.total)
            /\ handed' =
                 IF message.index + len = message.total
                 THEN [who |-> Mqtt, n |-> count[Mqtt],
                       text |-> StringAt(inbuffer', Row(0)),
                       length |-> message.total]
                 ELSE handed
       ELSE UNCHANGED <<inbuffer, handed>>
    /\ message' = IF message.index + len = message.total THEN NoMessage
                  ELSE [message EXCEPT !.index = @ + len]
    /\ UNCHANGED <<link, bufptr, count, tooLong>>

-----------------------------------------------------------------------------
(* Lines from the parent and from children, byte by byte.                  *)

\* onData() begins its search for the slot at 1 unless meshConnect.
Reads(r) == r = 0 => link = "parent"

\* A byte of a line that is not its newline.
LineByte(r) ==
    /\ Reads(r)
    /\ bufptr[r] < MaxPacket - 1
    /\ count' = [count EXCEPT ![r] = IF bufptr[r] = 0 THEN @ + 1 ELSE @]
    /\ count'[r] <= MaxMessages
    /\ inbuffer' = [inbuffer EXCEPT ![Row(r) + bufptr[r]] =
                       ByteOf(r, count'[r], bufptr[r] + 1)]
    /\ bufptr' = [bufptr EXCEPT ![r] = @ + 1]
    /\ UNCHANGED <<link, message, handed, tooLong>>

\* Mutant: bufptr stays behind the line.
LineEndsAndGoesOn(r) ==
    /\ Reads(r)
    /\ bufptr[r] > 0
    /\ inbuffer' = [inbuffer EXCEPT ![Row(r) + bufptr[r]] = Zero]
    /\ bufptr' = [bufptr EXCEPT ![r] = @ + 1]
    /\ UNCHANGED <<link, message, count, handed, tooLong>>

\* The newline: the line ends, handle_client_data() gets it.
LineEnds(r) ==
    /\ Reads(r)
    /\ bufptr[r] > 0
    /\ inbuffer' = [inbuffer EXCEPT ![Row(r) + bufptr[r]] = Zero]
    /\ handed' = [who |-> r, n |-> count[r],
                  text |-> StringAt(inbuffer', Row(r)), length |-> bufptr[r]]
    /\ bufptr' = [bufptr EXCEPT ![r] = 0]
    /\ UNCHANGED <<link, message, count, tooLong>>

-----------------------------------------------------------------------------
Init ==
    /\ link = "none"
    /\ inbuffer = [c \in Cells |-> Zero]
    /\ bufptr = [r \in Rows |-> 0]
    /\ message = NoMessage
    /\ count = [s \in Senders |-> 0]
    /\ handed = [who |-> 0, n |-> 0, text |-> <<>>, length |-> 0]
    /\ tooLong = FALSE

Next ==
    \/ RouterJoined \/ ParentJoined \/ LinkLost
    \/ \E r \in Rows : ClientConnects(r) \/ LineByte(r) \/ LineEnds(r)
    \/ \E total \in Totals : MessageComes(total)
    \/ \E len \in 0..message.total : MessagePart(len)

Spec == Init /\ [][Next]_vars

-----------------------------------------------------------------------------
(* Properties.                                                             *)

\* What parse_message() and the children are given is one message as the
\* broker or a peer sent it, whole and with nothing of another one: parts
\* of a message the link broke off, lines of an earlier parent and dropped
\* parts never show up in a later message, though all use the same row.
\* The exception is a child's line after a message longer than a row: the
\* terminator of that message may have been written into it.
HandedWhole ==
    \/ handed.text = TextOf(handed.who, handed.n, handed.length)
    \/ tooLong /\ handed.who \in Rows \ {0}

\* The lines that children have begun stand in their rows as they were
\* sent, unless a message longer than a row has come.
LinesUndisturbed ==
    ~tooLong =>
        \A r \in Rows \ {0} : \A i \in 0..(bufptr[r] - 1) :
            inbuffer[Row(r) + i] = ByteOf(r, count[r], i + 1)
=============================================================================
