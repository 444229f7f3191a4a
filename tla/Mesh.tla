-------------------------------- MODULE Mesh ---------------------------------
(***************************************************************************)
(* Several nodes as one mesh: the links they open to routers and to each   *)
(* other's access points, and the messages that travel over them, from the *)
(* broker down to every node and from the nodes up to the broker.          *)
(*                                                                         *)
(* Module NodeLink has the callbacks of one node in all detail.  Here a    *)
(* node keeps what its neighbours notice of them: scanning and the walk    *)
(* along the candidates are one choice, Join, and module Framing's lines   *)
(* are whole messages.  A message down is its number in the order of the   *)
(* broker; a message up is the announcement of an uplink, known by the     *)
(* number of that uplink.                                                  *)
(***************************************************************************)
EXTENDS Integers, Sequences, FiniteSets

CONSTANTS
    Nodes,
    NumClients,  \* ESP8266_NUM_CLIENTS
    SendBuffer,  \* messages a socket takes before write() refuses
    MaxOpens,    \* bound: uplinks opened
    MaxDown,     \* bound: messages sent by the broker
    MaxFaults    \* bound: associations, links, sessions and nodes that fail

ASSUME ClientsAssumption == NumClients \in Nat \ {0}
ASSUME BufferAssumption == SendBuffer \in Nat \ {0}
ASSUME OpensAssumption == MaxOpens \in Nat
ASSUME DownAssumption == MaxDown \in Nat
ASSUME FaultsAssumption == MaxFaults \in Nat

Router == "router"
None == "none"

ASSUME NodesAssumption ==
    /\ IsFiniteSet(Nodes)
    /\ Router \notin Nodes /\ None \notin Nodes

VARIABLES
    sta,         \* per node, what its station is associated with
    tcp,         \* espClient[0]: the node it was opened to, or None
    tcpLive,     \* it was opened in the present association
    mqtt,        \* the MQTT session
    mqttLive,    \* it was opened in the present association
    served,      \* the other end of espClient[0] holds a slot for it
    AP_ready,    \* our own access point is believed up
    softAP,      \* it is up
    opens,       \* links to parents opened so far, in the whole mesh
    opened,      \* per node, the number of the one it has open, or 0
    sent,        \* messages sent so far by the broker
    toNode,      \* messages on their way down a node's uplink
    toParent,    \* announcements on their way up, from a child to its parent
    last,        \* the last message received over the present uplink
    faults,      \* what has failed so far
    overrun,     \* history: a message was lost in a full send buffer
    carriedOver  \* history: an uplink was opened by a node that had not
                 \* noticed yet that the one before was dead

linkVars == <<sta, tcp, tcpLive, mqtt, mqttLive>>
apVars == <<served, AP_ready, softAP>>
openVars == <<opens, opened, carriedOver>>
downVars == <<sent, toNode, last, overrun>>
vars == <<linkVars, apVars, openVars, downVars, toParent,
          faults>>

\* Slots of p's access point in use.  A slot whose child has opened another
\* uplink by now only takes room, and is left out.
Slots(p) == {c \in Nodes : tcp[c] = p /\ served[c]}

TypeOK ==
    /\ sta \in [Nodes -> Nodes \union {Router, None}]
    /\ tcp \in [Nodes -> Nodes \union {None}]
    /\ tcpLive \in [Nodes -> BOOLEAN] /\ mqttLive \in [Nodes -> BOOLEAN]
    /\ mqtt \in [Nodes -> {"off", "connecting", "on"}]
    /\ served \in [Nodes -> BOOLEAN]
    /\ \A p \in Nodes : Cardinality(Slots(p)) <= NumClients
    /\ AP_ready \in [Nodes -> BOOLEAN] /\ softAP \in [Nodes -> BOOLEAN]
    /\ opens \in 0..MaxOpens /\ opened \in [Nodes -> 0..MaxOpens]
    /\ sent \in 0..MaxDown /\ last \in [Nodes -> 0..MaxDown]
    /\ toNode \in [Nodes -> Seq(1..MaxDown)]
    /\ toParent \in [Nodes -> Seq(1..MaxOpens)]
    /\ faults \in 0..MaxFaults
    /\ overrun \in BOOLEAN /\ carriedOver \in BOOLEAN

-----------------------------------------------------------------------------
(* Calls shared by the handlers.                                           *)

\* Mutant: shutdown_AP() stops the access point and leaves espClient[i].
ShutdownKeepsClients(n) ==
    /\ AP_ready' = [AP_ready EXCEPT ![n] = FALSE]
    /\ softAP' = [softAP EXCEPT ![n] = @ /\ ~AP_ready[n]]
    /\ UNCHANGED served

\* shutdown_AP(), with its early return.  What n has sent to a child may
\* still arrive.
ShutdownAP(n) ==
    /\ AP_ready' = [AP_ready EXCEPT ![n] = FALSE]
    /\ softAP' = [softAP EXCEPT ![n] = @ /\ ~AP_ready[n]]
    /\ served' = [c \in Nodes |-> served[c] /\ (AP_ready[n] => tcp[c] # n)]

\* setup_AP(), with its early return.
SetupAP(n) ==
    /\ AP_ready' = [AP_ready EXCEPT ![n] = TRUE]
    /\ softAP' = [softAP EXCEPT ![n] = @ \/ ~AP_ready[n]]

\* The association ends, and what was on its way over it is lost.
LeaveAssociation(n) ==
    /\ sta' = [sta EXCEPT ![n] = None]
    /\ tcpLive' = [tcpLive EXCEPT ![n] = FALSE]
    /\ mqttLive' = [mqttLive EXCEPT ![n] = FALSE]
    /\ toNode' = [toNode EXCEPT ![n] = <<>>]
    /\ toParent' = [toParent EXCEPT ![n] = <<>>]
    /\ last' = [last EXCEPT ![n] = 0]

-----------------------------------------------------------------------------
(* Links.                                                                  *)

\* connect(), up to onWifiConnect(): the station joins an access point that
\* a scan found.  On a router it starts MQTT, unless that is under way.
Join(n, ap) ==
    /\ sta[n] = None
    /\ ap # n
    /\ ap \in Nodes => softAP[ap]
    /\ sta' = [sta EXCEPT ![n] = ap]
    /\ IF ap = Router /\ mqtt[n] = "off"
       THEN /\ mqtt' = [mqtt EXCEPT ![n] = "connecting"]
            /\ mqttLive' = [mqttLive EXCEPT ![n] = TRUE]
       ELSE UNCHANGED <<mqtt, mqttLive>>
    /\ UNCHANGED <<tcp, tcpLive, apVars, openVars, downVars, toParent>>

\* A scan without result begins: WiFi.mode(WIFI_STA) takes the access point
\* down, and nobody resets AP_ready or espClient[].
StartScan(n) ==
    /\ sta[n] = None
    /\ softAP[n]
    /\ softAP' = [softAP EXCEPT ![n] = FALSE]
    /\ UNCHANGED <<linkVars, served, AP_ready, openVars, downVars, toParent>>

\* onWifiDisconnect(): the access point n has for others stays up.
LoseStation(n) ==
    /\ sta[n] # None
    /\ LeaveAssociation(n)
    /\ UNCHANGED <<tcp, mqtt, apVars, openVars, sent, overrun>>

\* The messages of an uplink begin anew.
FreshUplink(n) ==
    /\ last' = [last EXCEPT ![n] = 0]
    /\ toNode' = [toNode EXCEPT ![n] = <<>>]

\* onMqttConnect(): subscribes, announces, offers an access point.
MqttUp(n) ==
    /\ mqtt[n] = "connecting" /\ mqttLive[n] /\ sta[n] = Router
    /\ mqtt' = [mqtt EXCEPT ![n] = "on"]
    /\ FreshUplink(n)
    /\ SetupAP(n)
    /\ carriedOver' = (carriedOver \/ tcp[n] # None)
    /\ UNCHANGED <<sta, tcp, tcpLive, mqttLive, served, opens, opened, sent,
                   overrun, toParent>>

\* Mutant: onMqttDisconnect() leaves the access point up.
MqttDownKeepsAP(n) ==
    /\ mqtt[n] # "off"
    /\ mqtt' = [mqtt EXCEPT ![n] = IF sta[n] # None THEN "connecting" ELSE "off"]
    /\ mqttLive' = [mqttLive EXCEPT ![n] = sta[n] # None]
    /\ toNode' = [toNode EXCEPT ![n] = IF tcpLive[n] THEN @ ELSE <<>>]
    /\ UNCHANGED <<sta, tcp, tcpLive, apVars, openVars, sent,
                   last, overrun, toParent>>

\* onMqttDisconnect(): the end of a session, or of an attempt at one.
MqttDown(n) ==
    /\ mqtt[n] # "off"
    /\ ShutdownAP(n)
    /\ mqtt' = [mqtt EXCEPT ![n] = IF sta[n] # None THEN "connecting" ELSE "off"]
    /\ mqttLive' = [mqttLive EXCEPT ![n] = sta[n] # None]
    /\ toNode' = [toNode EXCEPT ![n] = IF tcpLive[n] THEN @ ELSE <<>>]
    /\ UNCHANGED <<sta, tcp, tcpLive, openVars, sent, last,
                   overrun, toParent>>

\* Mutant: onClient() takes a child for which it has no slot.
HasRoomAlways(p) == TRUE

\* onClient() finds a free slot.
HasRoom(p) == Cardinality(Slots(p)) < NumClients

\* onConnect() here and onClient() there: espClient[0], which was free, is
\* open, n announces itself and offers an access point.
TcpUp(n) ==
    /\ sta[n] \in Nodes /\ tcp[n] = None
    /\ softAP[sta[n]] /\ HasRoom(sta[n])
    /\ tcp' = [tcp EXCEPT ![n] = sta[n]]
    /\ tcpLive' = [tcpLive EXCEPT ![n] = TRUE]
    /\ served' = [served EXCEPT ![n] = TRUE]
    /\ opens < MaxOpens
    /\ opens' = opens + 1
    /\ opened' = [opened EXCEPT ![n] = opens']
    /\ FreshUplink(n)
    /\ SetupAP(n)
    /\ carriedOver' = (carriedOver \/ mqtt[n] = "on")
    /\ toParent' = [toParent EXCEPT ![n] = <<opens'>>]
    /\ UNCHANGED <<sta, mqtt, mqttLive, sent, overrun>>

\* onDisconnect(espClient[0]), also when it could not be opened.  It may
\* come long after the association, or the parent's slot, was lost.
SockClosed(n) ==
    /\ tcp[n] # None \/ sta[n] \in Nodes
    /\ tcp' = [tcp EXCEPT ![n] = None]
    /\ opened' = [opened EXCEPT ![n] = 0]
    /\ ShutdownAP(n)
    /\ LeaveAssociation(n)
    /\ UNCHANGED <<mqtt, opens, carriedOver, sent, overrun>>

\* onTimeout(espClient[0]): the socket stays.
SockTimeout(n) ==
    /\ tcp[n] # None
    /\ ShutdownAP(n)
    /\ LeaveAssociation(n)
    /\ UNCHANGED <<tcp, mqtt, openVars, sent, overrun>>

\* onDisconnect(espClient[i]) of a child, and onTimeout(), which closes it.
ChildGone(c) ==
    /\ served[c]
    /\ served' = [served EXCEPT ![c] = FALSE]
    /\ UNCHANGED <<linkVars, AP_ready, softAP, openVars, downVars, toParent>>

\* A reset: die(), checkConnectionEstablished() or a loss of power.
Restart(n) ==
    /\ sta' = [sta EXCEPT ![n] = None]
    /\ tcp' = [tcp EXCEPT ![n] = None]
    /\ tcpLive' = [tcpLive EXCEPT ![n] = FALSE]
    /\ mqtt' = [mqtt EXCEPT ![n] = "off"]
    /\ mqttLive' = [mqttLive EXCEPT ![n] = FALSE]
    /\ AP_ready' = [AP_ready EXCEPT ![n] = FALSE]
    /\ softAP' = [softAP EXCEPT ![n] = FALSE]
    /\ served' = [c \in Nodes |-> served[c] /\ c # n /\ tcp[c] # n]
    /\ toParent' = [toParent EXCEPT ![n] = <<>>]
    /\ toNode' = [toNode EXCEPT ![n] = <<>>]
    /\ last' = [last EXCEPT ![n] = 0]
    /\ opened' = [opened EXCEPT ![n] = 0]
    /\ UNCHANGED <<opens, carriedOver, sent, overrun>>

-----------------------------------------------------------------------------
(* Messages.                                                               *)

HasSession(n) == mqtt[n] = "on" /\ mqttLive[n]

\* Data flows between n and the node it has its uplink to.
Linked(n) == tcpLive[n] /\ served[n] /\ softAP[tcp[n]]

\* The broker sends a message to all its clients.
BrokerSends ==
    /\ sent < MaxDown
    /\ sent' = sent + 1
    /\ toNode' = [n \in Nodes |-> IF HasSession(n) THEN Append(toNode[n], sent')
                                  ELSE toNode[n]]
    /\ UNCHANGED <<linkVars, apVars, openVars, last, overrun, toParent>>

\* Children whose socket takes one message more.
Ready(n) == {c \in Slots(n) : Linked(c) /\ Len(toNode[c]) < SendBuffer}

\* onMqttMessage(), and handle_client_data(0) for a line of the parent:
\* broadcast_message() to the children, then parse_message().
ReceiveDown(n) ==
    /\ toNode[n] # <<>>
    /\ LET m == Head(toNode[n]) IN
        /\ toNode' = [c \in Nodes |->
                        IF c = n THEN Tail(toNode[n])
                        ELSE IF c \in Ready(n) THEN Append(toNode[c], m)
                        ELSE toNode[c]]
        /\ last' = [last EXCEPT ![n] = m]
    /\ overrun' = (overrun \/ \E c \in Slots(n) : Linked(c) /\ c \notin Ready(n))
    /\ UNCHANGED <<linkVars, apVars, openVars, sent, toParent>>

\* Of publish() and handle_client_data(i): meshConnect decides whether an
\* announcement goes to the parent.  It tells what the station is on, or was
\* on last; a node that is on nothing loses the announcement either way.
meshConnect(n) == sta[n] \in Nodes

\* handle_client_data(i) with an announcement of the child c.
ForwardUp(c) ==
    /\ toParent[c] # <<>> /\ Linked(c)
    /\ LET n == tcp[c]
           fits == Linked(n) /\ Len(toParent[n]) < SendBuffer
       IN  toParent' = [k \in Nodes |->
                          IF k = c THEN Tail(toParent[c])
                          ELSE IF k = n /\ meshConnect(n) /\ fits
                          THEN Append(toParent[n], Head(toParent[c]))
                          ELSE toParent[k]]
    /\ UNCHANGED <<linkVars, apVars, openVars, downVars>>

-----------------------------------------------------------------------------
Init ==
    /\ sta = [n \in Nodes |-> None] /\ tcp = [n \in Nodes |-> None]
    /\ mqtt = [n \in Nodes |-> "off"]
    /\ tcpLive = [n \in Nodes |-> FALSE] /\ mqttLive = [n \in Nodes |-> FALSE]
    /\ served = [n \in Nodes |-> FALSE]
    /\ AP_ready = [n \in Nodes |-> FALSE] /\ softAP = [n \in Nodes |-> FALSE]
    /\ opens = 0 /\ opened = [n \in Nodes |-> 0]
    /\ sent = 0 /\ last = [n \in Nodes |-> 0]
    /\ toNode = [n \in Nodes |-> <<>>] /\ toParent = [n \in Nodes |-> <<>>]
    /\ faults = 0
    /\ overrun = FALSE /\ carriedOver = FALSE

\* What happens by itself: the nodes' own steps, and the end of a session
\* or of a socket that is dead already.
Proceeds ==
    \/ \E n \in Nodes :
          \/ \E ap \in Nodes \union {Router} : Join(n, ap)
          \/ StartScan(n) \/ MqttUp(n) \/ TcpUp(n)
          \/ ~HasSession(n) /\ MqttDown(n)
          \/ ~Linked(n) /\ SockClosed(n)
          \/ ReceiveDown(n) \/ ForwardUp(n)
    \/ BrokerSends

\* What fails.
Fails ==
    \E n \in Nodes :
        \/ LoseStation(n) \/ SockTimeout(n) \/ ChildGone(n) \/ Restart(n)
        \/ HasSession(n) /\ MqttDown(n)
        \/ Linked(n) /\ SockClosed(n)

Next ==
    \/ Proceeds /\ UNCHANGED faults
    \/ Fails /\ faults < MaxFaults /\ faults' = faults + 1

Spec == Init /\ [][Next]_vars

\* The libraries find out in the end that a session or a socket is dead,
\* and what has arrived at a node is handed to it.
FairSpec ==
    /\ Spec
    /\ \A n \in Nodes :
          /\ WF_vars(~mqttLive[n] /\ MqttDown(n) /\ UNCHANGED faults)
          /\ WF_vars(~Linked(n) /\ SockClosed(n) /\ UNCHANGED faults)
          /\ WF_vars(ReceiveDown(n) /\ UNCHANGED faults)
          /\ WF_vars(ForwardUp(n) /\ UNCHANGED faults)
-----------------------------------------------------------------------------
(* Properties.                                                             *)

\* The nodes of S form a loop: their uplinks lead to each other, and data
\* flows over all of them.
Loop(S) == S # {} /\ \A n \in S : Linked(n) /\ tcp[n] \in S

\* A node may join the access point of its own descendant, since it keeps
\* its own when the station loses the router.  Whenever nodes form a loop,
\* though, one of them still has an MQTT session from before, which can
\* only end, and whose end takes down its access point.
LoopHasStaleSession ==
    \A S \in SUBSET Nodes :
        Loop(S) => \E n \in S : mqtt[n] = "on" /\ sta[n] # Router

\* No loop is there for ever.
LoopsEnd == \A S \in (SUBSET Nodes) \ {{}} : Loop(S) ~> ~Loop(S)

Consecutive(s) == \A i \in 1..(Len(s) - 1) : s[i + 1] = s[i] + 1

\* Over one uplink a node is sent consecutive messages of the broker,
\* whatever is lost and rebuilt above it: no message twice, none skipped.
\* The exceptions are a full send buffer and a node that has changed its own
\* uplink under its children, not knowing that the one before was dead.
InSequence ==
    ~overrun /\ ~carriedOver =>
        \A n \in Nodes :
            /\ Consecutive(toNode[n])
            /\ last[n] # 0 /\ toNode[n] # <<>> => toNode[n][1] = last[n] + 1

\* An announcement does not travel for ever, round a loop of nodes neither.
InTransit(u) == \E n \in Nodes : \E i \in 1..Len(toParent[n]) : toParent[n][i] = u
AnnouncementsSettle == \A u \in 1..MaxOpens : InTransit(u) ~> ~InTransit(u)
=============================================================================
