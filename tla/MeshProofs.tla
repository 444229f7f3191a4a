----------------------------- MODULE MeshProofs ------------------------------
(***************************************************************************)
(* Proofs about Mesh.tla, for any set of nodes, any number of clients, any *)
(* bounds and any failures: types, why every loop of nodes holds a stale   *)
(* MQTT session, and why messages arrive in sequence over one uplink.      *)
(***************************************************************************)
EXTENDS Mesh, FiniteSetTheorems, SequenceTheorems,
        WellFoundedInduction, TLAPS

USE NodesAssumption

\* What the variables of a node say about each other.
Links ==
    \A n \in Nodes :
        /\ softAP[n] => AP_ready[n]
        /\ AP_ready[n] => tcp[n] # None \/ mqtt[n] = "on"
        /\ served[n] /\ tcp[n] # None => AP_ready[tcp[n]]
        /\ tcpLive[n] => tcp[n] # None /\ sta[n] = tcp[n]
        /\ HasSession(n) => sta[n] = Router
        /\ opened[n] <= opens

\* A node's uplink to a parent is younger than the parent's own one, unless
\* the parent has an MQTT session: who opens an uplink without one has no
\* children yet.
Younger ==
    \A c, n \in Nodes :
        /\ tcp[c] = n /\ served[c] /\ tcpLive[c]
        /\ tcp[n] # None /\ mqtt[n] # "on"
        => opened[n] < opened[c]

LinkInv == Links /\ Younger

-----------------------------------------------------------------------------
(* Types.                                                                  *)

LEMMA SlotsStep ==
  ASSUME NEW S, NEW T, IsFiniteSet(S), Cardinality(S) <= NumClients,
         \/ T \subseteq S
         \/ Cardinality(S) < NumClients /\ \E c : T = S \union {c}
  PROVE  Cardinality(T) <= NumClients
<1>1. Cardinality(S) \in Nat
  BY FS_CardinalityType
<1>2. CASE T \subseteq S
  <2>1. Cardinality(T) <= Cardinality(S) /\ IsFiniteSet(T)
    BY <1>2, FS_Subset
  <2>2. Cardinality(T) \in Nat
    BY <2>1, FS_CardinalityType
  <2> QED
    BY <1>1, <2>1, <2>2, ClientsAssumption
<1>3. ASSUME NEW c, T = S \union {c}, Cardinality(S) < NumClients
      PROVE  Cardinality(T) <= NumClients
  <2>1. Cardinality(S \union {c}) \in {Cardinality(S), Cardinality(S) + 1}
    BY FS_AddElement
  <2> QED
    BY <1>1, <1>3, <2>1, ClientsAssumption
<1> QED
  BY <1>2, <1>3

LEMMA TypeInit == Init => TypeOK
<1> SUFFICES ASSUME Init PROVE TypeOK
  OBVIOUS
<1> USE OpensAssumption, DownAssumption, FaultsAssumption, ClientsAssumption
<1>1. \A p \in Nodes : Slots(p) = {}
  BY DEF Init, Slots
<1>2. \A p \in Nodes : Cardinality(Slots(p)) <= NumClients
  BY <1>1, FS_EmptySet
<1>3. /\ sta \in [Nodes -> Nodes \union {Router, None}]
      /\ tcp \in [Nodes -> Nodes \union {None}]
      /\ mqtt \in [Nodes -> {"off", "connecting", "on"}]
  BY DEF Init
<1>4. /\ toNode \in [Nodes -> Seq(1..MaxDown)]
      /\ toParent \in [Nodes -> Seq(1..MaxOpens)]
  BY DEF Init
<1>5. /\ opens \in 0..MaxOpens /\ opened \in [Nodes -> 0..MaxOpens]
      /\ sent \in 0..MaxDown /\ last \in [Nodes -> 0..MaxDown]
      /\ faults \in 0..MaxFaults
  BY DEF Init
<1>6. /\ tcpLive \in [Nodes -> BOOLEAN] /\ mqttLive \in [Nodes -> BOOLEAN]
      /\ served \in [Nodes -> BOOLEAN]
      /\ AP_ready \in [Nodes -> BOOLEAN] /\ softAP \in [Nodes -> BOOLEAN]
      /\ overrun \in BOOLEAN /\ carriedOver \in BOOLEAN
  BY DEF Init
<1> QED
  BY <1>2, <1>3, <1>4, <1>5, <1>6 DEF TypeOK

\* All of TypeOK but the number of clients.
Types ==
    /\ sta \in [Nodes -> Nodes \union {Router, None}]
    /\ tcp \in [Nodes -> Nodes \union {None}]
    /\ tcpLive \in [Nodes -> BOOLEAN] /\ mqttLive \in [Nodes -> BOOLEAN]
    /\ mqtt \in [Nodes -> {"off", "connecting", "on"}]
    /\ served \in [Nodes -> BOOLEAN]
    /\ AP_ready \in [Nodes -> BOOLEAN] /\ softAP \in [Nodes -> BOOLEAN]
    /\ opens \in 0..MaxOpens /\ opened \in [Nodes -> 0..MaxOpens]
    /\ sent \in 0..MaxDown /\ last \in [Nodes -> 0..MaxDown]
    /\ toNode \in [Nodes -> Seq(1..MaxDown)]
    /\ toParent \in [Nodes -> Seq(1..MaxOpens)]
    /\ faults \in 0..MaxFaults
    /\ overrun \in BOOLEAN /\ carriedOver \in BOOLEAN

LEMMA TypesNext == TypeOK /\ [Next]_vars => Types'
<1> SUFFICES ASSUME TypeOK, [Next]_vars PROVE Types'
  OBVIOUS
<1> USE OpensAssumption, DownAssumption, FaultsAssumption
<1> USE DEF TypeOK, Types, linkVars, apVars, openVars, downVars, ShutdownAP,
        SetupAP, LeaveAssociation, FreshUplink
<1>0. faults' \in 0..MaxFaults
  BY DEF Next, vars
<1>1. ASSUME NEW n \in Nodes, NEW ap \in Nodes \union {Router}, Join(n, ap),
             faults' \in 0..MaxFaults
      PROVE  Types'
  <2>1. sta' \in [Nodes -> Nodes \union {Router, None}]
    BY <1>1 DEF Join
  <2>2. /\ mqtt' \in [Nodes -> {"off", "connecting", "on"}]
        /\ mqttLive' \in [Nodes -> BOOLEAN]
    <3>1. CASE ap = Router /\ mqtt[n] = "off"
      <4>1. /\ mqtt' = [mqtt EXCEPT ![n] = "connecting"]
            /\ mqttLive' = [mqttLive EXCEPT ![n] = TRUE]
        BY <1>1, <3>1 DEF Join
      <4> QED
        BY <4>1
    <3>2. CASE ~(ap = Router /\ mqtt[n] = "off")
      BY <1>1, <3>2 DEF Join
    <3> QED
      BY <3>1, <3>2
  <2> QED
    BY <1>1, <2>1, <2>2 DEF Join
<1>2. ASSUME NEW n \in Nodes, StartScan(n), faults' \in 0..MaxFaults
      PROVE  Types'
  BY <1>2 DEF StartScan
<1>3. ASSUME NEW n \in Nodes, LoseStation(n), faults' \in 0..MaxFaults
      PROVE  Types'
  BY <1>3 DEF LoseStation
<1>4. ASSUME NEW n \in Nodes, MqttUp(n), faults' \in 0..MaxFaults
      PROVE  Types'
  BY <1>4 DEF MqttUp
<1>5. ASSUME NEW n \in Nodes, MqttDown(n), faults' \in 0..MaxFaults
      PROVE  Types'
  <2>1. mqtt' \in [Nodes -> {"off", "connecting", "on"}]
    BY <1>5 DEF MqttDown
  <2>2. mqttLive' \in [Nodes -> BOOLEAN]
    BY <1>5 DEF MqttDown
  <2>3. toNode' \in [Nodes -> Seq(1..MaxDown)]
    <3>1. CASE tcpLive[n]
      BY <1>5, <3>1 DEF MqttDown
    <3>2. CASE ~tcpLive[n]
      <4>1. toNode' = [toNode EXCEPT ![n] = <<>>]
        BY <1>5, <3>2 DEF MqttDown
      <4> QED
        BY <4>1
    <3> QED
      BY <3>1, <3>2
  <2>4. /\ served' \in [Nodes -> BOOLEAN] /\ AP_ready' \in [Nodes -> BOOLEAN]
        /\ softAP' \in [Nodes -> BOOLEAN]
    BY <1>5 DEF MqttDown
  <2> QED
    BY <1>5, <2>1, <2>2, <2>3, <2>4 DEF MqttDown
<1>6. ASSUME NEW n \in Nodes, TcpUp(n), faults' \in 0..MaxFaults
      PROVE  Types'
  BY <1>6 DEF TcpUp
<1>7. ASSUME NEW n \in Nodes, SockClosed(n), faults' \in 0..MaxFaults
      PROVE  Types'
  BY <1>7 DEF SockClosed
<1>8. ASSUME NEW n \in Nodes, SockTimeout(n), faults' \in 0..MaxFaults
      PROVE  Types'
  BY <1>8 DEF SockTimeout
<1>9. ASSUME NEW n \in Nodes, ChildGone(n), faults' \in 0..MaxFaults
      PROVE  Types'
  BY <1>9 DEF ChildGone
<1>10. ASSUME NEW n \in Nodes, Restart(n), faults' \in 0..MaxFaults
       PROVE  Types'
  BY <1>10 DEF Restart
<1>11. ASSUME NEW n \in Nodes, ReceiveDown(n), faults' \in 0..MaxFaults
       PROVE  Types'
  <2>1. toNode[n] \in Seq(1..MaxDown) /\ toNode[n] # <<>>
    BY <1>11 DEF ReceiveDown
  <2>2. Head(toNode[n]) \in 1..MaxDown /\ Tail(toNode[n]) \in Seq(1..MaxDown)
    BY <2>1
  <2>3. \A c \in Nodes : Append(toNode[c], Head(toNode[n])) \in Seq(1..MaxDown)
    BY <2>2
  <2>4. toNode' \in [Nodes -> Seq(1..MaxDown)]
    BY <1>11, <2>2, <2>3 DEF ReceiveDown
  <2>5. last' \in [Nodes -> 0..MaxDown]
    BY <1>11, <2>2 DEF ReceiveDown
  <2>6. overrun' \in BOOLEAN
    BY <1>11 DEF ReceiveDown
  <2> QED
    BY <1>11, <2>4, <2>5, <2>6 DEF ReceiveDown
<1>12. ASSUME NEW n \in Nodes, ForwardUp(n), faults' \in 0..MaxFaults
       PROVE  Types'
  <2>1. toParent[n] \in Seq(1..MaxOpens) /\ toParent[n] # <<>>
    BY <1>12 DEF ForwardUp
  <2>2. Head(toParent[n]) \in 1..MaxOpens /\ Tail(toParent[n]) \in Seq(1..MaxOpens)
    BY <2>1
  <2>3. \A s \in Seq(1..MaxOpens) : Append(s, Head(toParent[n])) \in Seq(1..MaxOpens)
    BY <2>2
  <2>4. toParent' \in [Nodes -> Seq(1..MaxOpens)]
    BY <1>12, <2>2, <2>3 DEF ForwardUp
  <2> QED
    BY <1>12, <2>4 DEF ForwardUp
<1>13. CASE BrokerSends
  <2>1. sent' \in 1..MaxDown
    BY <1>13 DEF BrokerSends
  <2>2. \A n \in Nodes : Append(toNode[n], sent') \in Seq(1..MaxDown)
    BY <2>1
  <2>3. toNode' \in [Nodes -> Seq(1..MaxDown)]
    BY <1>13, <2>2 DEF BrokerSends
  <2> QED
    BY <1>0, <1>13, <2>1, <2>3 DEF BrokerSends
<1>14. CASE UNCHANGED vars
  BY <1>14 DEF vars
<1> QED
  BY <1>0, <1>1, <1>2, <1>3, <1>4, <1>5, <1>6, <1>7, <1>8, <1>9, <1>10,
     <1>11, <1>12, <1>13, <1>14 DEF Next, Proceeds, Fails

LEMMA SlotsNext ==
  ASSUME TypeOK, [Next]_vars, NEW p \in Nodes
  PROVE  \/ Slots(p)' \subseteq Slots(p)
         \/ HasRoom(p) /\ \E c \in Nodes : Slots(p)' = Slots(p) \union {c}
<1>0. Slots(p)' = {c \in Nodes : tcp'[c] = p /\ served'[c]}
  BY DEF Slots
<1>1. CASE \E n \in Nodes : TcpUp(n)
  <2>1. PICK n \in Nodes : TcpUp(n)
    BY <1>1
  <2>2. /\ tcp' = [tcp EXCEPT ![n] = sta[n]]
        /\ served' = [served EXCEPT ![n] = TRUE]
        /\ HasRoom(sta[n])
    BY <2>1 DEF TcpUp
  <2>3. CASE sta[n] = p
    <3>1. Slots(p)' = Slots(p) \union {n}
      BY <1>0, <2>2, <2>3 DEF Slots, TypeOK
    <3> QED
      BY <2>2, <2>3, <3>1
  <2>4. CASE sta[n] # p
    BY <1>0, <2>2, <2>4 DEF Slots, TypeOK
  <2> QED
    BY <2>3, <2>4
<1>2. CASE ~\E n \in Nodes : TcpUp(n)
  <2>1. /\ tcp' = tcp \/ \E n \in Nodes : tcp' = [tcp EXCEPT ![n] = None]
        /\ \A c \in Nodes : served'[c] => served[c]
    BY <1>2 DEF Next, Proceeds, Fails, vars, TypeOK, Join, StartScan, MqttUp,
       MqttDown, SockClosed, SockTimeout, LoseStation, ChildGone, Restart,
       ReceiveDown, ForwardUp, BrokerSends, linkVars, apVars, ShutdownAP
  <2>2. \A c \in Nodes : tcp'[c] = p => tcp[c] = p
    BY <2>1 DEF TypeOK
  <2> QED
    BY <1>0, <2>1, <2>2 DEF Slots
<1> QED
  BY <1>1, <1>2

LEMMA TypeNext == TypeOK /\ [Next]_vars => TypeOK'
<1> SUFFICES ASSUME TypeOK, [Next]_vars PROVE TypeOK'
  OBVIOUS
<1>1. Types'
  BY TypesNext
<1>2. ASSUME NEW p \in Nodes PROVE Cardinality(Slots(p)') <= NumClients
  <2>1. IsFiniteSet(Slots(p)) /\ Cardinality(Slots(p)) <= NumClients
    BY FS_Subset DEF Slots, TypeOK
  <2>2. \/ Slots(p)' \subseteq Slots(p)
        \/ /\ Cardinality(Slots(p)) < NumClients
           /\ \E c : Slots(p)' = Slots(p) \union {c}
    BY SlotsNext DEF HasRoom
  <2> QED
    BY <2>1, <2>2, SlotsStep
<1> QED
  BY <1>1, <1>2 DEF TypeOK, Types

\* The variables keep to their types and no access point serves more than
\* NumClients children.
THEOREM Typed == Spec => []TypeOK
<1> QED
  BY TypeInit, TypeNext, PTL DEF Spec
-----------------------------------------------------------------------------
(* Loops.                                                                  *)

\* The types of the variables that make a link.
LinkTypes ==
    /\ sta \in [Nodes -> Nodes \union {Router, None}]
    /\ tcp \in [Nodes -> Nodes \union {None}]
    /\ tcpLive \in [Nodes -> BOOLEAN] /\ mqttLive \in [Nodes -> BOOLEAN]
    /\ mqtt \in [Nodes -> {"off", "connecting", "on"}]
    /\ served \in [Nodes -> BOOLEAN]
    /\ AP_ready \in [Nodes -> BOOLEAN] /\ softAP \in [Nodes -> BOOLEAN]
    /\ opens \in Nat /\ opened \in [Nodes -> Nat]

LEMMA LinkTyped == TypeOK => LinkTypes
  BY OpensAssumption DEF TypeOK, LinkTypes

\* Whoever is served after shutdown_AP() is served by an access point that
\* is up.
LEMMA ServedByAP ==
  ASSUME LinkTypes, Links, NEW n \in Nodes, ShutdownAP(n), NEW m \in Nodes,
         served'[m], tcp[m] # None
  PROVE  AP_ready'[tcp[m]]
<1>1. served[m] /\ (AP_ready[n] => tcp[m] # n)
  BY DEF ShutdownAP
<1>2. tcp[m] \in Nodes /\ AP_ready[tcp[m]]
  BY <1>1 DEF LinkTypes, Links
<1>3. tcp[m] # n
  BY <1>1, <1>2
<1> QED
  BY <1>2, <1>3 DEF ShutdownAP, LinkTypes

LEMMA LinksNext == LinkTypes /\ Links /\ [Next]_vars => Links'
<1> SUFFICES ASSUME LinkTypes, Links, [Next]_vars PROVE Links'
  OBVIOUS
<1> USE DEF LinkTypes, Links, HasSession, linkVars, apVars, openVars, downVars,
        ShutdownAP, SetupAP, LeaveAssociation
<1>1. ASSUME NEW n \in Nodes, NEW ap \in Nodes \union {Router}, Join(n, ap)
      PROVE  Links'
  <2> SUFFICES ASSUME NEW m \in Nodes
               PROVE  /\ softAP'[m] => AP_ready'[m]
                      /\ AP_ready'[m] => tcp'[m] # None \/ mqtt'[m] = "on"
                      /\ served'[m] /\ tcp'[m] # None => AP_ready'[tcp'[m]]
                      /\ tcpLive'[m] => tcp'[m] # None /\ sta'[m] = tcp'[m]
                      /\ mqtt'[m] = "on" /\ mqttLive'[m] => sta'[m] = Router
                      /\ opened'[m] <= opens'
    OBVIOUS
  <2>1. softAP'[m] => AP_ready'[m]
    BY <1>1 DEF Join
  <2>2. AP_ready'[m] => tcp'[m] # None \/ mqtt'[m] = "on"
    BY <1>1 DEF Join
  <2>3. served'[m] /\ tcp'[m] # None => AP_ready'[tcp'[m]]
    BY <1>1 DEF Join
  <2>4. tcpLive'[m] => tcp'[m] # None /\ sta'[m] = tcp'[m]
    BY <1>1 DEF Join
  <2>5. mqtt'[m] = "on" /\ mqttLive'[m] => sta'[m] = Router
    <3>1. CASE ap = Router /\ mqtt[n] = "off"
      BY <1>1, <3>1 DEF Join
    <3>2. CASE ~(ap = Router /\ mqtt[n] = "off")
      <4>1. mqtt' = mqtt /\ mqttLive' = mqttLive
        BY <1>1, <3>2 DEF Join
      <4>2. sta' = [sta EXCEPT ![n] = ap] /\ sta[n] = None
        BY <1>1 DEF Join
      <4>3. mqtt[m] = "on" /\ mqttLive[m] => m # n /\ sta[m] = Router
        BY <4>2 DEF Router, None
      <4> QED
        BY <4>1, <4>2, <4>3
    <3> QED
      BY <3>1, <3>2
  <2>6. opened'[m] <= opens'
    BY <1>1 DEF Join
  <2> QED
    BY <2>1, <2>2, <2>3, <2>4, <2>5, <2>6
<1>2. ASSUME NEW n \in Nodes, StartScan(n)
      PROVE  Links'
  BY <1>2 DEF StartScan
<1>3. ASSUME NEW n \in Nodes, LoseStation(n)
      PROVE  Links'
  BY <1>3 DEF LoseStation
<1>4. ASSUME NEW n \in Nodes, MqttUp(n)
      PROVE  Links'
  BY <1>4 DEF MqttUp
<1>5. ASSUME NEW n \in Nodes, MqttDown(n)
      PROVE  Links'
  <2> SUFFICES ASSUME NEW m \in Nodes
               PROVE  /\ softAP'[m] => AP_ready'[m]
                      /\ AP_ready'[m] => tcp'[m] # None \/ mqtt'[m] = "on"
                      /\ served'[m] /\ tcp'[m] # None => AP_ready'[tcp'[m]]
                      /\ tcpLive'[m] => tcp'[m] # None /\ sta'[m] = tcp'[m]
                      /\ mqtt'[m] = "on" /\ mqttLive'[m] => sta'[m] = Router
                      /\ opened'[m] <= opens'
    OBVIOUS
  <2>1. softAP'[m] => AP_ready'[m]
    BY <1>5 DEF MqttDown
  <2>2. AP_ready'[m] => tcp'[m] # None \/ mqtt'[m] = "on"
    BY <1>5 DEF MqttDown
  <2>3. served'[m] /\ tcp'[m] # None => AP_ready'[tcp'[m]]
    <3>1. tcp'[m] # None => tcp'[m] = tcp[m]
      BY <1>5 DEF MqttDown
    <3> QED
      BY <1>5, <3>1, ServedByAP DEF MqttDown
  <2>4. tcpLive'[m] => tcp'[m] # None /\ sta'[m] = tcp'[m]
    BY <1>5 DEF MqttDown
  <2>5. mqtt'[m] = "on" /\ mqttLive'[m] => sta'[m] = Router
    BY <1>5 DEF MqttDown
  <2>6. opened'[m] <= opens'
    BY <1>5 DEF MqttDown
  <2> QED
    BY <2>1, <2>2, <2>3, <2>4, <2>5, <2>6
<1>6. ASSUME NEW n \in Nodes, TcpUp(n)
      PROVE  Links'
  BY <1>6 DEF TcpUp
<1>7. ASSUME NEW n \in Nodes, SockClosed(n)
      PROVE  Links'
  <2> SUFFICES ASSUME NEW m \in Nodes
               PROVE  /\ softAP'[m] => AP_ready'[m]
                      /\ AP_ready'[m] => tcp'[m] # None \/ mqtt'[m] = "on"
                      /\ served'[m] /\ tcp'[m] # None => AP_ready'[tcp'[m]]
                      /\ tcpLive'[m] => tcp'[m] # None /\ sta'[m] = tcp'[m]
                      /\ mqtt'[m] = "on" /\ mqttLive'[m] => sta'[m] = Router
                      /\ opened'[m] <= opens'
    OBVIOUS
  <2>1. softAP'[m] => AP_ready'[m]
    BY <1>7 DEF SockClosed
  <2>2. AP_ready'[m] => tcp'[m] # None \/ mqtt'[m] = "on"
    BY <1>7 DEF SockClosed
  <2>3. served'[m] /\ tcp'[m] # None => AP_ready'[tcp'[m]]
    <3>1. tcp'[m] # None => tcp'[m] = tcp[m]
      BY <1>7 DEF SockClosed
    <3> QED
      BY <1>7, <3>1, ServedByAP DEF SockClosed
  <2>4. tcpLive'[m] => tcp'[m] # None /\ sta'[m] = tcp'[m]
    BY <1>7 DEF SockClosed
  <2>5. mqtt'[m] = "on" /\ mqttLive'[m] => sta'[m] = Router
    BY <1>7 DEF SockClosed
  <2>6. opened'[m] <= opens'
    BY <1>7 DEF SockClosed
  <2> QED
    BY <2>1, <2>2, <2>3, <2>4, <2>5, <2>6
<1>8. ASSUME NEW n \in Nodes, SockTimeout(n)
      PROVE  Links'
  <2> SUFFICES ASSUME NEW m \in Nodes
               PROVE  /\ softAP'[m] => AP_ready'[m]
                      /\ AP_ready'[m] => tcp'[m] # None \/ mqtt'[m] = "on"
                      /\ served'[m] /\ tcp'[m] # None => AP_ready'[tcp'[m]]
                      /\ tcpLive'[m] => tcp'[m] # None /\ sta'[m] = tcp'[m]
                      /\ mqtt'[m] = "on" /\ mqttLive'[m] => sta'[m] = Router
                      /\ opened'[m] <= opens'
    OBVIOUS
  <2>1. softAP'[m] => AP_ready'[m]
    BY <1>8 DEF SockTimeout
  <2>2. AP_ready'[m] => tcp'[m] # None \/ mqtt'[m] = "on"
    BY <1>8 DEF SockTimeout
  <2>3. served'[m] /\ tcp'[m] # None => AP_ready'[tcp'[m]]
    <3>1. tcp'[m] # None => tcp'[m] = tcp[m]
      BY <1>8 DEF SockTimeout
    <3> QED
      BY <1>8, <3>1, ServedByAP DEF SockTimeout
  <2>4. tcpLive'[m] => tcp'[m] # None /\ sta'[m] = tcp'[m]
    BY <1>8 DEF SockTimeout
  <2>5. mqtt'[m] = "on" /\ mqttLive'[m] => sta'[m] = Router
    BY <1>8 DEF SockTimeout
  <2>6. opened'[m] <= opens'
    BY <1>8 DEF SockTimeout
  <2> QED
    BY <2>1, <2>2, <2>3, <2>4, <2>5, <2>6
<1>9. ASSUME NEW n \in Nodes, ChildGone(n)
      PROVE  Links'
  BY <1>9 DEF ChildGone
<1>10. ASSUME NEW n \in Nodes, Restart(n)
       PROVE  Links'
  <2> SUFFICES ASSUME NEW m \in Nodes
               PROVE  /\ softAP'[m] => AP_ready'[m]
                      /\ AP_ready'[m] => tcp'[m] # None \/ mqtt'[m] = "on"
                      /\ served'[m] /\ tcp'[m] # None => AP_ready'[tcp'[m]]
                      /\ tcpLive'[m] => tcp'[m] # None /\ sta'[m] = tcp'[m]
                      /\ mqtt'[m] = "on" /\ mqttLive'[m] => sta'[m] = Router
                      /\ opened'[m] <= opens'
    OBVIOUS
  <2>1. softAP'[m] => AP_ready'[m]
    BY <1>10 DEF Restart
  <2>2. AP_ready'[m] => tcp'[m] # None \/ mqtt'[m] = "on"
    BY <1>10 DEF Restart
  <2>3. served'[m] /\ tcp'[m] # None => AP_ready'[tcp'[m]]
    <3> SUFFICES ASSUME served'[m], tcp'[m] # None PROVE AP_ready'[tcp'[m]]
      OBVIOUS
    <3>1. served[m] /\ m # n /\ tcp[m] # n /\ tcp'[m] = tcp[m]
      BY <1>10 DEF Restart
    <3>2. tcp[m] \in Nodes /\ AP_ready[tcp[m]]
      BY <3>1
    <3> QED
      BY <1>10, <3>1, <3>2 DEF Restart
  <2>4. tcpLive'[m] => tcp'[m] # None /\ sta'[m] = tcp'[m]
    BY <1>10 DEF Restart
  <2>5. mqtt'[m] = "on" /\ mqttLive'[m] => sta'[m] = Router
    BY <1>10 DEF Restart
  <2>6. opened'[m] <= opens'
    BY <1>10 DEF Restart
  <2> QED
    BY <2>1, <2>2, <2>3, <2>4, <2>5, <2>6
<1>11. CASE UNCHANGED <<linkVars, apVars, openVars>>
  BY <1>11
<1> QED
  BY <1>1, <1>2, <1>3, <1>4, <1>5, <1>6, <1>7,
     <1>8, <1>9, <1>10, <1>11
     DEF Next, Proceeds, Fails, ReceiveDown, ForwardUp, BrokerSends, vars

LEMMA YoungerNext == LinkTypes /\ LinkInv /\ [Next]_vars => Younger'
<1> SUFFICES ASSUME LinkTypes, LinkInv, [Next]_vars PROVE Younger'
  OBVIOUS
<1> USE DEF LinkTypes, LinkInv, Links, Younger, HasSession, linkVars, apVars,
        openVars, downVars, ShutdownAP, SetupAP, LeaveAssociation
<1>1. ASSUME NEW n \in Nodes, NEW ap \in Nodes \union {Router}, Join(n, ap)
      PROVE  Younger'
  BY <1>1 DEF Join
<1>2. ASSUME NEW n \in Nodes, StartScan(n)
      PROVE  Younger'
  BY <1>2 DEF StartScan
<1>3. ASSUME NEW n \in Nodes, LoseStation(n)
      PROVE  Younger'
  BY <1>3 DEF LoseStation
<1>4. ASSUME NEW n \in Nodes, MqttUp(n)
      PROVE  Younger'
  BY <1>4 DEF MqttUp
<1>5. ASSUME NEW n \in Nodes, MqttDown(n)
      PROVE  Younger'
  BY <1>5 DEF MqttDown
<1>6. ASSUME NEW n \in Nodes, TcpUp(n)
      PROVE  Younger'
  BY <1>6 DEF TcpUp
<1>7. ASSUME NEW n \in Nodes, SockClosed(n)
      PROVE  Younger'
  BY <1>7 DEF SockClosed
<1>8. ASSUME NEW n \in Nodes, SockTimeout(n)
      PROVE  Younger'
  BY <1>8 DEF SockTimeout
<1>9. ASSUME NEW n \in Nodes, ChildGone(n)
      PROVE  Younger'
  BY <1>9 DEF ChildGone
<1>10. ASSUME NEW n \in Nodes, Restart(n)
       PROVE  Younger'
  BY <1>10 DEF Restart
<1>11. CASE UNCHANGED <<linkVars, apVars, openVars>>
  BY <1>11
<1> QED
  BY <1>1, <1>2, <1>3, <1>4, <1>5, <1>6, <1>7,
     <1>8, <1>9, <1>10, <1>11
     DEF Next, Proceeds, Fails, ReceiveDown, ForwardUp, BrokerSends, vars
LEMMA LinksInit == Init => LinkInv
  BY OpensAssumption DEF Init, LinkInv, Links, Younger, HasSession

LEMMA LinksHold == Spec => []LinkInv
<1>1. TypeOK /\ LinkInv /\ [Next]_vars => LinkInv'
  BY LinkTyped, LinksNext, YoungerNext DEF LinkInv
<1> QED
  BY <1>1, LinksInit, Typed, PTL DEF Spec

\* In a loop without a stale session nobody has an MQTT session, so each
\* uplink is younger than the next one round the loop, and none is the
\* oldest.
LEMMA NoLoop ==
  ASSUME LinkTypes, LinkInv, NEW S \in SUBSET Nodes, Loop(S)
  PROVE  \E n \in S : mqtt[n] = "on" /\ sta[n] # Router
<1> SUFFICES ASSUME \A n \in S : mqtt[n] = "on" => sta[n] = Router
             PROVE  FALSE
  OBVIOUS
<1> DEFINE T == {opened[n] : n \in S}
<1>1. \A n \in S : /\ n \in Nodes /\ tcp[n] \in S /\ tcp[n] \in Nodes
                   /\ tcpLive[n] /\ served[n] /\ sta[n] = tcp[n]
  BY DEF Loop, Linked, LinkInv, Links
<1>2. \A n \in S : mqtt[n] # "on"
  BY <1>1
<1>3. \A n \in S : tcp[n] # None
  BY <1>1
<1>4. \A n \in S : opened[tcp[n]] < opened[n]
  BY <1>1, <1>2, <1>3 DEF LinkInv, Younger
<1>5. T \subseteq Nat /\ T # {}
  BY <1>1 DEF Loop, LinkTypes
<1>6. PICK t \in T : \A u \in T : ~(<<u, t>> \in OpToRel(<, Nat))
  BY <1>5, NatLessThanWellFounded, WFMin
<1>7. PICK n \in S : t = opened[n]
  BY <1>6
<1>8. opened[tcp[n]] \in T
  BY <1>1, <1>7
<1> QED
  BY <1>4, <1>5, <1>6, <1>7, <1>8 DEF OpToRel

\* Whenever nodes form a loop, one of them has an MQTT session from before:
\* of any number of nodes, however they fail.
THEOREM LoopsHoldStaleSession == Spec => []LoopHasStaleSession
<1>1. TypeOK /\ LinkInv => LoopHasStaleSession
  BY LinkTyped, NoLoop DEF LoopHasStaleSession
<1> QED
  BY <1>1, LinksHold, Typed, PTL
-----------------------------------------------------------------------------
(* Sequence.                                                               *)

\* What is still to come over an uplink follows what came last, l.
Chain(l, s) == Consecutive(s) /\ (l # 0 /\ s # <<>> => s[1] = l + 1)

\* The youngest message sent over an uplink, 0 if there was none.
EndOf(l, s) == IF s = <<>> THEN l ELSE s[Len(s)]

LEMMA AppendToChain ==
  ASSUME NEW s \in Seq(1..MaxDown), NEW l \in Nat, NEW m \in 1..MaxDown,
         Chain(l, s), EndOf(l, s) \in {0, m - 1}
  PROVE  Chain(l, Append(s, m)) /\ EndOf(l, Append(s, m)) = m
<1> USE DownAssumption
<1> DEFINE t == Append(s, m)
<1>1. /\ t \in Seq(1..MaxDown) /\ Len(t) = Len(s) + 1 /\ Len(s) \in Nat
      /\ t[Len(t)] = m
      /\ \A i \in 1..Len(s) : t[i] = s[i] /\ s[i] \in 1..MaxDown
  OBVIOUS
<1>2. CASE s = <<>>
  BY <1>1, <1>2 DEF Chain, EndOf, Consecutive
<1>3. CASE s # <<>>
  <2>1. Len(s) > 0 /\ s[Len(s)] = m - 1
    BY <1>1, <1>3 DEF EndOf
  <2>2. ASSUME NEW i \in 1..(Len(t) - 1) PROVE t[i + 1] = t[i] + 1
    <3>1. CASE i = Len(s)
      BY <1>1, <2>1, <3>1
    <3>2. CASE i # Len(s)
      <4>1. i \in 1..(Len(s) - 1) /\ i \in 1..Len(s) /\ i + 1 \in 1..Len(s)
        BY <1>1, <3>2
      <4>2. s[i + 1] = s[i] + 1
        BY <4>1 DEF Chain, Consecutive
      <4> QED
        BY <1>1, <4>1, <4>2
    <3> QED
      BY <3>1, <3>2
  <2>3. t[1] = s[1] /\ t # <<>>
    BY <1>1, <2>1
  <2> QED
    BY <1>1, <1>3, <2>2, <2>3 DEF Chain, EndOf, Consecutive
<1> QED
  BY <1>2, <1>3

LEMMA TailOfChain ==
  ASSUME NEW s \in Seq(1..MaxDown), NEW l \in Nat, s # <<>>, Chain(l, s)
  PROVE  /\ Chain(Head(s), Tail(s))
         /\ EndOf(Head(s), Tail(s)) = EndOf(l, s)
         /\ l # 0 => Head(s) = l + 1
<1> USE DownAssumption
<1>1. /\ Len(s) \in Nat /\ Len(s) > 0 /\ Head(s) = s[1]
      /\ Tail(s) \in Seq(1..MaxDown) /\ Len(Tail(s)) = Len(s) - 1
      /\ \A i \in 1..(Len(s) - 1) : Tail(s)[i] = s[i + 1]
  OBVIOUS
<1>2. Consecutive(Tail(s))
  BY <1>1 DEF Chain, Consecutive
<1>3. Tail(s) # <<>> => Len(s) > 1 /\ Tail(s)[1] = s[1] + 1
  BY <1>1 DEF Chain, Consecutive
<1>4. Tail(s) = <<>> <=> Len(s) = 1
  <2>1. Tail(s) = <<>> <=> Len(Tail(s)) = 0
    BY <1>1, EmptySeq, Zenon
  <2>2. Len(s) \in Nat /\ Len(Tail(s)) = Len(s) - 1
    BY <1>1, Zenon
  <2>3. Len(Tail(s)) = 0 <=> Len(s) = 1
    BY <2>2
  <2> QED
    BY <2>1, <2>3, Zenon
<1>5. EndOf(Head(s), Tail(s)) = EndOf(l, s)
  <2>1. CASE Len(s) = 1
    BY <1>1, <1>4, <2>1 DEF EndOf
  <2>2. CASE Len(s) # 1
    BY <1>1, <1>4, <2>2 DEF EndOf
  <2> QED
    BY <2>1, <2>2
<1>6. Chain(Head(s), Tail(s)) /\ (l # 0 => Head(s) = l + 1)
  BY <1>1, <1>2, <1>3 DEF Chain
<1> QED
  BY <1>5, <1>6

\* The node has an uplink in the present association.
Live(n) == tcpLive[n] \/ HasSession(n)
End(n) == EndOf(last[n], toNode[n])

\* What a child was sent last is what its parent received last, as long as
\* the parent has an uplink at all.
OrderAt(n) ==
    /\ Chain(last[n], toNode[n])
    /\ toNode[n] # <<>> => Live(n)
    /\ HasSession(n) => End(n) \in {0, sent}
    /\ Linked(n) /\ Live(tcp[n]) => End(n) \in {0, last[tcp[n]]}

NotOwnParent == \A n \in Nodes : sta[n] # n

OrderInv ==
    /\ NotOwnParent
    /\ ~overrun /\ ~carriedOver => \A n \in Nodes : OrderAt(n)

\* The types of the variables that make up what is sent down.
DownTypes ==
    /\ sent \in Nat /\ last \in [Nodes -> Nat]
    /\ toNode \in [Nodes -> Seq(1..MaxDown)]
    /\ overrun \in BOOLEAN /\ carriedOver \in BOOLEAN

LEMMA DownTyped == TypeOK => DownTypes
  BY DownAssumption DEF TypeOK, DownTypes

\* A step in which no message moves: each uplink keeps what is under way or
\* begins anew, and no parent's uplink begins anew under a child.
Quiet(n) ==
    /\ \/ toNode'[n] = toNode[n] /\ last'[n] = last[n] /\ (Live(n) => Live(n)')
          /\ (HasSession(n)' => HasSession(n))
       \/ toNode'[n] = <<>> /\ last'[n] = last[n] /\ ~HasSession(n)' /\ ~Linked(n)'
       \/ toNode'[n] = <<>> /\ last'[n] = 0
    /\ Linked(n)' => \/ toNode'[n] = <<>> /\ last'[n] = 0
                     \/ /\ Linked(n) /\ tcp'[n] = tcp[n]
                        /\ Live(tcp[n])' => Live(tcp[n]) /\ last'[tcp[n]] = last[tcp[n]]

\* A step of n that moves no message.
LinkStep(n) ==
    \/ \E ap \in Nodes \union {Router} : Join(n, ap)
    \/ StartScan(n) \/ LoseStation(n) \/ MqttUp(n) \/ MqttDown(n) \/ TcpUp(n)
    \/ SockClosed(n) \/ SockTimeout(n) \/ ChildGone(n) \/ Restart(n)

LEMMA QuietKeepsOrder ==
  ASSUME DownTypes, NEW n \in Nodes, OrderAt(n), Quiet(n), sent' = sent
  PROVE  OrderAt(n)'
<1>1. Chain(0, <<>>) /\ Chain(last[n], <<>>) /\ EndOf(0, <<>>) = 0
  BY DEF Chain, EndOf, Consecutive
<1>2. Chain(last[n], toNode[n])' /\ (toNode'[n] # <<>> => Live(n)')
  BY <1>1 DEF Quiet, OrderAt
<1>3. HasSession(n)' => End(n)' \in {0, sent}
  BY <1>1 DEF Quiet, OrderAt, End
<1>4. Linked(n)' /\ Live(tcp[n])' => End(n)' \in {0, last'[tcp'[n]]}
  BY <1>1 DEF Quiet, OrderAt, End
<1> QED
  BY <1>2, <1>3, <1>4 DEF OrderAt

LEMMA LinkStepsQuiet ==
  ASSUME LinkTypes, DownTypes, LinkInv, NotOwnParent, ~carriedOver',
         \/ \E n \in Nodes : LinkStep(n)
         \/ UNCHANGED <<linkVars, apVars, openVars, downVars>>,
         NEW m \in Nodes
  PROVE  Quiet(m)
<1> USE DEF LinkTypes, DownTypes, LinkInv, Links, NotOwnParent, Quiet, Live,
        HasSession, Linked, linkVars, apVars, openVars, downVars, ShutdownAP,
        SetupAP, LeaveAssociation, FreshUplink
<1>1. ASSUME NEW n \in Nodes, NEW ap \in Nodes \union {Router}, Join(n, ap)
      PROVE  Quiet(m)
  BY <1>1 DEF Join
<1>2. ASSUME NEW n \in Nodes, StartScan(n)
      PROVE  Quiet(m)
  BY <1>2 DEF StartScan
<1>3. ASSUME NEW n \in Nodes, LoseStation(n)
      PROVE  Quiet(m)
  BY <1>3 DEF LoseStation
<1>4. ASSUME NEW n \in Nodes, MqttUp(n)
      PROVE  Quiet(m)
  BY <1>4 DEF MqttUp
<1>5. ASSUME NEW n \in Nodes, MqttDown(n)
      PROVE  Quiet(m)
  BY <1>5 DEF MqttDown
<1>6. ASSUME NEW n \in Nodes, TcpUp(n)
      PROVE  Quiet(m)
  BY <1>6 DEF TcpUp
<1>7. ASSUME NEW n \in Nodes, SockClosed(n)
      PROVE  Quiet(m)
  BY <1>7 DEF SockClosed
<1>8. ASSUME NEW n \in Nodes, SockTimeout(n)
      PROVE  Quiet(m)
  BY <1>8 DEF SockTimeout
<1>9. ASSUME NEW n \in Nodes, ChildGone(n)
      PROVE  Quiet(m)
  BY <1>9 DEF ChildGone
<1>10. ASSUME NEW n \in Nodes, Restart(n)
       PROVE  Quiet(m)
  BY <1>10 DEF Restart
<1>11. CASE UNCHANGED <<linkVars, apVars, openVars, downVars>>
  BY <1>11
<1> QED
  BY <1>1, <1>2, <1>3, <1>4, <1>5, <1>6, <1>7,
     <1>8, <1>9, <1>10, <1>11 DEF LinkStep

LEMMA BrokerSendsInOrder ==
  ASSUME LinkTypes, DownTypes, LinkInv, BrokerSends, sent' \in 1..MaxDown,
         NEW m \in Nodes, OrderAt(m)
  PROVE  OrderAt(m)'
<1> USE DownAssumption
<1>1. /\ sent' = sent + 1 /\ last' = last
      /\ toNode'[m] = IF HasSession(m) THEN Append(toNode[m], sent') ELSE toNode[m]
  BY DEF BrokerSends, downVars
<1>2. /\ Live(m)' = Live(m) /\ HasSession(m)' = HasSession(m)
      /\ Linked(m)' = Linked(m) /\ tcp' = tcp /\ Live(tcp[m])' = Live(tcp[m])
  BY DEF BrokerSends, linkVars, apVars, Live, HasSession, Linked
<1>3. CASE HasSession(m)
  <2>1. End(m) \in {0, sent' - 1} /\ Chain(last[m], toNode[m])
    BY <1>1, <1>3 DEF OrderAt, DownTypes
  <2>2. Chain(last[m], toNode'[m]) /\ EndOf(last[m], toNode'[m]) = sent'
    <3>1. toNode[m] \in Seq(1..MaxDown) /\ last[m] \in Nat
      BY DEF DownTypes
    <3>2. EndOf(last[m], toNode[m]) \in {0, sent' - 1}
      BY <2>1 DEF End
    <3>3. toNode'[m] = Append(toNode[m], sent')
      BY <1>1, <1>3
    <3> QED
      BY <2>1, <3>1, <3>2, <3>3, AppendToChain
  <2>3. ~Linked(m)
    BY <1>3 DEF LinkInv, Links, Linked, LinkTypes
  <2> QED
    BY <1>1, <1>2, <1>3, <2>2, <2>3 DEF OrderAt, End, Live
<1>4. CASE ~HasSession(m)
  BY <1>1, <1>2, <1>4 DEF OrderAt, End
<1> QED
  BY <1>3, <1>4

LEMMA ReceivedInOrder ==
  ASSUME LinkTypes, DownTypes, LinkInv, NotOwnParent, NEW n \in Nodes,
         ReceiveDown(n), ~overrun', \A k \in Nodes : OrderAt(k),
         NEW m \in Nodes
  PROVE  OrderAt(m)'
<1> USE DownAssumption
<1> DEFINE h == Head(toNode[n])
<1>1. /\ toNode[n] # <<>> /\ sent' = sent
      /\ toNode' = [c \in Nodes |-> IF c = n THEN Tail(toNode[n])
                                  ELSE IF c \in Ready(n) THEN Append(toNode[c], h)
                                  ELSE toNode[c]]
      /\ last' = [last EXCEPT ![n] = h]
  BY DEF ReceiveDown
<1>2. \A k : /\ Live(k)' = Live(k) /\ HasSession(k)' = HasSession(k)
             /\ Linked(k)' = Linked(k)
  BY DEF ReceiveDown, linkVars, apVars, Live, HasSession, Linked
<1>3. tcp' = tcp
  BY DEF ReceiveDown, linkVars
<1>4. /\ h \in 1..MaxDown
      /\ Chain(h, Tail(toNode[n])) /\ EndOf(h, Tail(toNode[n])) = End(n)
      /\ last[n] # 0 => h = last[n] + 1
  <2>1. toNode[n] \in Seq(1..MaxDown) /\ last[n] \in Nat /\ Chain(last[n], toNode[n])
    BY DEF DownTypes, OrderAt
  <2> QED
    BY <1>1, <2>1, TailOfChain DEF End
<1>5. tcp[n] # n \/ ~Linked(n)
  BY DEF LinkInv, Links, NotOwnParent, Linked
<1>6. CASE m = n
  <2>1. toNode'[m] = Tail(toNode[n]) /\ last'[m] = h
    BY <1>1, <1>6 DEF DownTypes
  <2>2. Chain(last'[m], toNode'[m]) /\ End(m)' = End(n) /\ Live(m)
    BY <1>1, <1>4, <1>6, <2>1 DEF End, OrderAt
  <2>3. Linked(m) => last'[tcp[m]] = last[tcp[m]]
    BY <1>1, <1>5, <1>6 DEF DownTypes, Linked
  <2>4. HasSession(m) => End(m)' \in {0, sent'}
    BY <1>1, <1>6, <2>2 DEF OrderAt
  <2>5. Linked(m) /\ Live(tcp[m]) => End(m)' \in {0, last'[tcp'[m]]}
    BY <1>3, <1>6, <2>2, <2>3 DEF OrderAt
  <2>6. Live(tcp[m])' = Live(tcp[m])
    BY DEF ReceiveDown, linkVars, apVars, Live, HasSession
  <2> QED
    BY <1>2, <1>3, <2>2, <2>4, <2>5, <2>6 DEF OrderAt
<1>7. CASE m # n /\ tcp[m] = n /\ Linked(m)
  <2>1. m \in Ready(n)
    BY <1>7 DEF ReceiveDown, Slots, Linked, DownTypes
  <2>2. toNode'[m] = Append(toNode[m], h) /\ last'[m] = last[m]
    BY <1>1, <1>7, <2>1 DEF DownTypes
  <2>3. Live(n)
    BY <1>1 DEF OrderAt
  <2>4. Chain(last[m], toNode[m]) /\ End(m) \in {0, last[n]}
    BY <1>7, <2>3 DEF OrderAt
  <2>5. End(m) \in {0, h - 1}
    <3>1. last[n] \in Nat /\ h \in Nat /\ (last[n] # 0 => h = last[n] + 1)
      BY <1>4 DEF DownTypes
    <3> HIDE DEF h
    <3> QED
      BY <2>4, <3>1
  <2>6. Chain(last'[m], toNode'[m]) /\ End(m)' = h
    BY <1>4, <2>2, <2>4, <2>5, AppendToChain DEF End, DownTypes
  <2>7. Live(m) /\ ~HasSession(m)
    BY <1>7 DEF Live, Linked, LinkInv, Links
  <2>8. last'[tcp'[m]] = h
    BY <1>1, <1>3, <1>7 DEF DownTypes
  <2> QED
    BY <1>2, <2>6, <2>7, <2>8 DEF OrderAt
<1>8. CASE m # n /\ ~(tcp[m] = n /\ Linked(m))
  <2>1. m \notin Ready(n)
    BY <1>8 DEF Ready, Slots
  <2>2. toNode'[m] = toNode[m] /\ last'[m] = last[m]
    BY <1>1, <1>8, <2>1 DEF DownTypes
  <2>3. Linked(m) => last'[tcp[m]] = last[tcp[m]]
    BY <1>1, <1>8 DEF DownTypes
  <2>4. Live(tcp[m])' = Live(tcp[m]) /\ End(m)' = End(m)
    BY <2>2 DEF ReceiveDown, linkVars, apVars, Live, HasSession, End
  <2> QED
    BY <1>1, <1>2, <1>3, <2>2, <2>3, <2>4 DEF OrderAt
<1> QED
  BY <1>6, <1>7, <1>8

LEMMA OrderNext ==
  TypeOK /\ LinkInv /\ OrderInv /\ [Next]_vars => OrderInv'
<1> SUFFICES ASSUME TypeOK, LinkInv, OrderInv, [Next]_vars PROVE OrderInv'
  OBVIOUS
<1>1. LinkTypes /\ DownTypes /\ NotOwnParent
  BY LinkTyped, DownTyped DEF OrderInv
<1>2. \/ \E n \in Nodes : LinkStep(n)
      \/ UNCHANGED <<linkVars, apVars, openVars, downVars>>
      \/ BrokerSends
      \/ \E n \in Nodes : ReceiveDown(n)
  BY DEF Next, Proceeds, Fails, LinkStep, ForwardUp, vars
<1>3. (overrun => overrun') /\ (carriedOver => carriedOver')
  <2>1. ASSUME NEW n \in Nodes, LinkStep(n)
        PROVE  overrun' = overrun /\ (carriedOver => carriedOver')
    <3>1. overrun' = overrun
      BY <2>1 DEF LinkStep, Join, StartScan, LoseStation, MqttUp, MqttDown,
         TcpUp, SockClosed, SockTimeout, ChildGone, Restart, downVars
    <3>2. CASE MqttUp(n)
      BY <1>1, <3>2 DEF MqttUp, DownTypes
    <3>3. CASE TcpUp(n)
      BY <1>1, <3>3 DEF TcpUp, DownTypes
    <3>4. CASE \/ \E ap \in Nodes \union {Router} : Join(n, ap)
               \/ StartScan(n) \/ LoseStation(n) \/ MqttDown(n)
      BY <3>1, <3>4 DEF Join, StartScan, LoseStation, MqttDown, openVars
    <3>5. CASE SockClosed(n) \/ SockTimeout(n) \/ ChildGone(n) \/ Restart(n)
      BY <3>1, <3>5 DEF SockClosed, SockTimeout, ChildGone, Restart,
         openVars
    <3> QED
      BY <2>1, <3>1, <3>2, <3>3, <3>4, <3>5 DEF LinkStep
  <2>2. CASE UNCHANGED <<linkVars, apVars, openVars, downVars>>
    BY <2>2 DEF openVars, downVars
  <2>3. CASE BrokerSends
    BY <2>3 DEF BrokerSends, openVars
  <2>4. CASE \E n \in Nodes : ReceiveDown(n)
    <3>1. PICK n \in Nodes : ReceiveDown(n)
      BY <2>4
    <3>2. carriedOver' = carriedOver
      BY <3>1 DEF ReceiveDown, openVars
    <3>3. overrun => overrun'
      BY <1>1, <3>1 DEF ReceiveDown, DownTypes
    <3> QED
      BY <3>2, <3>3
  <2> QED
    BY <1>2, <2>1, <2>2, <2>3, <2>4
<1>4. NotOwnParent'
  <2>1. \/ sta' = sta
        \/ \E n \in Nodes : \E ap \in Nodes \union {Router, None} :
              sta' = [sta EXCEPT ![n] = ap] /\ ap # n
    BY <1>2 DEF LinkStep, Join, StartScan, LoseStation, MqttUp, MqttDown, TcpUp,
       SockClosed, SockTimeout, ChildGone, Restart, BrokerSends, ReceiveDown,
       linkVars, LeaveAssociation
  <2> QED
    BY <1>1, <2>1 DEF NotOwnParent, LinkTypes
<1>5. ASSUME ~overrun', ~carriedOver', NEW m \in Nodes PROVE OrderAt(m)'
  <2>1. \A k \in Nodes : OrderAt(k)
    BY <1>3, <1>5 DEF OrderInv
  <2>2. CASE \/ \E n \in Nodes : LinkStep(n)
             \/ UNCHANGED <<linkVars, apVars, openVars, downVars>>
    <3>1. Quiet(m)
      BY <1>1, <1>5, <2>2, LinkStepsQuiet
    <3>2. sent' = sent
      BY <2>2 DEF LinkStep, Join, StartScan, LoseStation, MqttUp, MqttDown,
         TcpUp, SockClosed, SockTimeout, ChildGone, Restart, downVars
    <3> QED
      BY <1>1, <2>1, <3>1, <3>2, QuietKeepsOrder
  <2>3. CASE BrokerSends
    <3>1. sent' \in 1..MaxDown
      BY <2>3, DownAssumption DEF BrokerSends, TypeOK
    <3> QED
      BY <1>1, <2>1, <2>3, <3>1, BrokerSendsInOrder
  <2>4. CASE \E n \in Nodes : ReceiveDown(n)
    BY <1>1, <1>5, <2>1, <2>4, ReceivedInOrder
  <2> QED
    BY <1>2, <2>2, <2>3, <2>4
<1> QED
  BY <1>4, <1>5 DEF OrderInv

LEMMA OrderInit == Init => OrderInv
  BY DEF Init, OrderInv, NotOwnParent, OrderAt, Chain, Consecutive, EndOf, End,
     Linked, HasSession, None

\* Messages arrive in sequence over one uplink, at any node of a mesh of any
\* size, whatever fails above it.
THEOREM InOrder == Spec => []InSequence
<1>1. OrderInv => InSequence
  BY DEF OrderInv, OrderAt, Chain, InSequence
<1> QED
  BY <1>1, OrderInit, OrderNext, LinksHold, Typed, PTL DEF Spec
=============================================================================
