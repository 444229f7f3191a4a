--------------------------- MODULE NodeLinkProofs ---------------------------
(***************************************************************************)
(* Proofs about NodeLink.tla, for every set of access points, every set of *)
(* candidate lists, every number of client slots and both builds.          *)
(***************************************************************************)
EXTENDS NodeLink, TLAPS

-----------------------------------------------------------------------------
(* The inductive invariant: the safety properties of NodeLink.tla, which   *)
(* lean on each other, and the facts below, which no one property states.  *)

\* connect() is pending only while the station is off the air: the Ticker
\* can be taken over by the check or by OTA only when nothing is pending.
ConnectOnlyWhenIdle == timer = "connect" => sta = "idle"

ScanHasNoCandidate == scanning => ap_ptr = 0

\* Everything before the current candidate was tried; so was the current
\* one when the station has it, or when it is about to be given up.
TriedPrefix ==
    /\ ap_ptr # 0 => 1..(ap_ptr - 1) \subseteq tried
    /\ sta # "idle" => ap_ptr \in tried
    /\ leaveEvent /\ ~alreaddyDisconnected => ap_ptr = 0 \/ ap_ptr \in tried

\* Before begin() nothing is on and nothing is pending.
OffIsReset ==
    ~running => /\ timer = "none" /\ sta = "idle" /\ ~leaveEvent
                /\ tcp = "closed" /\ mqtt = "off" /\ ~softAP
                /\ ap = <<>> /\ tried = {} /\ ap_ptr = 0 /\ ~scanning

\* Which timer is armed for which state of the station.
ControlInv ==
    /\ TimerMatchesFlag /\ RetryPending /\ ConnectOnlyWhenIdle
    /\ StationMatchesList /\ ScanHasNoCandidate /\ OffIsReset

\* Where the node stands in the candidate list.
ListInv == TriedPrefix /\ RescanOnlyAfterAllTried

\* What it believes of its own access point and of its uplink.
LinkInv == NoOrphanAP /\ NoPhantomLink

(* TypeOK in two halves, because no one backend is good at both: what is   *)
(* decided by truth values and set membership, and what needs arithmetic.  *)

SwitchesOK ==
    /\ connectScheduled \in BOOLEAN /\ alreaddyDisconnected \in BOOLEAN
    /\ scanning \in BOOLEAN /\ meshConnect \in BOOLEAN
    /\ wasConnected \in BOOLEAN /\ p2pConnected \in BOOLEAN
    /\ AP_ready \in BOOLEAN /\ running \in BOOLEAN
    /\ leaveEvent \in BOOLEAN /\ softAP \in BOOLEAN
    /\ tcpLive \in BOOLEAN /\ mqttLive \in BOOLEAN
    /\ clients \subseteq 1..NumClients

DataOK ==
    /\ retry_connect \in 0..1
    /\ ap \in Seq(BSSIDs) /\ ap_ptr \in 0..Len(ap) /\ tried \subseteq 1..Len(ap)
    /\ eraseLeft \in 0..MaxSectors
    /\ timer \in {"none", "connect", "check", "erase"}
    /\ scanJob \in {"none", "running", "done", "failed"}
    /\ sta \in {"idle", "joining", "up"}
    /\ staAp \in BSSIDs \union {None}
    /\ tcp \in {"closed", "connecting", "open"}
    /\ mqtt \in {"off", "connecting", "on"}

IInv == SwitchesOK /\ DataOK /\ ControlInv /\ ListInv /\ LinkInv

LEMMA TypeHalves == TypeOK <=> SwitchesOK /\ DataOK
  BY Zenon DEF TypeOK, SwitchesOK, DataOK

-----------------------------------------------------------------------------
LEMMA InitIInv == Init => IInv
<1> SUFFICES ASSUME Init PROVE IInv
  OBVIOUS
<1> USE DEF Init
<1>1. ap \in Seq(BSSIDs) /\ Len(ap) = 0 /\ 1..Len(ap) = {}
  OBVIOUS
<1>2. SwitchesOK
  BY Zenon DEF SwitchesOK
<1>3. DataOK
  BY <1>1, OtaAssumption DEF DataOK, None
<1>4. ControlInv
  BY DEF ControlInv, TimerMatchesFlag, RetryPending, ConnectOnlyWhenIdle,
         StationMatchesList, ScanHasNoCandidate, OffIsReset
<1>5. ListInv
  BY <1>1 DEF ListInv, TriedPrefix, RescanOnlyAfterAllTried
<1>6. LinkInv
  BY DEF LinkInv, NoOrphanAP, NoPhantomLink
<1> QED
  BY <1>2, <1>3, <1>4, <1>5, <1>6 DEF IInv

\* A reset establishes the invariant from any state.
LEMMA ResetIInv == Reset => IInv'
<1> SUFFICES ASSUME Reset PROVE IInv'
  OBVIOUS
<1> USE DEF Reset
<1>1. ap' \in Seq(BSSIDs) /\ Len(ap') = 0 /\ 1..Len(ap') = {}
  OBVIOUS
<1>2. SwitchesOK'
  BY Zenon DEF SwitchesOK
<1>3. DataOK'
  BY <1>1, OtaAssumption DEF DataOK, None
<1>4. ControlInv'
  BY DEF ControlInv, TimerMatchesFlag, RetryPending, ConnectOnlyWhenIdle,
         StationMatchesList, ScanHasNoCandidate, OffIsReset
<1>5. ListInv'
  BY <1>1 DEF ListInv, TriedPrefix, RescanOnlyAfterAllTried
<1>6. LinkInv'
  BY DEF LinkInv, NoOrphanAP, NoPhantomLink
<1> QED
  BY <1>2, <1>3, <1>4, <1>5, <1>6 DEF IInv

-----------------------------------------------------------------------------
(* One lemma per part of the invariant, one step per action.               *)

LEMMA StepSwitches == IInv /\ [Next]_vars => SwitchesOK'
<1> SUFFICES ASSUME IInv, [Next]_vars PROVE SwitchesOK'
  OBVIOUS
<1> USE DEF IInv, SwitchesOK,
           listVars, flagVars, timerVars, scanVars, staVars,
           apVars, linkVars, restVars
<1>1. CASE Begin
  BY <1>1, Zenon DEF Begin, StartScan
<1>2. CASE ScanDone
  BY <1>2, Zenon DEF ScanDone
<1>3. CASE ConnectFires
  <2> USE <1>3
  <2>1. CASE sta = "up"
    BY <2>1, Zenon DEF ConnectFires
  <2>2. CASE sta # "up" /\ scanning /\ PollScan
    BY <2>2, Zenon DEF ConnectFires, PollScan
  <2>3. CASE sta # "up" /\ ap_ptr = 0 /\ StartScan /\ LeaveStation
    BY <2>3, Zenon DEF ConnectFires, StartScan, LeaveStation, EndAssociation
  <2>4. CASE sta # "up" /\ ~scanning /\ ap_ptr # 0 /\ JoinCandidate
    <3>1. meshConnect' \in BOOLEAN
      BY <2>4 DEF JoinCandidate
    <3> QED
      BY <2>4, <3>1, Zenon DEF ConnectFires, JoinCandidate
  <2> QED
    BY <2>1, <2>2, <2>3, <2>4 DEF ConnectFires
<1>4. CASE CheckFires
  <2>1. CASE ~Reset
    BY <1>4, <2>1, Zenon DEF CheckFires
  <2>2. CASE Reset
    BY <2>2, ResetIInv DEF IInv
  <2> QED
    BY <1>4, <2>1, <2>2 DEF CheckFires
<1>5. CASE EraseFires
  BY <1>5, Zenon DEF EraseFires
<1>6. CASE GotIP
  <2>1. CASE meshConnect
    BY <1>6, <2>1, Zenon DEF GotIP
  <2>2. CASE ~meshConnect
    BY <1>6, <2>2, Zenon DEF GotIP, ConnectMqtt
  <2> QED
    BY <2>1, <2>2
<1>7. CASE LeaveEvent
  BY <1>7, Zenon DEF LeaveEvent, HandleDisconnect, ScheduleConnect, NextCandidate
<1>8. ASSUME NEW reason \in {"tooMany", "other"}, WifiDisconnected(reason)
       PROVE  SwitchesOK'
  BY <1>8, Zenon DEF WifiDisconnected, HandleDisconnect, ScheduleConnect,
          NextCandidate, EndAssociation
<1>9. CASE TcpConnected
  BY <1>9, Zenon DEF TcpConnected, SetupAP
<1>10. CASE TcpClosed
  BY <1>10, Zenon DEF TcpClosed, DropUplink, ShutdownAP, LeaveStation,
          EndAssociation
<1>11. CASE TcpTimeout
  BY <1>11, Zenon DEF TcpTimeout, DropUplink, ShutdownAP, LeaveStation,
          EndAssociation
<1>12. CASE MqttUp
  BY <1>12, Zenon DEF MqttUp, SetupAP
<1>13. CASE MqttDown
  BY <1>13, Zenon DEF MqttDown, ShutdownAP
<1>14. CASE ClientConnects
  BY <1>14, Zenon DEF ClientConnects, FreeSlots
<1>15. CASE ClientGone
  BY <1>15, Zenon DEF ClientGone
<1>16. CASE OtaStart
  BY <1>16, Zenon DEF OtaStart
<1>17. CASE Reboot
  BY <1>17, ResetIInv DEF Reboot
<1>18. CASE UNCHANGED vars
  BY <1>18, Zenon DEF vars
<1> QED
  BY <1>1, <1>2, <1>3, <1>4, <1>5, <1>6, <1>7, <1>8, <1>9, <1>10,
     <1>11, <1>12, <1>13, <1>14, <1>15, <1>16, <1>17, <1>18
  DEF Next, Station, Uplink, Tickers

LEMMA StepData == IInv /\ [Next]_vars => DataOK'
<1> SUFFICES ASSUME IInv, [Next]_vars PROVE DataOK'
  OBVIOUS
<1> USE OtaAssumption, ScanAssumption
    DEF IInv, DataOK, ControlInv, StationMatchesList, None,
           listVars, flagVars, timerVars, scanVars, staVars,
           apVars, linkVars, restVars
<1>1. CASE Begin
  BY <1>1 DEF Begin, StartScan
<1>2. CASE ScanDone
  BY <1>2 DEF ScanDone
<1>3. CASE ConnectFires
  <2> USE <1>3
  <2>1. CASE sta = "up"
    BY <2>1 DEF ConnectFires
  <2>2. CASE sta # "up" /\ scanning /\ PollScan
    <3>0. /\ UNCHANGED <<eraseLeft, scanJob, sta, staAp, tcp, mqtt>>
          /\ retry_connect' = 1 /\ timer' = "connect"
      BY <2>2 DEF ConnectFires, PollScan
    <3>1. CASE UNCHANGED listVars
      BY <3>0, <3>1
    <3>2. CASE ap' \in ScanResults /\ ap_ptr' = (IF ap' = <<>> THEN 0 ELSE 1)
               /\ tried' = {}
      <4>1. ap' \in Seq(BSSIDs) /\ Len(ap') \in Nat
        BY <3>2
      <4>2. ap' # <<>> => Len(ap') >= 1
        BY <4>1
      <4>3. ap_ptr' \in 0..Len(ap')
        BY <3>2, <4>1, <4>2
      <4> QED
        BY <3>0, <3>2, <4>1, <4>3
    <3> QED
      BY <2>2, <3>1, <3>2 DEF PollScan
  <2>3. CASE sta # "up" /\ ap_ptr = 0 /\ StartScan /\ LeaveStation
    BY <2>3 DEF ConnectFires, StartScan, LeaveStation, EndAssociation
  <2>4. CASE sta # "up" /\ ~scanning /\ ap_ptr # 0 /\ JoinCandidate
    BY <2>4 DEF ConnectFires, JoinCandidate
  <2> QED
    BY <2>1, <2>2, <2>3, <2>4 DEF ConnectFires
<1>4. CASE CheckFires
  <2>1. CASE ~Reset
    BY <1>4, <2>1 DEF CheckFires
  <2>2. CASE Reset
    BY <2>2, ResetIInv DEF IInv
  <2> QED
    BY <1>4, <2>1, <2>2 DEF CheckFires
<1>5. CASE EraseFires
  BY <1>5 DEF EraseFires
<1>6. CASE GotIP
  BY <1>6 DEF GotIP, ConnectMqtt
<1>7. CASE LeaveEvent
  BY <1>7 DEF LeaveEvent, HandleDisconnect, ScheduleConnect, NextCandidate
<1>8. ASSUME NEW reason \in {"tooMany", "other"}, WifiDisconnected(reason)
       PROVE  DataOK'
  BY <1>8 DEF WifiDisconnected, HandleDisconnect, ScheduleConnect,
          NextCandidate, EndAssociation
<1>9. CASE TcpConnected
  BY <1>9 DEF TcpConnected, SetupAP
<1>10. CASE TcpClosed
  BY <1>10 DEF TcpClosed, DropUplink, ShutdownAP, LeaveStation,
          EndAssociation
<1>11. CASE TcpTimeout
  BY <1>11 DEF TcpTimeout, DropUplink, ShutdownAP, LeaveStation,
          EndAssociation
<1>12. CASE MqttUp
  BY <1>12 DEF MqttUp, SetupAP
<1>13. CASE MqttDown
  BY <1>13 DEF MqttDown, ShutdownAP
<1>14. CASE ClientConnects
  BY <1>14 DEF ClientConnects, FreeSlots
<1>15. CASE ClientGone
  BY <1>15 DEF ClientGone
<1>16. CASE OtaStart
  BY <1>16 DEF OtaStart
<1>17. CASE Reboot
  BY <1>17, ResetIInv DEF Reboot
<1>18. CASE UNCHANGED vars
  BY <1>18 DEF vars
<1> QED
  BY <1>1, <1>2, <1>3, <1>4, <1>5, <1>6, <1>7, <1>8, <1>9, <1>10,
     <1>11, <1>12, <1>13, <1>14, <1>15, <1>16, <1>17, <1>18
  DEF Next, Station, Uplink, Tickers

LEMMA StepControl == IInv /\ [Next]_vars => ControlInv'
<1> SUFFICES ASSUME IInv, [Next]_vars PROVE ControlInv'
  OBVIOUS
<1> USE DEF IInv, SwitchesOK, DataOK, ControlInv, TimerMatchesFlag, RetryPending,
           ConnectOnlyWhenIdle, StationMatchesList, ScanHasNoCandidate,
           OffIsReset, listVars, flagVars, timerVars, scanVars, staVars,
           apVars, linkVars, restVars
<1>1. CASE Begin
  BY <1>1 DEF Begin, StartScan
<1>2. CASE ScanDone
  BY <1>2 DEF ScanDone
<1>3. CASE ConnectFires
  <2> USE <1>3
  <2>1. CASE sta = "up"
    BY <2>1 DEF ConnectFires
  <2>2. CASE sta # "up" /\ scanning /\ PollScan
    BY <2>2 DEF ConnectFires, PollScan
  <2>3. CASE sta # "up" /\ ap_ptr = 0 /\ StartScan /\ LeaveStation
    BY <2>3 DEF ConnectFires, StartScan, LeaveStation, EndAssociation
  <2>4. CASE sta # "up" /\ ~scanning /\ ap_ptr # 0 /\ JoinCandidate
    BY <2>4 DEF ConnectFires, JoinCandidate
  <2> QED
    BY <2>1, <2>2, <2>3, <2>4 DEF ConnectFires
<1>4. CASE CheckFires
  <2>1. CASE ~Reset
    BY <1>4, <2>1 DEF CheckFires
  <2>2. CASE Reset
    BY <2>2, ResetIInv DEF IInv
  <2> QED
    BY <1>4, <2>1, <2>2 DEF CheckFires
<1>5. CASE EraseFires
  BY <1>5 DEF EraseFires
<1>6. CASE GotIP
  BY <1>6 DEF GotIP, ConnectMqtt
<1>7. CASE LeaveEvent
  BY <1>7 DEF LeaveEvent, HandleDisconnect, ScheduleConnect, NextCandidate
<1>8. ASSUME NEW reason \in {"tooMany", "other"}, WifiDisconnected(reason)
       PROVE  ControlInv'
  BY <1>8 DEF WifiDisconnected, HandleDisconnect, ScheduleConnect,
          NextCandidate, EndAssociation
<1>9. CASE TcpConnected
  BY <1>9 DEF TcpConnected, SetupAP
<1>10. CASE TcpClosed
  BY <1>10 DEF TcpClosed, DropUplink, ShutdownAP, LeaveStation,
          EndAssociation
<1>11. CASE TcpTimeout
  BY <1>11 DEF TcpTimeout, DropUplink, ShutdownAP, LeaveStation,
          EndAssociation
<1>12. CASE MqttUp
  BY <1>12 DEF MqttUp, SetupAP
<1>13. CASE MqttDown
  BY <1>13 DEF MqttDown, ShutdownAP
<1>14. CASE ClientConnects
  BY <1>14 DEF ClientConnects, FreeSlots
<1>15. CASE ClientGone
  BY <1>15 DEF ClientGone
<1>16. CASE OtaStart
  BY <1>16 DEF OtaStart
<1>17. CASE Reboot
  BY <1>17, ResetIInv DEF Reboot
<1>18. CASE UNCHANGED vars
  BY <1>18 DEF vars
<1> QED
  BY <1>1, <1>2, <1>3, <1>4, <1>5, <1>6, <1>7, <1>8, <1>9, <1>10,
     <1>11, <1>12, <1>13, <1>14, <1>15, <1>16, <1>17, <1>18
  DEF Next, Station, Uplink, Tickers

\* onWifiDisconnect() leaves the candidate it may leave: what lies before
\* the next one was tried, and at the end of the list everything was.
LEMMA NextCandidateTried ==
  ASSUME DataOK, ListInv, running, ap_ptr = 0 \/ ap_ptr \in tried,
         NEW reason, NextCandidate(reason)
  PROVE  /\ ap_ptr' # 0 => 1..(ap_ptr' - 1) \subseteq tried
         /\ ap_ptr' = 0 => tried = 1..Len(ap)
<1> USE DEF DataOK, ListInv, TriedPrefix, RescanOnlyAfterAllTried
<1>1. Len(ap) \in Nat
  OBVIOUS
<1>2. CASE ap_ptr' = ap_ptr
  BY <1>2
<1>3. CASE ap_ptr # 0 /\ ap_ptr < Len(ap) /\ ap_ptr' = ap_ptr + 1
  <2>1. 1..ap_ptr \subseteq tried
    BY <1>1, <1>3
  <2> QED
    BY <1>1, <1>3, <2>1
<1>4. CASE ap_ptr = Len(ap) /\ ap_ptr # 0 /\ ap_ptr' = 0
  <2>1. 1..Len(ap) \subseteq tried
    BY <1>1, <1>4
  <2> QED
    BY <1>4, <2>1
<1> QED
  BY <1>1, <1>2, <1>3, <1>4 DEF NextCandidate

LEMMA StepList == IInv /\ [Next]_vars => ListInv'
<1> SUFFICES ASSUME IInv, [Next]_vars PROVE ListInv'
  OBVIOUS
<1> USE DEF IInv, DataOK, ListInv, TriedPrefix, RescanOnlyAfterAllTried,
           ControlInv, StationMatchesList, ScanHasNoCandidate, OffIsReset,
           listVars, flagVars, timerVars, scanVars, staVars,
           apVars, linkVars, restVars
<1>1. CASE Begin
  BY <1>1 DEF Begin, StartScan
<1>2. CASE ScanDone
  BY <1>2 DEF ScanDone
<1>3. CASE ConnectFires
  <2> USE <1>3
  <2>1. CASE sta = "up"
    BY <2>1 DEF ConnectFires
  <2>2. CASE sta # "up" /\ scanning /\ PollScan
    <3>1. CASE UNCHANGED listVars
      BY <2>2, <3>1 DEF ConnectFires, PollScan
    <3>2. CASE ap' = <<>> /\ ap_ptr' = 0 /\ tried' = {}
      <4>1. 1..Len(ap') = {}
        BY <3>2
      <4> QED
        BY <2>2, <3>2, <4>1 DEF ConnectFires, PollScan
    <3>3. CASE ap_ptr' = 1 /\ tried' = {}
      <4>1. 1..(ap_ptr' - 1) = {}
        BY <3>3
      <4> QED
        BY <2>2, <3>3, <4>1 DEF ConnectFires, PollScan
    <3> QED
      BY <2>2, <3>1, <3>2, <3>3 DEF PollScan
  <2>3. CASE sta # "up" /\ ap_ptr = 0 /\ StartScan /\ LeaveStation
    BY <2>3 DEF ConnectFires, StartScan, LeaveStation, EndAssociation
  <2>4. CASE sta # "up" /\ ~scanning /\ ap_ptr # 0 /\ JoinCandidate
    BY <2>4 DEF ConnectFires, JoinCandidate
  <2> QED
    BY <2>1, <2>2, <2>3, <2>4 DEF ConnectFires
<1>4. CASE CheckFires
  <2>1. CASE ~Reset
    BY <1>4, <2>1 DEF CheckFires
  <2>2. CASE Reset
    BY <2>2, ResetIInv DEF IInv
  <2> QED
    BY <1>4, <2>1, <2>2 DEF CheckFires
<1>5. CASE EraseFires
  BY <1>5 DEF EraseFires
<1>6. CASE GotIP
  BY <1>6 DEF GotIP, ConnectMqtt
<1>7. CASE LeaveEvent
  <2>1. running /\ (~alreaddyDisconnected => ap_ptr = 0 \/ ap_ptr \in tried)
    BY <1>7 DEF LeaveEvent
  <2>2. CASE alreaddyDisconnected
    BY <1>7, <2>2 DEF LeaveEvent, HandleDisconnect
  <2>3. CASE NextCandidate("leave")
    BY <1>7, <2>1, <2>3, NextCandidateTried
    DEF LeaveEvent, HandleDisconnect
  <2> QED
    BY <1>7, <2>2, <2>3 DEF LeaveEvent, HandleDisconnect
<1>8. ASSUME NEW reason \in {"tooMany", "other"}, WifiDisconnected(reason)
       PROVE  ListInv'
  <2>1. running /\ ap_ptr \in tried /\ ~alreaddyDisconnected
    BY <1>8 DEF WifiDisconnected
  <2>2. NextCandidate(reason)
    BY <1>8, <2>1 DEF WifiDisconnected, HandleDisconnect
  <2> QED
    BY <1>8, <2>1, <2>2, NextCandidateTried
    DEF WifiDisconnected, EndAssociation, HandleDisconnect
<1>9. CASE TcpConnected
  BY <1>9 DEF TcpConnected, SetupAP
<1>10. CASE TcpClosed
  BY <1>10 DEF TcpClosed, DropUplink, ShutdownAP, LeaveStation,
          EndAssociation
<1>11. CASE TcpTimeout
  BY <1>11 DEF TcpTimeout, DropUplink, ShutdownAP, LeaveStation,
          EndAssociation
<1>12. CASE MqttUp
  BY <1>12 DEF MqttUp, SetupAP
<1>13. CASE MqttDown
  BY <1>13 DEF MqttDown, ShutdownAP
<1>14. CASE ClientConnects
  BY <1>14 DEF ClientConnects, FreeSlots
<1>15. CASE ClientGone
  BY <1>15 DEF ClientGone
<1>16. CASE OtaStart
  BY <1>16 DEF OtaStart
<1>17. CASE Reboot
  BY <1>17, ResetIInv DEF Reboot
<1>18. CASE UNCHANGED vars
  BY <1>18 DEF vars
<1> QED
  BY <1>1, <1>2, <1>3, <1>4, <1>5, <1>6, <1>7, <1>8, <1>9, <1>10,
     <1>11, <1>12, <1>13, <1>14, <1>15, <1>16, <1>17, <1>18
  DEF Next, Station, Uplink, Tickers

LEMMA StepLink == IInv /\ [Next]_vars => LinkInv'
<1> SUFFICES ASSUME IInv, [Next]_vars PROVE LinkInv'
  OBVIOUS
<1> USE DEF IInv, LinkInv, NoOrphanAP, NoPhantomLink,
           listVars, flagVars, timerVars, scanVars, staVars,
           apVars, linkVars, restVars
<1>1. CASE Begin
  BY <1>1 DEF Begin, StartScan
<1>2. CASE ScanDone
  BY <1>2 DEF ScanDone
<1>3. CASE ConnectFires
  <2> USE <1>3
  <2>1. CASE sta = "up"
    BY <2>1 DEF ConnectFires
  <2>2. CASE sta # "up" /\ scanning /\ PollScan
    BY <2>2 DEF ConnectFires, PollScan
  <2>3. CASE sta # "up" /\ ap_ptr = 0 /\ StartScan /\ LeaveStation
    BY <2>3 DEF ConnectFires, StartScan, LeaveStation, EndAssociation
  <2>4. CASE sta # "up" /\ ~scanning /\ ap_ptr # 0 /\ JoinCandidate
    BY <2>4 DEF ConnectFires, JoinCandidate
  <2> QED
    BY <2>1, <2>2, <2>3, <2>4 DEF ConnectFires
<1>4. CASE CheckFires
  <2>1. CASE ~Reset
    BY <1>4, <2>1 DEF CheckFires
  <2>2. CASE Reset
    BY <2>2, ResetIInv DEF IInv
  <2> QED
    BY <1>4, <2>1, <2>2 DEF CheckFires
<1>5. CASE EraseFires
  BY <1>5 DEF EraseFires
<1>6. CASE GotIP
  BY <1>6 DEF GotIP, ConnectMqtt
<1>7. CASE LeaveEvent
  BY <1>7 DEF LeaveEvent, HandleDisconnect, ScheduleConnect, NextCandidate
<1>8. ASSUME NEW reason \in {"tooMany", "other"}, WifiDisconnected(reason)
       PROVE  LinkInv'
  BY <1>8 DEF WifiDisconnected, HandleDisconnect, ScheduleConnect,
          NextCandidate, EndAssociation
<1>9. CASE TcpConnected
  BY <1>9 DEF TcpConnected, SetupAP
<1>10. CASE TcpClosed
  BY <1>10 DEF TcpClosed, DropUplink, ShutdownAP, LeaveStation,
          EndAssociation
<1>11. CASE TcpTimeout
  BY <1>11 DEF TcpTimeout, DropUplink, ShutdownAP, LeaveStation,
          EndAssociation
<1>12. CASE MqttUp
  BY <1>12 DEF MqttUp, SetupAP
<1>13. CASE MqttDown
  BY <1>13 DEF MqttDown, ShutdownAP
<1>14. CASE ClientConnects
  BY <1>14 DEF ClientConnects, FreeSlots
<1>15. CASE ClientGone
  BY <1>15 DEF ClientGone
<1>16. CASE OtaStart
  BY <1>16 DEF OtaStart
<1>17. CASE Reboot
  BY <1>17, ResetIInv DEF Reboot
<1>18. CASE UNCHANGED vars
  BY <1>18 DEF vars
<1> QED
  BY <1>1, <1>2, <1>3, <1>4, <1>5, <1>6, <1>7, <1>8, <1>9, <1>10,
     <1>11, <1>12, <1>13, <1>14, <1>15, <1>16, <1>17, <1>18
  DEF Next, Station, Uplink, Tickers

LEMMA StepIInv == IInv /\ [Next]_vars => IInv'
  BY StepSwitches, StepData, StepControl, StepList, StepLink DEF IInv

-----------------------------------------------------------------------------
\* Type correctness, for every value of the constants.
THEOREM TypeCorrect == Spec => []TypeOK
<1>1. IInv => TypeOK
  BY TypeHalves DEF IInv
<1> QED
  BY <1>1, InitIInv, StepIInv, PTL DEF Spec

\* The Ticker's owner and connectScheduled never disagree, so that a node
\* off the air always has a connect() coming.
THEOREM AlwaysRetrying == Spec => [](TimerMatchesFlag /\ RetryPending)
<1>1. IInv => TimerMatchesFlag /\ RetryPending
  BY DEF IInv, ControlInv
<1> QED
  BY <1>1, InitIInv, StepIInv, PTL DEF Spec

\* ap_ptr and meshConnect describe the access point the station has.
THEOREM StationMatches == Spec => []StationMatchesList
<1>1. IInv => StationMatchesList
  BY DEF IInv, ControlInv
<1> QED
  BY <1>1, InitIInv, StepIInv, PTL DEF Spec

\* No candidate is skipped, however long the list and whatever it holds.
THEOREM AllTried == Spec => []RescanOnlyAfterAllTried
<1>1. IInv => RescanOnlyAfterAllTried
  BY DEF IInv, ListInv
<1> QED
  BY <1>1, InitIInv, StepIInv, PTL DEF Spec

\* No child, slot or uplink outlives what it hangs on.
THEOREM NothingOrphaned == Spec => [](NoOrphanAP /\ NoPhantomLink)
<1>1. IInv => NoOrphanAP /\ NoPhantomLink
  BY DEF IInv, LinkInv
<1> QED
  BY <1>1, InitIInv, StepIInv, PTL DEF Spec

-----------------------------------------------------------------------------
(* NodeLink implements ApWalk.                                             *)

LEMMA InitWalk == Init => Walk!Init
  BY DEF Init, Walk!Init, phase

LEMMA StepWalk == IInv /\ [Next]_vars => [Walk!Next]_(Walk!walkVars)
<1> SUFFICES ASSUME IInv, [Next]_vars
             PROVE  Walk!Next \/ UNCHANGED <<phase, ap, ap_ptr>>
  BY DEF Walk!walkVars
<1> USE DEF IInv, DataOK, ControlInv, StationMatchesList, ScanHasNoCandidate,
           RetryPending, TimerMatchesFlag, OffIsReset, phase,
           listVars, flagVars, timerVars, scanVars, staVars, apVars, linkVars,
           restVars
<1>0. ASSUME Reset PROVE Walk!PowerOff
  BY <1>0 DEF Reset, Walk!PowerOff
<1>1. CASE Begin
  BY <1>1 DEF Begin, StartScan, Walk!Next, Walk!PowerOn
<1>2. CASE ScanDone
  BY <1>2 DEF ScanDone
<1>3. CASE ConnectFires
  <2> USE <1>3
  <2>1. CASE sta = "up"
    BY <2>1 DEF ConnectFires
  <2>2. CASE sta # "up" /\ scanning /\ PollScan
    <3>1. CASE UNCHANGED listVars
      BY <2>2, <3>1 DEF ConnectFires, PollScan
    <3>2. CASE ap' \in ScanResults /\ ap_ptr' = (IF ap' = <<>> THEN 0 ELSE 1)
      <4>1. running /\ running' /\ sta = "idle" /\ sta' = "idle" /\ ap_ptr = 0
            /\ ~leaveEvent'
        BY <2>2 DEF ConnectFires, PollScan
      <4>2. Walk!Found
        BY <3>2, <4>1 DEF Walk!Found
      <4> QED
        BY <4>2 DEF Walk!Next
    <3> QED
      BY <2>2, <3>1, <3>2 DEF PollScan
  <2>3. CASE sta # "up" /\ ap_ptr = 0 /\ StartScan /\ LeaveStation
    BY <2>3 DEF ConnectFires, StartScan, LeaveStation, EndAssociation
  <2>4. CASE sta # "up" /\ ~scanning /\ ap_ptr # 0 /\ JoinCandidate
    BY <2>4 DEF ConnectFires, JoinCandidate, Walk!Next, Walk!Try
  <2> QED
    BY <2>1, <2>2, <2>3, <2>4 DEF ConnectFires
<1>4. CASE CheckFires
  BY <1>0, <1>4 DEF CheckFires, Walk!Next
<1>5. CASE EraseFires
  BY <1>5 DEF EraseFires
<1>6. CASE GotIP
  BY <1>6 DEF GotIP, ConnectMqtt, Walk!Next, Walk!Joined
<1>7. CASE LeaveEvent
  BY <1>7 DEF LeaveEvent, HandleDisconnect, ScheduleConnect, NextCandidate,
              Walk!Next, Walk!GiveUp
<1>8. ASSUME NEW reason \in {"tooMany", "other"}, WifiDisconnected(reason)
      PROVE  Walk!Next \/ UNCHANGED <<phase, ap, ap_ptr>>
  BY <1>8 DEF WifiDisconnected, HandleDisconnect, ScheduleConnect,
              NextCandidate, EndAssociation, Walk!Next, Walk!GiveUp,
              Walk!Refused
<1>9. CASE TcpConnected
  BY <1>9 DEF TcpConnected, SetupAP
<1>10. CASE TcpClosed
  BY <1>10 DEF TcpClosed, DropUplink, LeaveStation, EndAssociation, Walk!Next,
               Walk!Leave
<1>11. CASE TcpTimeout
  BY <1>11 DEF TcpTimeout, DropUplink, LeaveStation, EndAssociation, Walk!Next,
               Walk!Leave
<1>12. CASE MqttUp
  BY <1>12 DEF MqttUp, SetupAP
<1>13. CASE MqttDown
  BY <1>13 DEF MqttDown, ShutdownAP
<1>14. CASE ClientConnects
  BY <1>14 DEF ClientConnects
<1>15. CASE ClientGone
  BY <1>15 DEF ClientGone
<1>16. CASE OtaStart
  BY <1>16 DEF OtaStart
<1>17. CASE Reboot
  BY <1>0, <1>17 DEF Reboot, Walk!Next
<1>18. CASE UNCHANGED vars
  BY <1>18 DEF vars
<1> QED
  BY <1>1, <1>2, <1>3, <1>4, <1>5, <1>6, <1>7, <1>8, <1>9, <1>10,
     <1>11, <1>12, <1>13, <1>14, <1>15, <1>16, <1>17, <1>18
  DEF Next, Station, Uplink, Tickers

\* Whatever the handlers' interleaving, what a node does to its list of
\* access points is a walk of ApWalk.
THEOREM ImplementsWalk == Spec => WalkSpec
  BY InitIInv, StepIInv, InitWalk, StepWalk, PTL DEF Spec, WalkSpec, Walk!Spec
=============================================================================
