------------------------------ MODULE NodeLink ------------------------------
(***************************************************************************)
(* One node's connection manager: how ESP8266MQTTMesh.cpp finds an access  *)
(* point, joins it, opens its uplink (the MQTT session on a router, the    *)
(* TCP link on a mesh parent), offers its own access point to children and *)
(* starts over when any of these is lost.                                  *)
(*                                                                         *)
(* Every action is one callback run to completion: a Ticker callback, a    *)
(* WiFi event handler, an AsyncClient or AsyncMqttClient handler.  The     *)
(* libraries are external: the station, the soft AP, the one-shot Ticker,  *)
(* the uplink socket and the MQTT session are variables of their own.      *)
(***************************************************************************)
EXTENDS Integers, Sequences, FiniteSets

CONSTANTS
    Routers,      \* BSSIDs that match the configured networks
    MeshNodes,    \* hidden BSSIDs that verify_bssid accepts
    ScanResults,  \* the candidate lists a scan may build, best first
    NumClients,   \* ESP8266_NUM_CLIENTS
    HasOTA,       \* HAS_OTA: TRUE on the ESP8266, FALSE on the ESP32
    MaxSectors,   \* bound: flash sectors an OTA image may need
    ScanMayFail   \* whether the driver may refuse to start a scan

BSSIDs == Routers \union MeshNodes

ASSUME BssidAssumption == Routers \intersect MeshNodes = {}
ASSUME ScanAssumption == ScanResults \subseteq Seq(BSSIDs)
ASSUME ClientAssumption == NumClients \in Nat \ {0}
ASSUME OtaAssumption == HasOTA \in BOOLEAN /\ MaxSectors \in Nat
ASSUME FailAssumption == ScanMayFail \in BOOLEAN

VARIABLES
    \* Members of the class ESP8266MQTTMesh.
    connectScheduled,      \* a call of connect() is believed pending
    alreaddyDisconnected,  \* this disconnect was handled already
    retry_connect,         \* immediate retries left after ASSOC_TOOMANY
    ap,                    \* candidate list, ap[1] is its head
    ap_ptr,                \* position of the current candidate, 0 is NULL
    scanning,
    meshConnect,           \* the current candidate is a mesh node
    wasConnected,          \* an uplink was up since boot
    p2pConnected,          \* the link to the mesh parent is believed good
    AP_ready,              \* our own access point is believed up
    clients,               \* indices i >= 1 whose espClient[i] is in use
    eraseLeft,             \* sectors erase_sector() still has to erase
    \* State of the libraries.
    running,               \* between begin() and the next reset
    timer,                 \* what the one-shot Ticker `schedule` will call
    scanJob,               \* the driver's scan
    sta,                   \* the WiFi station
    staAp,                 \* BSSID the station joins or has joined
    leaveEvent,            \* a DISCONNECTED event caused by our own
                           \* WiFi.disconnect() is still to be delivered
    softAP,                \* the radio's access point is on
    tcp,                   \* espClient[0]
    tcpLive,               \* it was opened in the present association
    mqtt,                  \* the AsyncMqttClient session
    mqttLive,              \* it was opened in the present association
    \* History.
    tried                  \* positions of ap that WiFi.begin() was given

listVars  == <<ap, ap_ptr, tried>>
flagVars  == <<alreaddyDisconnected, retry_connect, meshConnect>>
timerVars == <<connectScheduled, timer>>
scanVars  == <<scanning, scanJob>>
staVars   == <<sta, staAp, leaveEvent, tcpLive, mqttLive>>
apVars    == <<AP_ready, softAP, clients>>
linkVars  == <<p2pConnected, tcp>>
restVars  == <<wasConnected, mqtt, eraseLeft, running>>
vars == <<listVars, flagVars, timerVars, scanVars, staVars, apVars,
          linkVars, restVars>>

None == "none"

TypeOK ==
    /\ connectScheduled \in BOOLEAN /\ alreaddyDisconnected \in BOOLEAN
    /\ retry_connect \in 0..1
    /\ ap \in Seq(BSSIDs) /\ ap_ptr \in 0..Len(ap)
    /\ tried \subseteq 1..Len(ap)
    /\ scanning \in BOOLEAN /\ meshConnect \in BOOLEAN
    /\ wasConnected \in BOOLEAN /\ p2pConnected \in BOOLEAN
    /\ AP_ready \in BOOLEAN /\ clients \subseteq 1..NumClients
    /\ eraseLeft \in 0..MaxSectors
    /\ running \in BOOLEAN
    /\ timer \in {"none", "connect", "check", "erase"}
    /\ scanJob \in {"none", "running", "done", "failed"}
    /\ sta \in {"idle", "joining", "up"}
    /\ staAp \in BSSIDs \union {None}
    /\ leaveEvent \in BOOLEAN /\ softAP \in BOOLEAN
    /\ tcp \in {"closed", "connecting", "open"}
    /\ tcpLive \in BOOLEAN /\ mqttLive \in BOOLEAN
    /\ mqtt \in {"off", "connecting", "on"}

-----------------------------------------------------------------------------
(* Calls shared by the handlers.                                           *)

\* Mutant: schedule_connect() does not remember that it armed the Ticker.
ScheduleConnectNoFlag ==
    /\ timer' = IF connectScheduled THEN timer ELSE "connect"
    /\ UNCHANGED connectScheduled

\* Mutant: schedule_connect() trusts Ticker::active() in place of its flag.
ScheduleConnectIfActive ==
    /\ connectScheduled' = TRUE
    /\ timer' = IF timer # "none" THEN timer ELSE "connect"

\* schedule_connect(): a second request while one is pending is dropped;
\* Ticker::once() replaces whatever else the Ticker had pending.
ScheduleConnect ==
    /\ connectScheduled' = TRUE
    /\ timer' = IF connectScheduled THEN timer ELSE "connect"

\* The association ends, and with it the address: what was opened over it
\* can only fail, though its callback may come much later.
EndAssociation ==
    /\ sta' = "idle" /\ staAp' = None
    /\ tcpLive' = FALSE /\ mqttLive' = FALSE

\* WiFi.disconnect() called outside a WiFi event handler: the driver raises
\* a DISCONNECTED event only when there was something to leave.
LeaveStation ==
    /\ EndAssociation
    /\ leaveEvent' = (leaveEvent \/ sta # "idle")

\* Mutant: shutdown_AP() forgets the children.
ShutdownKeepsClients ==
    /\ AP_ready' = FALSE
    /\ softAP' = (softAP /\ ~AP_ready)
    /\ UNCHANGED clients

\* shutdown_AP(), with its early return.
ShutdownAP ==
    /\ AP_ready' = FALSE
    /\ softAP' = (softAP /\ ~AP_ready)
    /\ clients' = IF AP_ready THEN {} ELSE clients

\* setup_AP(), with its early return.
SetupAP ==
    /\ AP_ready' = TRUE
    /\ softAP' = (softAP \/ ~AP_ready)
    /\ UNCHANGED clients

\* connected(): what checkConnectionEstablished() and the sketch ask.
Connected ==
    /\ sta = "up"
    /\ \/ meshConnect /\ tcp = "open" /\ p2pConnected
       \/ mqtt = "on"

\* mqttClient.connect() does nothing unless the client is disconnected.
ConnectMqtt ==
    IF mqtt = "off" THEN mqtt' = "connecting" /\ mqttLive' = TRUE
                    ELSE UNCHANGED <<mqtt, mqttLive>>

-----------------------------------------------------------------------------
(* connect() and scan().                                                   *)

\* Mutant: connect() starts a scan and does not schedule the poll.
StartScanNoPoll ==
    /\ ap_ptr' = 0
    /\ softAP' = FALSE
    /\ scanning' = TRUE
    /\ scanJob' = "running"
    /\ connectScheduled' = FALSE /\ timer' = "none"
    /\ UNCHANGED <<ap, tried, AP_ready, clients, alreaddyDisconnected,
                   meshConnect>>

\* connect() with nothing to try: scan() starts a scan.  Its
\* WiFi.mode(WIFI_STA) takes the soft AP down without AP_ready or
\* espClient[] hearing of it.
StartScan ==
    /\ ap_ptr' = 0
    /\ softAP' = FALSE
    /\ scanning' = TRUE
    /\ scanJob' \in {"running"} \union (IF ScanMayFail THEN {"failed"} ELSE {})
    /\ connectScheduled' = TRUE /\ timer' = "connect"
    /\ UNCHANGED <<ap, tried, AP_ready, clients, alreaddyDisconnected,
                   meshConnect>>

\* connect() during a scan.  scan() does nothing before scanComplete() >= 0;
\* then it rebuilds the list and the walk starts at its head.
PollScan ==
    /\ \/ /\ scanJob # "done"
          /\ UNCHANGED <<listVars, scanVars>>
       \/ /\ scanJob = "done"
          /\ scanning' = FALSE
          /\ ap' \in ScanResults
          /\ ap_ptr' = IF ap' = <<>> THEN 0 ELSE 1
          /\ tried' = {}
          /\ UNCHANGED scanJob
    /\ connectScheduled' = TRUE /\ timer' = "connect"
    /\ UNCHANGED <<alreaddyDisconnected, meshConnect, staVars, apVars>>

\* Mutant: connect() does not reset alreaddyDisconnected.
JoinStillDisconnected ==
    /\ sta' = "joining"
    /\ staAp' = ap[ap_ptr]
    /\ meshConnect' = (ap[ap_ptr] \in MeshNodes)
    /\ tried' = tried \union {ap_ptr}
    /\ connectScheduled' = FALSE /\ timer' = "none"
    /\ UNCHANGED <<ap, ap_ptr, alreaddyDisconnected, scanVars, leaveEvent,
                   tcpLive, mqttLive, apVars>>

\* The rest of connect(): WiFi.begin() with the current candidate.
JoinCandidate ==
    /\ sta' = "joining"
    /\ staAp' = ap[ap_ptr]
    /\ meshConnect' = (ap[ap_ptr] \in MeshNodes)
    /\ alreaddyDisconnected' = FALSE
    /\ tried' = tried \union {ap_ptr}
    /\ connectScheduled' = FALSE /\ timer' = "none"
    /\ UNCHANGED <<ap, ap_ptr, scanVars, leaveEvent, tcpLive, mqttLive, apVars>>

\* connect() run by the Ticker.  Its shortest delay is half a second, so a
\* DISCONNECTED event of our own making has been delivered by then.
ConnectFires ==
    /\ timer = "connect" /\ ~leaveEvent
    /\ IF sta = "up"
       THEN /\ connectScheduled' = FALSE /\ timer' = "none"
            /\ UNCHANGED <<listVars, flagVars, scanVars, staVars, apVars>>
       ELSE /\ retry_connect' = 1
            /\ \/ scanning /\ PollScan
               \/ ~scanning /\ ap_ptr = 0 /\ StartScan /\ LeaveStation
               \/ ~scanning /\ ap_ptr # 0 /\ JoinCandidate
    /\ UNCHANGED <<linkVars, restVars>>

\* begin(): WiFi.disconnect() (the SDK may be re-joining by itself), then
\* connect(), which finds no candidate and starts the first scan.
Begin ==
    /\ ~running
    /\ running' = TRUE
    /\ leaveEvent' \in BOOLEAN
    /\ retry_connect' = 1
    /\ StartScan
    /\ UNCHANGED <<sta, staAp, tcpLive, mqttLive, linkVars, wasConnected, mqtt,
                   eraseLeft>>

\* The driver ends a scan it is running.
ScanDone ==
    /\ running
    /\ scanJob = "running"
    /\ scanJob' = "done"
    /\ UNCHANGED <<listVars, flagVars, timerVars, scanning, staVars, apVars,
                   linkVars, restVars>>

-----------------------------------------------------------------------------
(* WiFi events.                                                            *)

\* Mutant: onWifiConnect() does not arm the check of the mesh link.
GotIPNoCheck ==
    /\ sta = "joining"
    /\ sta' = "up"
    /\ \/ /\ meshConnect
          /\ \/ tcp = "closed" /\ tcp' = "connecting" /\ tcpLive' = TRUE
             \/ UNCHANGED <<tcp, tcpLive>>
          /\ UNCHANGED <<mqtt, mqttLive>>
       \/ ~meshConnect /\ ConnectMqtt /\ UNCHANGED <<tcp, tcpLive>>
    /\ UNCHANGED <<listVars, flagVars, timerVars, scanVars, staAp, leaveEvent,
                   apVars, p2pConnected, wasConnected, eraseLeft, running>>

\* onWifiConnect(): GOT_IP.  On a mesh parent it opens the uplink socket
\* (a no-op while an older one lives, and the call itself may fail) and
\* arms the check; on a router it starts MQTT.
GotIP ==
    /\ sta = "joining"
    /\ sta' = "up"
    /\ \/ /\ meshConnect
          /\ timer' = "check"
          /\ \/ tcp = "closed" /\ tcp' = "connecting" /\ tcpLive' = TRUE
             \/ UNCHANGED <<tcp, tcpLive>>
          /\ UNCHANGED <<mqtt, mqttLive>>
       \/ /\ ~meshConnect
          /\ ConnectMqtt
          /\ UNCHANGED <<timer, tcp, tcpLive>>
    /\ UNCHANGED <<listVars, flagVars, connectScheduled, scanVars, staAp,
                   leaveEvent, apVars, p2pConnected, wasConnected, eraseLeft,
                   running>>

\* Mutant: after the last candidate comes the first, and no scan.
NextCandidateWraps(reason) ==
    IF reason = "tooMany" /\ retry_connect > 0
    THEN retry_connect' = retry_connect - 1 /\ UNCHANGED ap_ptr
    ELSE /\ ap_ptr' = IF ap_ptr = Len(ap) THEN (IF ap = <<>> THEN 0 ELSE 1)
                      ELSE ap_ptr + 1
         /\ UNCHANGED retry_connect

\* The end of onWifiDisconnect(): move to the next candidate, or stay when
\* the access point was full and a retry is left.
NextCandidate(reason) ==
    IF reason = "tooMany" /\ retry_connect > 0
    THEN /\ retry_connect' = retry_connect - 1
         /\ UNCHANGED ap_ptr
    ELSE /\ ap_ptr' = IF ap_ptr # 0 /\ ap_ptr < Len(ap) THEN ap_ptr + 1 ELSE 0
         /\ UNCHANGED retry_connect

\* Mutant: onWifiDisconnect() without alreaddyDisconnected.
HandleDisconnectAgain(reason) ==
    /\ ScheduleConnect
    /\ leaveEvent' \in BOOLEAN
    /\ alreaddyDisconnected' = TRUE
    /\ NextCandidate(reason)

\* onWifiDisconnect().  Its own WiFi.disconnect() may make the driver raise
\* one event more, which alreaddyDisconnected is there to ignore.
HandleDisconnect(reason) ==
    /\ ScheduleConnect
    /\ IF alreaddyDisconnected
       THEN /\ leaveEvent' = FALSE
            /\ UNCHANGED <<ap_ptr, retry_connect, alreaddyDisconnected>>
       ELSE /\ leaveEvent' \in BOOLEAN
            /\ alreaddyDisconnected' = TRUE
            /\ NextCandidate(reason)

\* The station loses, or never gets, its access point.  A full access
\* point refuses the association.
WifiDisconnected(reason) ==
    /\ sta # "idle"
    /\ reason = "tooMany" => sta = "joining"
    /\ EndAssociation
    /\ HandleDisconnect(reason)
    /\ UNCHANGED <<ap, tried, meshConnect, scanVars, apVars, linkVars,
                   restVars>>

\* The event our own WiFi.disconnect() caused is delivered.
LeaveEvent ==
    /\ leaveEvent
    /\ HandleDisconnect("leave")
    /\ UNCHANGED <<ap, tried, meshConnect, scanVars, sta, staAp, tcpLive,
                   mqttLive, apVars, linkVars, restVars>>

-----------------------------------------------------------------------------
(* The uplink socket, espClient[0].                                        *)

\* onConnect().
TcpConnected ==
    /\ tcp = "connecting" /\ tcpLive
    /\ tcp' = "open"
    /\ p2pConnected' = TRUE
    /\ SetupAP
    /\ wasConnected' = TRUE
    /\ UNCHANGED <<listVars, flagVars, timerVars, scanVars, staVars, mqtt,
                   eraseLeft, running>>

\* Mutant: onDisconnect() and onTimeout() leave p2pConnected as it is.
DropUplinkKeepsFlag == ShutdownAP /\ LeaveStation /\ UNCHANGED p2pConnected

\* What onDisconnect() and onTimeout() do for espClient[0].
DropUplink ==
    /\ ShutdownAP
    /\ p2pConnected' = FALSE
    /\ LeaveStation

\* onDisconnect(espClient[0]).  It may come long after the link was lost.
TcpClosed ==
    /\ tcp # "closed"
    /\ tcp' = "closed"
    /\ DropUplink
    /\ UNCHANGED <<listVars, flagVars, timerVars, scanVars, restVars>>

\* onTimeout(espClient[0]): an acknowledgement is late.  The socket stays.
TcpTimeout ==
    /\ tcp = "open"
    /\ DropUplink
    /\ UNCHANGED <<listVars, flagVars, timerVars, scanVars, tcp, restVars>>

-----------------------------------------------------------------------------
(* The MQTT session.                                                       *)

\* onMqttConnect(): only a router leads to the broker.
MqttUp ==
    /\ mqtt = "connecting" /\ mqttLive /\ staAp \in Routers
    /\ mqtt' = "on"
    /\ SetupAP
    /\ wasConnected' = TRUE
    /\ UNCHANGED <<listVars, flagVars, timerVars, scanVars, staVars, linkVars,
                   eraseLeft, running>>

\* Mutant: onMqttDisconnect() does not shut the access point down.
MqttDownKeepsAP ==
    /\ mqtt # "off"
    /\ p2pConnected' = FALSE
    /\ mqtt' = IF sta = "up" THEN "connecting" ELSE "off"
    /\ mqttLive' = (sta = "up")
    /\ UNCHANGED <<listVars, flagVars, timerVars, scanVars, sta, staAp, apVars,
                   leaveEvent, tcpLive, tcp, wasConnected, eraseLeft, running>>

\* onMqttDisconnect(): also the end of an attempt that failed.
MqttDown ==
    /\ mqtt # "off"
    /\ ShutdownAP
    /\ p2pConnected' = FALSE
    /\ mqtt' = IF sta = "up" THEN "connecting" ELSE "off"
    /\ mqttLive' = (sta = "up")
    /\ UNCHANGED <<listVars, flagVars, timerVars, scanVars, sta, staAp,
                   leaveEvent, tcpLive, tcp, wasConnected, eraseLeft, running>>

-----------------------------------------------------------------------------
(* Children of our own access point.                                       *)

FreeSlots == (1..NumClients) \ clients

\* onClient(): the lowest free slot; with none free the child is turned
\* away and nothing changes.
ClientConnects ==
    /\ softAP
    /\ \E i \in FreeSlots :
          /\ \A j \in FreeSlots : i <= j
          /\ clients' = clients \union {i}
    /\ UNCHANGED <<listVars, flagVars, timerVars, scanVars, staVars, AP_ready,
                   softAP, linkVars, restVars>>

\* onDisconnect(espClient[i]), and onTimeout(), whose close() leads to it.
ClientGone ==
    /\ \E i \in clients : clients' = clients \ {i}
    /\ UNCHANGED <<listVars, flagVars, timerVars, scanVars, staVars, AP_ready,
                   softAP, linkVars, restVars>>

-----------------------------------------------------------------------------
(* OTA's use of the shared Ticker, and resets.                             *)

\* handle_ota("start"), reached over a live uplink: erase_sector() takes
\* over the Ticker, whatever it was armed for.
OtaStart ==
    /\ HasOTA
    /\ sta = "up"
    /\ IF meshConnect THEN tcp = "open" /\ tcpLive ELSE mqtt = "on" /\ mqttLive
    /\ eraseLeft' \in 1..MaxSectors
    /\ timer' = "erase"
    /\ UNCHANGED <<listVars, flagVars, connectScheduled, scanVars, staVars,
                   apVars, linkVars, wasConnected, mqtt, running>>

\* erase_sector(): one sector per call, re-armed until none is left.
EraseFires ==
    /\ timer = "erase"
    /\ IF eraseLeft > 0
       THEN eraseLeft' = eraseLeft - 1 /\ UNCHANGED timer
       ELSE UNCHANGED eraseLeft /\ timer' = "none"
    /\ UNCHANGED <<listVars, flagVars, connectScheduled, scanVars, staVars,
                   apVars, linkVars, wasConnected, mqtt, running>>

\* Every variable back to its value at power up.
Reset ==
    /\ connectScheduled' = FALSE /\ alreaddyDisconnected' = FALSE
    /\ retry_connect' = 0 /\ ap' = <<>> /\ ap_ptr' = 0 /\ tried' = {}
    /\ scanning' = FALSE /\ meshConnect' = FALSE /\ wasConnected' = FALSE
    /\ p2pConnected' = FALSE /\ AP_ready' = FALSE /\ clients' = {}
    /\ eraseLeft' = 0 /\ running' = FALSE /\ timer' = "none"
    /\ scanJob' = "none" /\ sta' = "idle" /\ staAp' = None
    /\ leaveEvent' = FALSE /\ softAP' = FALSE /\ tcp' = "closed"
    /\ tcpLive' = FALSE /\ mqtt' = "off" /\ mqttLive' = FALSE

\* checkConnectionEstablished(), 5000 s after GOT_IP on a mesh parent.  By
\* then every MQTT session or attempt left without its router has failed,
\* by keepalive or timeout, and onMqttDisconnect() cleared p2pConnected.
\* Without an uplink the node restarts: die().
CheckFires ==
    /\ timer = "check"
    /\ mqtt = "off" \/ (mqtt = "connecting" /\ ~p2pConnected)
    /\ \/ /\ Connected
          /\ timer' = "none"
          /\ UNCHANGED <<listVars, flagVars, connectScheduled, scanVars,
                         staVars, apVars, linkVars, restVars>>
       \/ ~Connected /\ Reset

\* The Restart command, the end of an OTA update, a loss of power.
Reboot == running /\ Reset

-----------------------------------------------------------------------------
Init ==
    /\ connectScheduled = FALSE /\ alreaddyDisconnected = FALSE
    /\ retry_connect = 0 /\ ap = <<>> /\ ap_ptr = 0 /\ tried = {}
    /\ scanning = FALSE /\ meshConnect = FALSE /\ wasConnected = FALSE
    /\ p2pConnected = FALSE /\ AP_ready = FALSE /\ clients = {}
    /\ eraseLeft = 0 /\ running = FALSE /\ timer = "none"
    /\ scanJob = "none" /\ sta = "idle" /\ staAp = None
    /\ leaveEvent = FALSE /\ softAP = FALSE /\ tcp = "closed"
    /\ tcpLive = FALSE /\ mqtt = "off" /\ mqttLive = FALSE

Station == GotIP \/ LeaveEvent
           \/ \E reason \in {"tooMany", "other"} : WifiDisconnected(reason)
Uplink == TcpConnected \/ TcpClosed \/ TcpTimeout \/ MqttUp \/ MqttDown
Tickers == ConnectFires \/ CheckFires \/ EraseFires

Next == Begin \/ ScanDone \/ Tickers \/ Station \/ Uplink
        \/ ClientConnects \/ ClientGone \/ OtaStart \/ Reboot

Spec == Init /\ [][Next]_vars

-----------------------------------------------------------------------------
(* Safety.                                                                 *)

\* connectScheduled tells the truth about the Ticker, although onWifiConnect
\* and erase_sector() arm the same Ticker without looking at the flag: were
\* the flag set with no connect() pending, schedule_connect() would drop
\* every later request and the node would never join anything again.
TimerMatchesFlag == connectScheduled <=> timer = "connect"

\* A running node whose station is off the air has a connect() on its way,
\* or the DISCONNECTED event whose handler schedules one.
RetryPending ==
    running /\ sta = "idle" => timer = "connect" \/ leaveEvent

\* While the station joins or holds an access point, ap_ptr still points to
\* that one (send_connected_msg() publishes its BSSID and RSSI), meshConnect
\* says of it which way publish() must go, no scan is under way, and the
\* next DISCONNECTED event will not be mistaken for an echo of the last.
StationMatchesList ==
    sta # "idle" =>
        /\ ap_ptr # 0 /\ staAp = ap[ap_ptr]
        /\ meshConnect <=> staAp \in MeshNodes
        /\ ~scanning /\ ~alreaddyDisconnected /\ ~leaveEvent

\* ap_ptr returns to NULL, which is what makes connect() scan again, only
\* after every candidate of the list was given to WiFi.begin(): however
\* the events of one disconnect interleave, none of them skips a candidate.
RescanOnlyAfterAllTried ==
    running /\ ap_ptr = 0 => tried = 1..Len(ap)

\* Children are on the air, or occupy a slot of espClient[], only while the
\* node knows its access point to be up: shutdown_AP(), which returns early
\* when AP_ready is FALSE, never leaves an access point or a slot behind.
NoOrphanAP == softAP \/ clients # {} => AP_ready

\* p2pConnected is never left set for a socket that is gone.
NoPhantomLink == p2pConnected => tcp = "open"

(* The walk along the list, as the steps of ApWalk.tla see it.             *)

phase ==
    IF ~running THEN "off"
    ELSE IF sta # "idle" THEN sta
    ELSE IF ap_ptr = 0 THEN "search"
    ELSE IF leaveEvent /\ ~alreaddyDisconnected THEN "lost" ELSE "wait"

Walk == INSTANCE ApWalk WITH Lists <- ScanResults, list <- ap, pos <- ap_ptr

\* connect(), scan() and the handlers of WiFi events implement the walk of
\* ApWalk: candidates in list order, one step per loss, then a new scan.
WalkSpec == Walk!Spec

-----------------------------------------------------------------------------
(* Liveness.                                                               *)

FoundSome == ConnectFires /\ scanning /\ ~scanning' /\ ap' # <<>>

StaleMqttEnds == ~(mqttLive /\ staAp \in Routers) /\ MqttDown

StaleTcpEnds == ~tcpLive /\ TcpClosed

\* The Ticker fires when its time has come; events that were raised are
\* delivered; scans and joins end; a socket or session whose association is
\* gone fails in the end; and scans are not empty for ever.  Strong fairness on ConnectFires
\* because its guard on leaveEvent stands for a delay of milliseconds.
Fairness ==
    /\ WF_vars(Begin) /\ WF_vars(ScanDone) /\ WF_vars(LeaveEvent)
    /\ SF_vars(ConnectFires) /\ SF_vars(FoundSome)
    /\ WF_vars(CheckFires) /\ WF_vars(StaleMqttEnds) /\ WF_vars(StaleTcpEnds)
    /\ WF_vars(sta = "joining" /\ Station)

FairSpec == Spec /\ Fairness

\* A node that is off the air always comes to try a candidate again.
KeepsTrying == running /\ sta = "idle" ~> ~running \/ sta # "idle"

\* A node that joined a mesh parent ends up with a working uplink, leaves
\* the parent or restarts: the check armed by onWifiConnect() sees to it.
MeshJoinResolves ==
    sta = "up" /\ meshConnect ~> (Connected /\ tcpLive) \/ sta # "up"

\* docs/MeshTopology.md: "Lastly, the node will start its own AP": whatever
\* scan() and shutdown_AP() did to the access point before, a node with an
\* uplink comes to have one on the air, or loses the uplink.
ServesWhenConnected == Connected ~> softAP \/ ~Connected

=============================================================================
