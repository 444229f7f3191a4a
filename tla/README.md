# ESP8266MQTTMesh: specification and proofs

TLA+ modules of the mesh firmware in this repository, the TLC configurations
that check them and theorems about them proved with TLAPS.  Everything is
translated from the code; line numbers such as *cpp:1076* are of
`src/ESP8266MQTTMesh.cpp`, *h:162* of `src/ESP8266MQTTMesh.h`, *ir:124* of
`examples/ESP8266MeshIRRemote/src/ESP8266MeshIRRemote.ino` and *sensor:195* of
`examples/ESP8266MeshSensor/src/ESP8266MeshSensor.ino`.

## The system

A node joins either a configured WiFi router, over which it opens an MQTT
session with a broker, or the hidden access point of another node, over which
it opens one TCP connection (`espClient[0]`, its *uplink*).  Once it has an
uplink it opens an access point of its own, whose clients (`espClient[1..n]`)
are its children.  Messages travel up to the broker and down to every child.
The firmware is event driven: WiFi event handlers, TCP and MQTT callbacks and
one shared one-shot `Ticker` called `schedule`.  A callback runs to its end
before another one starts, so that an action of a module is a callback; what is
hard is the order of the callbacks, and state that one of them leaves for
another that comes much later.

### Inventory

| component | state | operations | talks to |
|---|---|---|---|
| **Connection manager** (cpp:181-279, 383-569, 643-705, 908-928, 930-944, 1052-1258) | `connectScheduled`, `alreaddyDisconnected`, `retry_connect`, `ap`, `ap_ptr`, `scanning`, `meshConnect`, `wasConnected`, `p2pConnected`, `AP_ready`, `espClient[]`, the Ticker | `begin`, `connect`, `schedule_connect`, `setup_AP`, `shutdown_AP`, `onWifiConnect`, `onWifiDisconnect`, `onConnect`, `onDisconnect`, `onTimeout`, `onClient`, `onMqttConnect`, `onMqttDisconnect`, `checkConnectionEstablished` | WiFi driver, AsyncTCP, AsyncMqttClient, Ticker (all external); shares the Ticker with the firmware update, the candidate list with `scan()` |
| **Candidate list** (cpp:365-381, 383-513) | `ap`, `ap_unused` | the part of `scan()` behind `scanComplete()`, `match_networks`, `verify_bssid` | called by `connect()`; `ap_ptr` walks the list |
| **Framing** (cpp:708-738, 1220-1233, 1292-1324) | `inbuffer[i].buf`, `inbuffer[i].bufptr` | `send_message`, `onData`, the reset of `bufptr` | AsyncTCP below, `handle_client_data` above |
| **MQTT reassembly** (cpp:1172-1188) | `inbuffer[0]`, shared with the uplink | `onMqttMessage` | AsyncMqttClient, `parse_message` |
| **Routing** (cpp:571-641, 764-836) | none of its own | `parse_message`, `HandleMessages`, `handle_client_data`, `publish`, `mqtt_publish`, `broadcast_message`, `keyValue` | framing, MQTT, the sketch's callback, the firmware update |
| **Firmware update, device** (cpp:839-1049) | `freeSpaceStart/End`, `nextErase`, `startTime`, `ota_info` | `parse_ota_info`, `check_ota_md5`, `erase_sector`, `handle_ota` | flash, the shared Ticker, routing |
| **Firmware update, sender** (`utils/send_ota.py`) | the queue of answers, `seen`, `pos` | `wait_for`, `send_firmware` | the broker |
| **MAC identity** (cpp:325-381) | none | `lfsr`, `encrypt_id`, `generate_mac`, `verify_bssid` | `scan()`, `setup_AP()` |
| **Base64** (`src/Base64.cpp`) | none | `base64_encode`, `base64_decode`, lengths | firmware update |
| **IR remote** (example, with `QueueArray.h`) | `cmdQueue`, the `Cmd` objects, files under `/ir/` | `callback`, `parse_code`, `loop`, `push`, `pop` | messages of the mesh, `sendPronto()`, SPIFFS |
| **IR codes** (library of the example) | `irparams`: `rawbuf`, `rawlen` | `sendNEC` and its like, `decode` with its decoders, `gpio_intr` | the IR LED and receiver |
| **Sensor** (example) | `relayState`, `stateChanged`, `pressed`, `lastSend`, `heartbeat`, `/config`, the window and sums of each quantity | `callback`, `loop`, `read_config`, `save_config`, `build_json` | messages of the mesh, the button, `millis()`, the HLW8012 |
| **Builder** (`src/ESP8266MQTTMeshBuilder.h`), **WiFi compatibility** (`src/WiFiCompat.*`), **TLS** | options | setters, name mapping, certificates | constructor |
| **Hello world** (example) | a counter | sketch | the library's `publish` |

### What makes each part correct

* *Connection manager*: a node that has lost its uplink always has something
  pending that will make it try again, however the timers, the doubled
  disconnect events and the OTA eraser interleave; it walks the whole candidate
  list before it scans again; its flags agree with the links they describe; no
  child is left on an access point that the node does not know of.
* *Candidate list*: exactly the networks the node may join, in the order of
  the documentation, and no list cell lost or linked twice.
* *Framing*: what the next node handles are the messages that were sent, whole
  and in order, per connection; no write behind a row of `inbuffer`.
* *Reassembly*: as framing, for messages that the MQTT client delivers in
  parts, in a buffer shared with the uplink.
* *Routing and the mesh*: over one uplink a node is given every message of
  the broker once and in order, and no message circulates; nodes whose uplinks
  form a loop do not stay in it.
* *Firmware update*: what a node boots is one image and never parts of two; it
  is the one that was sent, and whole, although the flash is checked in one
  moment and copied in another; the sender never reports success for a node that
  did not get every block.
* *MAC identity*: a node accepts every BSSID that a node of its mesh makes.
* *Base64*: what was encoded comes back, and what is decoded fits the buffer.
* *IR remote*: every command that found room is played, whole, in order and as
  often as was asked for, and its object is deleted once.
* *IR codes*: what is sent in a protocol is read back as that protocol's and with the
  same bits, however late the receiver sees the edges.
* *Sensor*: the button switches once per press, a reset restores what was set,
  a status is never overdue on a node that is connected, the broker learns of
  every change, and every reading counts in one status and in the energy.

Each point of this list that is hard to test is listed, with its line, under
`hazards` in `PROJECT.json`.

## The modules

| module | models | checked by | proved in |
|---|---|---|---|
| `NodeLink` | connection manager of one node | `MCNodeLink` and `NodeLink*.cfg` | `NodeLinkProofs` |
| `ApWalk` | what a node promises about its candidates (abstract) | as the property `WalkSpec` of `NodeLink` | `NodeLinkProofs`, theorem `ImplementsWalk` |
| `ScanList` | candidate list | `MCScanList` and `ScanListOrder.cfg` | `ScanListProofs` |
| `Framing` | messages over TCP connections | `MCFraming` and `Framing*.cfg` | `FramingProofs` |
| `Ota` | firmware update: nodes, `send_ota.py` and the channels between them | `MCOta` and `Ota*.cfg` | `OtaProofs` |
| `Inbox` | reassembly of MQTT messages in the rows shared with lines | `MCInbox` and `Inbox.cfg` | `InboxProofs` |
| `Mesh` | several nodes: links, loops, messages down and announcements up | `MCMesh` and `Mesh*.cfg` | `MeshProofs` |
| `IRRemote` | the IR remote and its ring buffer | `MCIRRemote` and `IRRemote.cfg` | `IRRemoteProofs` |
| `PlayList` | what the IR remote promises (abstract) | as the property `PlaysList` of `IRRemote` | `IRRemoteProofs`, theorem `ImplementsPlayList` |
| `IRCodes` | senders, receiver and decoders of IR codes, as functions | assumptions of `MCIRRemote` | `IRRemoteProofs` |
| `Sensor`, `Meter` | the sensor; the sampling of its power meter | `MCSensor` and `Sensor.cfg` | `SensorProofs` |
| `MacIdentity` | BSSIDs out of chip ids, as functions | assumptions of `MCScanList` | `ScanListProofs` |
| `Base64` | encoding, decoding and lengths, as functions | assumptions of `MCOta` | `OtaProofs` |

How they fit together: `NodeLink` has one node in all its callbacks; `Mesh`
composes nodes, keeping of each what its neighbours notice.  `Framing` and
`Inbox` are what `Mesh` takes for granted of a line and of an MQTT message;
`Ota` stands on `Mesh` for its channels and shares with `NodeLink` the Ticker.
`MCScanList` computes the BSSIDs of its networks with `MacIdentity`.

A module `MC*` only gives the constants of its module small values.  Operators
whose comment begins with *Mutant* are slips that the code does not have; each
shows that a property can fail.  In `PROJECT.json`, `map` names the lines each
definition stands for.

### NodeLink: state and actions

The first twelve variables are the members of the class; `ap` is a sequence and
`ap_ptr` a position in it, 0 for `NULL`.  `eraseLeft` stands for `nextErase`,
as far as the eraser takes the Ticker.  The others are the libraries: the
one-shot Ticker `schedule` (`timer` says what it will call), the driver's scan,
the station, the soft access point, `espClient[0]` (`tcp`) and the MQTT session.
`tried` is history.  `clients` are the slots of children.

| action | code |
|---|---|
| `Begin`, `Reboot` | `begin()`; a reset, `die()` or restart |
| `ConnectFires` | `connect()` from the Ticker, with `scan()` in both halves: `StartScan`, `PollScan` and `JoinCandidate` |
| `GotIP` | `onWifiConnect()` |
| `WifiDisconnected`, `LeaveEvent` | `onWifiDisconnect()` for a loss, a refusal or an echo of the node's own `WiFi.disconnect()` |
| `CheckFires` | `checkConnectionEstablished()` |
| `TcpConnected`, `TcpClosed`, `TcpTimeout` | `onConnect()`, `onDisconnect()`, `onTimeout()` of the uplink |
| `MqttUp`, `MqttDown` | `onMqttConnect()`, `onMqttDisconnect()` |
| `ClientConnects`, `ClientGone` | `onClient()`, `onDisconnect()` of a child |
| `OtaStart`, `EraseFires` | `handle_ota("start")`, `erase_sector()`, as far as the Ticker goes |

What the module assumes of the libraries: a driver event comes with the change of
the station it reports; a `WiFi.disconnect()` of the node's own on a station that
is not idle raises an event later, and the echo of the call at cpp:1084, inside
the handler, may come or not; `Ticker.once` replaces what is pending; the Ticker
calls `connect()` (half a second or more later) only after that event has been
delivered, and the 5000 s check only after sessions of an earlier association
have failed; `connect()` of an open AsyncClient and of a session that is not off
do nothing; `onTimeout` does not close the socket; destroying an AsyncClient
calls nothing back; sockets and sessions do not survive their association but
their end may be reported any time later, also when the next one is up.  An
accepted association gets its address or ends: for a DHCP server that never
answers the code has no way out (the handler at cpp:1106 is commented out).
The return of `ConnectFires` for a station that is already up is not
reachable in the runs and kept because the code has it.

`ApWalk` is the abstract promise: a node searches, then tries candidate after
candidate of the list it found, a loss moves it on by at most one, and it
searches again behind the last.  `phase` in `NodeLink` is the refinement mapping.

### ScanList: state and actions

`results` is what the loop of `scan()` has seen, `ap` the list so far (each
record carries the address of its cell), `ap_unused` the unused cells,
`allocated` the number of `new ap_t`.  `ScanComplete` starts a list and `NextResult` is one
turn of the loop; `match_networks` is the function of that name.  The filter,
the two insertion orders and the recycling of cells are the code's; the walk of
the pointers in cpp:400-479 is abstracted to sequences.

### Framing: state and actions

One receiving node with its slots (0 is the uplink) and its peers.  `wire[s]` are
the bytes on their way, `buf[s]` is `inbuffer[s]` up to `bufptr`, `lines[s]`
what `handle_client_data()` was given, `call` the running `onData()`.  `Send` is
`send_message()`, whole or, with `ShortWrites`, any prefix; `DataArrives` cuts any
piece of up to `Mss` bytes and makes the length check on the whole piece;
`ReadByte` is one turn of the loop.  `ClientConnects`, `UplinkConnects`,
`ClientGone`, `UplinkGone` open and reuse slots.  A byte is a message and a place
in it, so that mixing two messages shows.  Payloads contain no newline.

### Ota: state and actions

| variables | code |
|---|---|
| `ota_info`, `nextErase`, `eraser`, `flash` | the members of that name, the Ticker armed for `erase_sector()`, the flash from `freeSpaceStart` on |
| `phase`, `image`, `topic`, `nodes`, `pos`, `seen`, `runs` | where `send_firmware()` is, its file, `send_topic`, its locals; how often it was run |
| `down`, `up` | commands and answers on their way, in order for each node |
| `ebcmd` | the `eboot_command` that the next reset carries out |
| `booted`, `heard`, `answered` | history: what eboot copied and on which command; the run whose start a node handled last; the nodes whose answer was to the start of the run under way |

`Handle` is `handle_ota()` with the branches `Start`, `WriteBlock`, `Check` and
`Flash`; `EraseSector` is `erase_sector()`; `SendStart`, `ErasesSeen`,
`BlockSeen` and `ChecksSeen` are the stretches of `send_firmware()` between two
waits; `Take` is a turn of `wait_for()`.  `Flash` only leaves a command for eboot (cpp:1008); the node
then sits in `delay(100)` with its timers running, and `Boot`, which is `ESP.restart()` or a reset that
comes before it, copies what the flash holds *by then*.  `LinkLost` loses what is on its way and,
where the node's own station was the one disconnected, the Ticker that
`connect()` takes from the eraser (`NodeLink` shows how); `Restart` is a reset.

Assumptions: the MD5 of a block or an image tells images and positions apart
(a cell holds the byte of *an image*, so equal digests mean equal contents); a
write to flash that is not erased leaves a mixture; what one run of the program
left on its way has been delivered or lost when a user starts the next
(`NothingOnItsWay`), and the 100 ms of a flash command are over by then, though an eraser may still be
at work; a reset by loss of power drops the `eboot_command`, which lies in the memory of the clock; free space begins and
ends at a sector; the new sketch's free space begins elsewhere, so its contents
are unknown.  If answers of an earlier run could arrive in a later one, they
would stand for the new ones: answers carry no run number.

Between check and copy lies the hazard of this part.  `handle_ota("flash")` does not stop the eraser.  It
can be armed although blocks were answered: the eraser of an *earlier* run answers while the start of this
one is on its way, the sender takes that answer for one to its own start, and the start then arms the eraser
anew; blocks are written and checked before its Ticker fires again, and it erases in the delay
what was checked.  `BootsOneImage` says that this is the only way to boot an image with holes
(`erasing`), and that there is none on a node whose answer was to this run's start (`own`).  A write that fails
(`BadFlash`) is answered like one that succeeds, as in the code.

### Inbox: state and actions

`inbuffer` is the array as the code has it, row behind row, so that a write
behind the end of a row is a write into the next one.  A byte is known by its
sender, the message it belongs to and its place in it.  `message` is how far
the MQTT client has handed on the message under way, `handed` the C string
last given to `parse_message()`, and `tooLong` history.

| action | code |
|---|---|
| `RouterJoined`, `ParentJoined`, `LinkLost` | the changes of uplink in `onWifiConnect()`, of which only the one to a parent resets `bufptr` |
| `MessageComes`, `MessagePart` | `onMqttMessage()`, for parts of any length |
| `LineByte`, `LineEnds` | a turn of `onData()` for the parent (row 0) or a child |
| `ClientConnects` | the reset of `bufptr` in `onClient()` |

Lines fit their row here; `Framing` is about those that do not.

### Mesh: state and actions

A node is what its neighbours notice of it: `sta` and `tcp` are what its station
and `espClient[0]` hang on, and `tcpLive`, `mqttLive` say whether the socket and
the session belong to the present association: the libraries may find out much
later that they do not.  `served[c]` is the slot that the parent of `c` has for it.
`Join` stands for the scan and the walk along the candidates (which `NodeLink` and
`ScanList` have); the other link actions are the handlers `onWifiDisconnect()`,
`onMqttConnect()`, `onMqttDisconnect()`, `onConnect()` with `onClient()` of the
other end, `onDisconnect()`, `onTimeout()` and a reset.  A message down
(`ReceiveDown`: `broadcast_message()` then `parse_message()`) is its number in the order of the
broker; a message up (`ForwardUp`: `handle_client_data()`) is the announcement of
an uplink.  `Fails` are the steps that something has to go wrong for, at most
`MaxFaults` of them, `Proceeds` the others, among them the late discovery that a
session or socket is dead.  `overrun` and `carriedOver` are history: a message lost in a full
send buffer, and an uplink opened by a node that had not noticed the end of
the one before.

### IRRemote and PlayList: state and actions

`contents`, `head`, `tail` and `items` are the members of `QueueArray`, `heap`
and `live` the `Cmd` objects and those not deleted, `job` a running `callback()`
with the locals of `parse_code()`, `files` what `/ir/` holds, `air` the burst last
played.  `MessageComes`, `ParsePart` (a turn of the loop of
`parse_code()`) and `CallbackEnds` are the callback, `Loop` is a call of `loop()`,
`Restart` a reset, which may come while a file is being written.

A text for a code is known by the lengths of the two sections that its header gives, as far as
`sendPronto()` keeps them (a byte each), by its number of words, and by whether these are four
hexadecimal digits, the first of them 0000 (`clean`).  `Burst` is `sendPronto()` with its refusals: a text that is not
clean, or has not the words that its header says (`Accepted`), is not played; of any other a section is
chosen by the lengths.  Texts can be cut in two ways: a code longer than `kv` of `parse_code()` (ir:107) is
cut there, and with it the rest of the message is dropped; a reset in the middle of a save leaves a beginning of
it in the file.  `TextUpTo` is what is left; it may be clean where the whole was not, or the other way round.
`loop()` does not look at what `sendPronto()` returns, so a refused code is counted and taken off the
queue like one that was played: *played* in `PlayedAsAsked` and `QueuedIsPlayed` counts turns of
`loop()`, and `WholeSectionPlayed` says what is on the air in them.
`PlayList` is a list of commands with the times each is still to be played;
`waiting` in `IRRemote` is the refinement mapping.

### Sensor and Meter: state and actions

`Sensor` is the build with neither thermometer nor power meter.  `millis()` is a
counter of `Modulus` values and all its uses are differences modulo
`Modulus`.  `Loop` is one call of `loop()`: button, relay, file, status;
`Heartbeat` and `State` are the callback; `Restart` and `RestartInSave` are resets, the second with
a configuration file that lacks lines.  The variables marked *history* measure
time by a clock that does not wrap around.  `Meter` is what the HLW8012 adds: the window of three that
removes spikes, the sums of a status, and the energy, which no status begins anew.  `MeterLoop` is a call of
`loop()`: a sample if one is due (sensor:157), then a status if one is sent (sensor:205).  Either may
happen without the other, so that several statuses may fall between two samples; the later ones have a count
of 0, for which `build_json()` divides by 1 (sensor:277).  A sample is due every two seconds; the time that did pass, by
which the energy is weighed, is taken as always the same.
`samples` and `sent` are history, and `Total[n]` is what the first `n` readings count for together.  The two share no variable, and `MCSensor` runs each while
the other waits in its initial state.

### IRCodes

Functions without state.  A signal is the sequence of its marks and spaces in us; `sendNEC` and its like
say which signal a word of bits becomes, `Heard` what `gpio_intr()` can leave of a signal in `rawbuf`:
20 for the first edge, then ticks of 50 us, each mark up to `MARK_EXCESS` longer and each
space as much shorter than it was sent, and behind `rawlen` whatever an earlier code left.  The decoders are
those of the code; a loop over the bits is written as what it requires of each place of `rawbuf`, the
loops that end where the code does (Sony, Mitsubishi, RC5, RC6) by the number of their turns.
`decode` is the first of the eleven that takes the code.  Only the values of words up to 32 bits are
kept, as in `results->value`.

### MacIdentity and Base64

Functions without state: `lfsr()`, `mesh_bssid_key()`, `encrypt_id()`, `generate_mac()` and
`verify_bssid()` for octets of any width, and the encoding and decoding of byte
sequences.  TLC evaluates them in named assumptions: `NodesRecognized` and
`OneIsForeign` of `MCScanList` (octets of four bits), `BlocksComeBack` and `YieldsAreBounded` of
`MCOta` (octets of eight); those of `IRCodes` in `CodesReadBack`, `CodesNotRead` and
`BuffersHeard` of `MCIRRemote`.

## The runs

Every property of a passing run is shown able to fail by a mutant of the code
(`mutants` in `PROJECT.json`).

| run | what it shows |
|---|---|
| `node_safety` | the safety properties of `NodeLink` and that it implements `ApWalk` |
| `node_live` | a node off the air keeps trying, a mesh join resolves, a connected node serves |
| `scan_order` | list order, list contents, conservation of cells |
| `framing_whole` | messages are handed on whole, in order, and all of them |
| `framing_overrun` | no write behind a row, with rows, messages and segments at their limits |
| `ota_update` | what is booted is one image, and whole unless an eraser was armed behind the check; listed nodes boot what was sent |
| `ota_live` | without losses an update reaches every node with room for it |
| `inbox` | only whole messages are handed on; messages that fit disturb nobody's line |
| `mesh` | a loop of nodes holds a stale MQTT session; over one uplink messages arrive in sequence |
| `mesh_live` | loops end and announcements settle |
| `ir_remote` | the ring buffer and the heap agree, commands are taken off as often as asked, in order, and all of them; a text is played a section at a time and whole, or refused, wherever it was cut; the remote implements `PlayList` |
| `sensor` | button, file, heartbeat and reports over wrap-arounds, bouncing, disconnections and resets; every reading counts in one status, wherever statuses fall between samples |

### Bounds

* `NodeLink`: a router and two mesh nodes; lists with no candidate, one of either
  kind, two of one kind and one of each.  With two candidates a skipped one, a
  repeated one and a wrap-around all show, and with two kinds so does a flag left
  over from the other.  Two client slots; an erase of up to two sectors, so
  that a disconnect can come between its steps.
* `ScanList`: up to three results out of seven networks (one of each kind that
  the code tells apart) at three strengths, below, at and above -77 dBm;
  three elements are the fewest for which an insertion in the middle exists.
  The scans follow each other without bound, so cells are recycled.
* `Framing`: rows of 4 or 5 bytes for 1153, segments of 2 or 3 for the 536 to 1460
  of the TCP stacks, two or three messages per connection.  What matters is on which side of
  the row's end a message plus a segment falls, and the runs have both.
* `Ota`: two images, of two blocks and of one; blocks of 3 and sectors of 4, so
  that sectors and blocks end at different places; one node with room for both
  images, one for the shorter only; two runs of the program.  `n1` loses its link
  and restarts at any time, `n2` may fail to write; the theorems below hold for
  any mixture and number of both.
* `Inbox`: rows of three bytes and one child behind row 0; messages of 0, 1, 2, 3
  and 4 bytes, which are empty, short, just fitting, as long as the row, and
  reaching into the next.  Two messages or lines of each sender, so that what is
  left of one can show up in another.
* `Mesh`: three nodes, the fewest for a chain below a node and for a loop longer
  than two; one slot each, so that slots are full; send buffers of one message,
  so that they overrun; three uplinks, so that a node can move; two messages of
  the broker; one failure.  The nodes are interchangeable, so the
  safety run uses symmetry.  `mesh_live` has two nodes, no symmetry and two failures.
* `IRRemote`: a ring of two for ten and three commands between two resets, so that it
  is full, refuses and goes round; a code with only the repeated section, of six words, and one with
  only the first, of seven words for a header of six, so that `KvWords` = 6 cuts it into one that is accepted
  while a save of the other, cut to five words (`CutAt`), is refused; a message with a code behind one that is too long;
  the counts -2 and 3, none, and one that holds for a later code.
* `Sensor`: a clock of 6 values that goes round without bound, a debounce time of 1 and a heartbeat
  of 1 by default; requests that are refused, taken, and negative as an `int`.
  `Meter`: readings 0 to 3 with 2 as the least that counts, five samples and three statuses: a
  spike with a status before, inside and behind its window, statuses with and without a sample of their own,
  and two or three of them between two samples.
* `MaxSectors`, `MaxResults`, `MaxSent`, `MaxRuns`, `MaxMessages`, `MaxOpens`, `MaxDown`,
  `MaxFaults`, `MaxCmds`, `MaxTimes`, `MaxSamples` and `MaxStatuses` are the bounds of counters;
  each is a constant and is used in a guard.  `CutAt` bounds the lengths that a reset leaves of a text.

### Fairness

* `NodeLink`: a Ticker that was armed fires, an event that was raised is
  delivered, a scan ends, a join ends one way or the other, the sockets and sessions
  of a lost association fail in the end (TCP's own timeouts), and scans are not
  empty for ever (strong fairness on `FoundSome`).  `ConnectFires` has
  strong fairness because its guard on `leaveEvent` stands for a delay of
  milliseconds against half a second.  No fairness is assumed for being accepted
  by an access point or a broker, for children or for OTA.
* `Framing`: the loop of `onData()` goes on (weak); data that is on its way on an
  open connection arrives (strong, because another slot's `onData()` disables it).
* `Ota`: timers fire, messages are delivered, waits end.  Running the program is
  its user's choice and has no fairness.
* `Mesh`: a dead session or socket is found out in the end (TCP and MQTT
  keep-alives), and what has arrived at a node is handled.  No fairness for joining, for
  opening links or for failures.
* `IRRemote`: a callback ends (weak), and `loop()` is called again however
  many messages come (strong, because a callback disables it).
* `Sensor`: `loop()` runs, time passes, and the node is connected again and
  again; no fairness for messages or the button.  `RelayIsReported` asks in its own
  statement that resets come to an end.

Deadlock is checked in every run but `ota_live`, which stops when the program
has been run `MaxRuns` times, and the two of `Mesh`, which stop when the bounds are used up.

## What is proved

All theorems hold for every value of the constants under the named assumptions
of the modules.  The bounds (`MaxRuns`, ...) are constants too.

* `NodeLinkProofs`.  `TypeCorrect`, `AlwaysRetrying`, `StationMatches`, `AllTried`,
  `NothingOrphaned`: the safety properties are not inductive one by one.  That a
  pending `connect()` exists after a loss depends on `alreaddyDisconnected` having
  been reset when the station was last given a candidate; that no candidate is
  skipped depends on `tried` being exactly the positions up to `ap_ptr` and on
  no echo of an earlier disconnect being outstanding while the station is busy.  `IInv`
  joins them: types (`SwitchesOK`, `DataOK`), timer, station and flags
  (`ControlInv`), the tried prefix (`ListInv`), access point and uplink
  (`LinkInv`).  `ImplementsWalk` proves the refinement: each action is a step of
  `ApWalk` or a stutter, by the phase it starts in.
* `ScanListProofs`.  `ScanTypes`, `RoutersSorted`, `MeshSortedOffTheEdge`,
  `Conserved`, `ListedRight`: an insertion keeps order and elements; the cells of the list
  and the unused ones are a permutation of those allocated.  `ListedRight` needs that no network
  that is seen has the BSSID that stands for *any* in the table (`AnyAssumption`), which is a null
  pointer in the code.  `RecognizedInItsMesh` and `LocallyAdministered` are about `MacIdentity`, for any
  key and any width of octets.
* `FramingProofs`.  `FramingTypes`; `RowsNeverOverrun` for any sizes and any
  peers; `MessagesWhole` where every length plus one segment fits a row and
  writes are taken whole: its invariant says of each open connection that the lines handed
  on, the row, the rest of the running call and the bytes on their way are,
  in that order, the messages that were sent (`InTransit`).  Both conditions are needed:
  without them messages are lost, cut or joined (see *Where the code and
  its texts differ*).
* `OtaProofs`.  `OtaTypes`; `BootsNoOtherImage`, on every node, whatever is
  lost or fails.  It is about two steps, the check and the copy, with erasers, resets and other runs
  between, and about how a node came to be listed; `EInv` is what makes it inductive: commands of a run are in their
  order on their way, the flash command last (`OrderOK`), no start is on its way to a node that has heard this run's
  (`HeardOK`), a node that answered this run's start has its eraser at rest and keeps it so
  (`OwnOK`), and what eboot would copy now is an image but for what an eraser that was armed behind the
  check may have emptied (`EbootOK`).  `ListedNodesUpdated`, for nodes whose flash takes what is
  written and if no image is empty.  Nothing on the sender's side looks at the
  flash, and the check of a node is against the *last start it heard of*, so
  the last theorem is not obvious: a node may have missed the start, be listed because an
  earlier run's eraser answered, and hold all of an earlier image.  `IInv` says
  that all that is on its way belongs to the run under way and that a
  node that answered the block at 0 holds in its first cell the first byte of no other
  image; so the node's check fails for any image but the one being sent, and what waits
  for eboot is that one (`PendingListed`).
  `DecodesWhatWasEncoded` and `YieldFits` are about `Base64`.
* `InboxProofs`.  `InboxTypes`, `HandsOnWhole` and `LinesStayUndisturbed`, for rows, children and messages
  of any number and size.  Row 0 is shared, so the invariant says whose it is: the
  bytes of an MQTT message are there while the uplink is a router and the
  message was never too long for the row (a part that did not fit is followed by
  parts that do not fit either), the bytes of a parent's line while the uplink is a parent.
  That rows do not meet (`Layout`) and what a C string in the array is
  (`StringIs`) are lemmas.
* `MeshProofs`.  `Typed`, `LoopsHoldStaleSession`, `InOrder`, for a mesh of any size.
  A node that opens an uplink takes the next number; if the
  access point of a parent is up for a child whose link is older than the parent's own,
  then the parent kept it over a change of uplink, which leaves an MQTT session
  from before (`Links`, `Younger`).  In a loop take the node with the smallest number:
  its parent in the loop has a younger one.  `OrderInv` says that what a child was sent
  last is what its parent received last, unless the parent began anew.
* `IRRemoteProofs`.  `RemoteTypes`, `QueueAndHeapAgree`, `AsOftenAsAsked`, `SectionsAreWhole` and
  `ImplementsPlayList`, for rings of any size and any messages, counts and files.  The invariant
  says that `tail` is where the next entry goes (`RingInv`), and that for a command that waits what was
  played and what its count still asks for add up to what the message asked for (`HeapInv`); with it each
  call of `loop()` is a step of the list, and `push()` one or, when the ring is full, none.
  `SectionsAreWhole` is about every text a command can come to hold, those cut by `kv` or by a reset included: the types say
  that these are beginnings of codes (`SomeCode`), and a section that is played ends inside the text.
  `NECReadBack`, `LGReadBack`, `JVCReadBack` and `SonyReadBack` are about `IRCodes`: for all words of
  bits, all lags and all contents of `rawbuf` behind the code, `decode()` gives back what was sent.
  That a protocol's own decoder reads it rests on its times alone (`Readable`: its marks and
  spaces match however they are heard, and no zero matches as a one); that no decoder asked earlier takes
  it, on the lead (`EarlierReject`) and, for NEC's, on the length.  `WhynterRead` says the first half for
  Whynter.  `NoSAMSUNGHeard` and `PanasonicUnread` say that two decoders never succeed.
* `SensorProofs`, for a clock, times, requests and readings of any size.  `SensorTypes`.
  `ButtonReleased`: a button that does not count as released carries the time at which it was seen
  down last, and the clock cannot have gone round since (`ButtonInv`).  `ResetsRestore`: the file
  says what relay and heartbeat are unless a change waits or a save failed (`FileInv`).
  `StatusNeverLate`: unless a status is needed anyway, `lastSend` is the time of the last one, and
  the clock has not reached it again (`SendInv`); this is where `ClockAssumption` and
  `HeartbeatAssumption` ask that two calls of `loop()` and a heartbeat together fit the clock.
  `EveryReadingOnce`: a spike is taken out one reading after it was read, and a status may come at any
  call of `loop()`, with a sample or without.  `MeterInv` says that the window holds what the last readings
  count for and the energy all that left it (`WindowInv`), and that the sums are those of the samples since the
  last status, as a difference of two prefix sums (`SumsInv`).

The types of `NodeLink`, `ScanList`, `Framing` and `Ota` are proved and not
checked by a run of their own.

Only model-checked: liveness (`KeepsTrying`, `MeshJoinResolves`,
`ServesWhenConnected`, `MessagesArrive`, `UpdatesSucceed`, `LoopsEnd`, `AnnouncementsSettle`,
`QueuedIsPlayed`, `RelayIsReported`), which the prover does not reach.  Every other property
of a run is stated by a theorem.  Of the named assumptions of the `MC*` modules, three facts about IR codes
have no theorem: that RC5 and RC6 codes, and Whynter's as a whole, are read back by `decode()`, which
needs an induction over the units that `getRClevel()` counts; and that SAMSUNG's, Panasonic's and
Denon's codes are told from those of *all* other protocols by none.

## Where the code and its texts differ

Seen while modelling; the modules have what the code does.

In the links:

* `retry_connect` is set back to 1 by every `connect()`, the retry it grants
  included (cpp:524), so a parent that answers ASSOC_TOOMANY for ever is retried for
  ever; MeshTopology.md says that a node attempts each in order.
* A scan that failed looks like one in progress (cpp:402), and `scanning` stays
  set, which h:161 explains as "if scanning is in progress".
* The station may be told to join its next access point before the events that
  take the own access point down have come (cpp:1076), while MeshTopology.md says
  that a node shuts its own access point down when it loses its connection:
  `onWifiDisconnect()` does not.  A node may so join its own descendant; `Mesh` shows
  that this ends with the MQTT session from before.
* `AP_ready` stays true when `scan()` turns the access point off (cpp:393),
  though h:162 calls it the state of the access point.
* `onMqttDisconnect()` of a session over an earlier router clears `p2pConnected`
  of a mesh link that is up (cpp:1152).
* A router at exactly -77 dBm satisfies both comparisons (cpp:455, cpp:463), and a
  mesh node may be listed before a weak router, where MeshTopology.md lists
  routers first; `MeshInOrderOffTheEdge` is stated without that edge.

In the messages:

* A piece of data that does not fit the row as a whole is dropped, the newlines
  in it included (cpp:1307), so that two messages may become one; README.md speaks of messages of up to
  1151 bytes, which with their topic do not fit a row.
* What `write()` does not take is lost with its newline, and the next message is read as
  the rest of this one (cpp:735); the comment of the loop that looks for newlines takes each
  for the end of a packet (cpp:1314).
* The terminator of an MQTT message as long as a row, or longer, is
  written before the length of its later parts is looked at (cpp:1182): it may cut the line
  that a child has begun.  `HandedWhole` names this exception.
* A payload with a newline is split by the next node (cpp:725), and a topic of
  64 bytes or more is dropped there (cpp:778); payloads and topics are no strings of characters
  in the modules, so this is not in them.
* The retained announcement of a node that has moved can be overwritten by an older
  one that was still on its way: announcements settle, in no promised order.

In the firmware update:

* A relative address is compared with an absolute one (cpp:1026), and the
  block that straddles the end of the free space is written.
* With OTA, a start that is handled while a mesh join is unresolved takes the
  Ticker from the 5000 s check; `MeshJoinResolves` is therefore checked with
  `HasOTA = FALSE`.
* `erase_sector()` and `connect()` share one Ticker: an update during which the
  node loses its uplink is never finished by that eraser.  The run `ota_update`
  includes this.
* If on a node that missed the start of an image *every* write fails as well,
  it boots the complete earlier image it may hold: the answer to a block is the
  MD5 of the message, not of the flash.  This is why
  `ListedNodesBootWhatWasSent` speaks of nodes outside `BadFlash`.
* `handle_ota("flash")` leaves an armed eraser running into its `delay(100)` (cpp:1008), so that the image
  that passed the check at cpp:988 may be copied with erased sectors.  It takes the answer of an earlier run's
  eraser (see *Ota*); `BootsOneImage` names the case by `erasing` and `own`.
* An empty file is refused by the nodes but not by the program; a node whose eraser
  of an earlier run answers is then listed and told to flash what it has.  This
  is why the theorem asks for images that are not empty.

In the identity of nodes:

* `verify_bssid()` recomputes from three octets what `generate_mac()` made of four, so that a
  chip id of more than 24 bits, as an ESP32 has, is recognized only by chance (cpp:375).

In the examples:

* `decodeSAMSUNG()` looks for the lead at `rawbuf[0]`, which `gpio_intr()` always sets to 20, and
  `decodePanasonic()` for the space of the lead at its mark; neither ever succeeds, and a code of
  `sendSAMSUNG()` or `sendPanasonic()` comes back as UNKNOWN (`NoSAMSUNGHeard`, `PanasonicUnread`, `CodesNotRead`).
* A repeated JVC code is sent without its lead.  An RC5 decoder that is asked earlier can take one of only
  zeros for its own if marks are heard long and spaces short; `CodesReadBack` is about first codes.
* The usage at ir:24-27 names a key `pronto`, which `parse_code()` ignores; the
  code reads `code` and `file`.
* `push()` refuses a command when the ring is full; its object is never deleted
  (`refused` in `QueueMatchesHeap`) and nobody is told.
* A button last seen down in the one millisecond in which `millis()` is 0 counts as
  released and switches again (sensor:195); `ReleasedWhenSettled` names this exception.
* The lines of the calibration are written without newlines (sensor:349-351), so that those of
  current and voltage are lost at a restart.
* A second status between two samples reports a power, current and voltage of 0: its count is 0, and
  `build_json()` divides by 1 instead (sensor:277).  `ReadingsCountedOnce` says so.
* A reset while the configuration is being written loses the heartbeat, and
  possibly the relay's state (sensor:341).  A heartbeat that is nearly 2^32 is never due.

## What is not modelled

Left out for good, because they hold no state that outlives a call: the Builder
(options), the WiFi compatibility layer (names), the hello-world example, scripts that only write files.
TLS is not in the default build.  Of the vendored IRremote library the protocols and the choice of a section in
`sendPronto()` are modelled; left out are the timing of the carrier, senders without a decoder (Sharp, DISH, raw),
`decodeSanyo()`, which is not called, the value of `decodeHash()`, and the receiver's states between two codes.

* Of the routing: the prefixes by which `parse_message()` and `HandleMessages()`
  choose between the firmware update and the sketch, and `keyValue()`; they
  split strings and change nothing.
* Of the firmware update: `handle_fw()`, `check` with a payload (the sender
  sends none), malformed starts, buffer alignment of flash writes.
* Of the sensor: the thermometer, the calibration of the HLW8012 and its lines of the file.
* A router or parent whose DHCP server never answers (cpp:1106): the handler of that
  event is commented out, so that there is no behaviour to check.

What could come next: a refinement of the links of `Mesh` by `NodeLink`, and the receiver's states between two
IR codes.
