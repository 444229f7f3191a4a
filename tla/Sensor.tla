------------------------------- MODULE Sensor -------------------------------
(***************************************************************************)
(* The sensor of examples/ESP8266MeshSensor, in the build with neither a   *)
(* thermometer nor a power meter: a relay that a button and messages       *)
(* switch, kept in a file over a reset and reported to the broker.         *)
(*                                                                         *)
(* millis() is a counter of Modulus values, and every use of it a          *)
(* difference modulo Modulus.  The callback runs between two calls of      *)
(* loop().  Module Meter has the sampling that the power meter adds.       *)
(***************************************************************************)
EXTENDS Integers

CONSTANTS
    Modulus,    \* 2^32
    MaxGap,     \* bound: time between two calls of loop()
    BootDelay,  \* the delay(5000) of setup()
    Debounce,   \* 100
    Default,    \* 60000, what heartbeat is without a file
    Threshold,  \* 10000, what a message must exceed
    Least,      \* 1000, the least that read_config() takes
    Most,       \* 60 * 60 * 1000, the most
    Otherwise,  \* 5 * 60 * 1000, taken for more than Most
    Requests    \* payloads of "heartbeat", after strtoul().  One that is
                \* longer than the clock has room for, so that it is never
                \* due, is left out.

ASSUME ClockAssumption ==
    /\ Modulus \in Nat /\ MaxGap \in Nat \ {0}
    /\ BootDelay \in Nat /\ BootDelay + MaxGap < Modulus
    /\ Debounce \in Nat /\ Debounce + MaxGap < Modulus

ASSUME HeartbeatAssumption ==
    /\ Least \in Nat /\ Otherwise \in Nat /\ Most \in Nat /\ Default \in Nat
    /\ Threshold \in Nat /\ Requests \subseteq 0..(Modulus - 1 - MaxGap)
    /\ Least <= Default /\ Default <= Most
    /\ Least <= Otherwise /\ Otherwise <= Most
    /\ 2 * Most < Modulus /\ Most + MaxGap < Modulus

VARIABLES
    now,          \* millis(), as the last loop() read it
    pressed,      \* when loop() saw the button down, or 0
    lastSend, needToSend,
    relayState, stateChanged,
    heartbeat,    \* as the unsigned number that the comparison makes of it
    file,         \* /config
    saveFailed,   \* history: the last save_config() could not open it
    reported,     \* history: the relay as last published, {} before
    sinceSend,    \* history: time since the last status, or since the boot,
                  \* up to Modulus
    sinceDown,    \* history: time since the button was seen down, up to
                  \* Debounce + 1
    settled,      \* history: the button was seen up for more than Debounce
    downAtZero    \* history: it was last seen down when millis() was 0

clockVars == <<now, pressed, lastSend>>
buttonVars == <<sinceDown, settled, downAtZero>>
configVars == <<relayState, heartbeat, file, saveFailed>>
vars == <<clockVars, buttonVars, configVars, needToSend, stateChanged,
          reported, sinceSend>>

Clock == 0..(Modulus - 1)

\* a - b of unsigned long.
Minus(a, b) == (a - b) % Modulus

\* A file: the value of each line, or no value where the line is missing.
Nothing == [relay |-> {}, heartbeat |-> {}]
Written(relay, hb) == [relay |-> {relay}, heartbeat |-> {hb}]
Line(values) == {{}} \union {{v} : v \in values}

TypeOK ==
    /\ now \in Clock /\ pressed \in Clock /\ lastSend \in Clock
    /\ needToSend \in BOOLEAN /\ stateChanged \in BOOLEAN
    /\ relayState \in BOOLEAN /\ heartbeat \in Clock
    /\ file \in [relay : Line(BOOLEAN), heartbeat : Line(Clock)]
    /\ saveFailed \in BOOLEAN /\ reported \in Line(BOOLEAN)
    /\ sinceSend \in 0..Modulus /\ sinceDown \in 0..(Debounce + 1)
    /\ settled \in BOOLEAN /\ downAtZero \in BOOLEAN

-----------------------------------------------------------------------------
(* The file.                                                               *)

\* The int heartbeat is negative from half of Modulus on, and read_config()
\* takes that for too short.
Clamp(hb) ==
    IF hb < Least \/ 2 * hb >= Modulus THEN Least
    ELSE IF hb > Most THEN Otherwise ELSE hb

\* read_config() of f, on the initial values.
RelayOf(f) == TRUE \in f.relay
HeartbeatOf(f) ==
    IF f.heartbeat = {} THEN Default
    ELSE Clamp(CHOOSE hb \in Clock : hb \in f.heartbeat)

\* save_config(), with its return where the file cannot be opened.
SaveConfig(relay, hb) ==
    \/ file' = Written(relay, hb) /\ saveFailed' = FALSE
    \/ UNCHANGED file /\ saveFailed' = TRUE

-----------------------------------------------------------------------------
(* The callback.                                                           *)

\* Mutant: the callback does not save the heartbeat.
HeartbeatUnsaved(hb) ==
    /\ hb > Threshold
    /\ heartbeat' = hb
    /\ UNCHANGED <<file, saveFailed, clockVars, buttonVars, relayState,
                   needToSend, stateChanged, reported, sinceSend>>

\* "heartbeat".
Heartbeat(hb) ==
    /\ hb > Threshold
    /\ heartbeat' = hb
    /\ SaveConfig(relayState, hb)
    /\ UNCHANGED <<clockVars, buttonVars, relayState, needToSend,
                   stateChanged, reported, sinceSend>>

\* "state" with another state than the present one.
State ==
    /\ relayState' = ~relayState
    /\ stateChanged' = TRUE
    /\ UNCHANGED <<clockVars, buttonVars, heartbeat, file, saveFailed,
                   needToSend, reported, sinceSend>>

-----------------------------------------------------------------------------
(* loop().                                                                 *)

\* Mutant: the time is kept in a wider type than millis() has.
LaterWide(gap) == now + gap

\* millis(), gap later.
Later(gap) == (now + gap) % Modulus

Upto(bound, t) == IF t > bound THEN bound ELSE t

\* Mutant: pressed keeps the time at which the button went down.
ButtonOnce(t, down) ==
    pressed' = IF down THEN IF pressed = 0 THEN t ELSE pressed
               ELSE IF Minus(t, pressed) > Debounce THEN 0 ELSE pressed

\* What becomes of pressed at time t.
Button(t, down) ==
    pressed' = IF down THEN t
               ELSE IF Minus(t, pressed) > Debounce THEN 0 ELSE pressed

\* The history of the button, by a clock that does not wrap around.
ButtonHistory(gap, t, down) ==
    LET since == Upto(Debounce + 1, sinceDown + gap) IN
    /\ sinceDown' = IF down THEN 0 ELSE since
    /\ settled' = (~down /\ (settled \/ since > Debounce))
    /\ downAtZero' = IF down THEN t = 0 ELSE downAtZero

\* Mutant: the clock is compared, not the difference.
IsDueAbsolute(t) == t > lastSend + heartbeat

\* It is time for a status.
IsDue(t) == Minus(t, lastSend) > heartbeat

\* Mutant: a return while disconnected forgets that a status is needed.
StatusOrDrop(t, gap, send, connected, relay) ==
    /\ needToSend' = FALSE
    /\ IF connected /\ send
       THEN lastSend' = t /\ reported' = {relay} /\ sinceSend' = 0
       ELSE /\ sinceSend' = Upto(Modulus, sinceSend + gap)
            /\ UNCHANGED <<lastSend, reported>>

\* The end of loop(): a status that cannot be sent now is still needed.
Status(t, gap, send, connected, relay) ==
    IF connected /\ send
    THEN /\ lastSend' = t /\ reported' = {relay} /\ sinceSend' = 0
         /\ needToSend' = FALSE
    ELSE /\ needToSend' = send
         /\ sinceSend' = Upto(Modulus, sinceSend + gap)
         /\ UNCHANGED <<lastSend, reported>>

\* One call of loop(), gap later than the one before.
Loop(gap, down, connected) ==
    LET t == Later(gap)
        toggles == down /\ pressed = 0
        relay == relayState # toggles
        changed == stateChanged \/ toggles
    IN  /\ now' = t
        /\ Button(t, down) /\ ButtonHistory(gap, t, down)
        /\ relayState' = relay
        /\ stateChanged' = FALSE
        /\ \/ changed /\ SaveConfig(relay, heartbeat)
           \/ ~changed /\ UNCHANGED <<file, saveFailed>>
        /\ Status(t, gap, needToSend \/ changed \/ IsDue(t), connected, relay)
        /\ UNCHANGED heartbeat

-----------------------------------------------------------------------------
(* Resets.                                                                 *)

\* setup() with the file that is there.
Setup ==
    /\ relayState' = RelayOf(file') /\ heartbeat' = HeartbeatOf(file')
    /\ now' = BootDelay /\ pressed' = 0 /\ lastSend' = 0
    /\ needToSend' = FALSE /\ stateChanged' = FALSE /\ saveFailed' = FALSE
    /\ sinceSend' = BootDelay
    /\ sinceDown' = Debounce + 1 /\ settled' = TRUE /\ downAtZero' = FALSE
    /\ UNCHANGED reported

Restart == UNCHANGED file /\ Setup

\* A reset in the middle of save_config(), which a message or the button
\* can bring about at any time: open() has emptied the file, and the line of
\* the relay may have been written.
RestartInSave ==
    /\ \E relay \in BOOLEAN :
          /\ pressed = 0 \/ relay = relayState
          /\ file' \in {Nothing, [Nothing EXCEPT !.relay = {relay}]}
    /\ Setup

Init ==
    /\ file = Nothing /\ relayState = FALSE /\ heartbeat = Default
    /\ now = BootDelay /\ pressed = 0 /\ lastSend = 0
    /\ needToSend = FALSE /\ stateChanged = FALSE /\ saveFailed = FALSE
    /\ sinceSend = BootDelay /\ reported = {}
    /\ sinceDown = Debounce + 1 /\ settled = TRUE /\ downAtZero = FALSE

Reset == Restart \/ RestartInSave

Next ==
    \/ \E gap \in 0..MaxGap, down, connected \in BOOLEAN :
          Loop(gap, down, connected)
    \/ \E hb \in Requests : Heartbeat(hb)
    \/ State
    \/ Reset

Spec == Init /\ [][Next]_vars

\* loop() runs, time passes, and the node is connected again and again.
LoopRuns ==
    WF_vars(\E gap \in 1..MaxGap, down \in BOOLEAN : Loop(gap, down, TRUE))

FairSpec == Spec /\ LoopRuns

-----------------------------------------------------------------------------
(* Properties.                                                             *)

\* The button counts as released, so that the next time it is down switches
\* the relay, when it has been up for longer than Debounce, and however long
\* it was held or how often it bounced; or when it was last seen down in the
\* one millisecond in which millis() is 0.
ReleasedWhenSettled == pressed = 0 <=> settled \/ downAtZero

\* A reset brings back the relay and the heartbeat (within its limits) of
\* before, unless a change waits to be saved or saving failed.
RestartRestores ==
    [][Restart /\ ~stateChanged /\ ~saveFailed =>
          relayState' = relayState /\ heartbeat' = Clamp(heartbeat)]_vars

\* A connected node lets no more than its heartbeat pass without a status,
\* wherever the clock wraps around and however long the node was disconnected
\* before.
StatusInTime ==
    [][\A gap \in 0..MaxGap, down \in BOOLEAN :
          Loop(gap, down, TRUE) => sinceSend' <= heartbeat]_vars

\* Once there are no more resets, the broker is told the state of the relay,
\* whoever switched it and whether or not the node was connected then.
RelayIsReported ==
    <>[][~Reset]_vars =>
        (reported # {relayState} ~> reported = {relayState})
=============================================================================
