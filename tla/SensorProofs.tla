----------------------------- MODULE SensorProofs -----------------------------
(***************************************************************************)
(* Proofs about Sensor.tla and Meter.tla, for a clock and times of any     *)
(* size, any requests, and any number of readings.                         *)
(***************************************************************************)
EXTENDS Sensor, Meter, SequenceTheorems, WellFoundedInduction, TLAPS

-----------------------------------------------------------------------------
(* The clock.                                                              *)

\* A remainder of what is less than one turn of the clock off.
LEMMA OneTurn ==
  ASSUME NEW x \in Int
  PROVE  /\ x \in Clock => x % Modulus = x
         /\ x - Modulus \in Clock => x % Modulus = x - Modulus
         /\ x + Modulus \in Clock => x % Modulus = x + Modulus
         /\ x % Modulus \in Clock
<1>1. Modulus \in Nat \ {0}
  BY ClockAssumption
<1> QED
  BY <1>1 DEF Clock

\* A difference of two times grows by what the clock advances, as long as
\* that does not take it once around.
LEMMA GapAdds ==
  ASSUME NEW t \in Clock, NEW s \in Clock, NEW gap \in 0..MaxGap,
         Minus(t, s) + gap < Modulus
  PROVE  /\ (t + gap) % Modulus \in Clock
         /\ Minus((t + gap) % Modulus, s) = Minus(t, s) + gap
<1>1. Modulus \in Nat \ {0} /\ MaxGap \in Nat /\ MaxGap < Modulus
  BY ClockAssumption
<1>2. t \in Int /\ s \in Int /\ gap \in Nat /\ gap < Modulus
  BY <1>1 DEF Clock
<1> DEFINE u == (t + gap) % Modulus
<1>3. u \in Clock /\ (u = t + gap \/ u = t + gap - Modulus)
  <2> DEFINE x == t + gap
  <2>1. x \in Clock \/ x - Modulus \in Clock
    BY <1>1, <1>2 DEF Clock
  <2>2. x \in Int
    BY <1>2
  <2> HIDE DEF x
  <2>3. x % Modulus \in Clock /\ (x % Modulus = x \/ x % Modulus = x - Modulus)
    BY <2>1, <2>2, OneTurn
  <2> QED
    BY <1>1, <1>2, <2>3 DEF x
<1>4. Minus(t, s) \in Clock /\ (Minus(t, s) = t - s \/ Minus(t, s) = t - s + Modulus)
  <2>1. t - s \in Clock \/ t - s + Modulus \in Clock
    BY <1>1, <1>2 DEF Clock
  <2>2. t - s \in Int
    BY <1>2
  <2> QED
    BY <2>1, <2>2, OneTurn DEF Minus
<1> HIDE DEF u
<1>5. Minus(u, s) \in Clock /\ (Minus(u, s) = u - s \/ Minus(u, s) = u - s + Modulus)
  <2>1. u - s \in Clock \/ u - s + Modulus \in Clock
    BY <1>1, <1>2, <1>3 DEF Clock
  <2>2. u - s \in Int
    BY <1>2, <1>3 DEF Clock
  <2> QED
    BY <2>1, <2>2, OneTurn DEF Minus
<1>6. Minus(u, s) = Minus(t, s) + gap
  BY <1>1, <1>2, <1>3, <1>4, <1>5 DEF Clock
<1> QED
  BY <1>3, <1>6 DEF u

LEMMA MinusSelf == \A t \in Clock : Minus(t, t) = 0
<1> SUFFICES ASSUME NEW t \in Clock PROVE Minus(t, t) = 0
  OBVIOUS
<1>1. Modulus \in Nat \ {0}
  BY ClockAssumption
<1>2. t - t = 0 /\ 0 \in Clock
  BY <1>1 DEF Clock
<1> QED
  BY <1>2, OneTurn DEF Minus

-----------------------------------------------------------------------------
(* The file.                                                               *)

LEMMA ClampRange ==
  ASSUME NEW hb \in Clock
  PROVE  Clamp(hb) \in Least..Most
<1>1. hb \in Nat /\ Modulus \in Nat
  BY ClockAssumption DEF Clock
<1> QED
  BY <1>1, HeartbeatAssumption DEF Clamp

\* read_config() takes what is in the limits as it is.
LEMMA ClampKeeps ==
  ASSUME NEW hb \in Least..Most
  PROVE  Clamp(hb) = hb
BY HeartbeatAssumption, ClockAssumption DEF Clamp

LEMMA LimitsInClock ==
  /\ Least..Most \subseteq Clock /\ Default \in Least..Most
  /\ \A hb \in Least..Most : hb + MaxGap < Modulus
BY HeartbeatAssumption, ClockAssumption DEF Clock

LEMMA HeartbeatOfFile ==
  ASSUME NEW f, f.heartbeat \in Line(Clock)
  PROVE  /\ HeartbeatOf(f) \in Least..Most
         /\ f.heartbeat = {} => HeartbeatOf(f) = Default
         /\ \A hb \in Clock : f.heartbeat = {hb} => HeartbeatOf(f) = Clamp(hb)
<1>1. CASE f.heartbeat = {}
  BY <1>1, LimitsInClock DEF HeartbeatOf
<1>2. ASSUME NEW hb \in Clock, f.heartbeat = {hb}
      PROVE  HeartbeatOf(f) \in Least..Most /\ HeartbeatOf(f) = Clamp(hb)
  <2>1. (CHOOSE x \in Clock : x \in f.heartbeat) = hb
    BY <1>2
  <2>2. HeartbeatOf(f) = Clamp(hb)
    BY <1>2, <2>1 DEF HeartbeatOf
  <2> QED
    BY <2>2, ClampRange
<1> QED
  BY <1>1, <1>2 DEF Line

-----------------------------------------------------------------------------
(* Types.                                                                  *)

FileType == [relay : Line(BOOLEAN), heartbeat : Line(Clock)]

LEMMA SaveTypes ==
  ASSUME file \in FileType, saveFailed \in BOOLEAN,
         NEW relay \in BOOLEAN, NEW hb \in Clock, SaveConfig(relay, hb)
  PROVE  file' \in FileType /\ saveFailed' \in BOOLEAN
<1>1. Written(relay, hb) \in FileType
  BY DEF Written, FileType, Line
<1> QED
  BY <1>1 DEF SaveConfig

LEMMA SetupTypes ==
  ASSUME Setup, file' \in FileType, reported \in Line(BOOLEAN)
  PROVE  TypeOK'
<1>1. heartbeat' \in Clock
  <2>1. (file').heartbeat \in Line(Clock)
    BY DEF FileType
  <2>2. HeartbeatOf(file') \in Least..Most
    BY <2>1, HeartbeatOfFile
  <2> QED
    BY <2>2, LimitsInClock DEF Setup
<1>2. /\ now' \in Clock /\ pressed' \in Clock /\ lastSend' \in Clock
      /\ sinceSend' \in 0..Modulus /\ sinceDown' \in 0..(Debounce + 1)
  BY ClockAssumption DEF Setup, Clock
<1>3. relayState' \in BOOLEAN
  BY DEF Setup, RelayOf
<1> QED
  BY <1>1, <1>2, <1>3, Zenon DEF Setup, TypeOK, FileType

LEMMA LoopTypes ==
  ASSUME TypeOK, NEW gap \in 0..MaxGap, NEW down \in BOOLEAN,
         NEW connected \in BOOLEAN, Loop(gap, down, connected)
  PROVE  TypeOK'
<1> DEFINE t == Later(gap)
           toggles == down /\ pressed = 0
           relay == relayState # toggles
           changed == stateChanged \/ toggles
           send == needToSend \/ changed \/ IsDue(t)
<1>1. /\ now' = t /\ Button(t, down) /\ ButtonHistory(gap, t, down)
      /\ relayState' = relay /\ stateChanged' = FALSE
      /\ heartbeat' = heartbeat
      /\ SaveConfig(relay, heartbeat) \/ UNCHANGED <<file, saveFailed>>
      /\ Status(t, gap, send, connected, relay)
  BY DEF Loop
<1>2. t \in Clock
  <2>1. now + gap \in Int
    BY ClockAssumption DEF TypeOK, Clock
  <2> QED
    BY <2>1, OneTurn DEF Later
<1>3. /\ relay \in BOOLEAN /\ send \in BOOLEAN /\ heartbeat \in Clock
      /\ file \in FileType /\ saveFailed \in BOOLEAN
  BY DEF TypeOK, FileType, IsDue
<1> HIDE DEF t, relay, send, changed, toggles
<1>4. file' \in FileType /\ saveFailed' \in BOOLEAN
  BY <1>1, <1>3, SaveTypes
<1>5. pressed' \in Clock
  <2>1. 0 \in Clock
    BY ClockAssumption DEF Clock
  <2> QED
    BY <1>1, <1>2, <2>1 DEF Button, TypeOK
<1>6. /\ sinceDown' \in 0..(Debounce + 1) /\ settled' \in BOOLEAN
      /\ downAtZero' \in BOOLEAN
  <2>1. sinceDown + gap \in Nat /\ Debounce \in Nat
    BY ClockAssumption DEF TypeOK
  <2>2. Upto(Debounce + 1, sinceDown + gap) \in 0..(Debounce + 1)
    BY <2>1 DEF Upto
  <2> HIDE DEF Upto
  <2>3. down \in BOOLEAN /\ downAtZero \in BOOLEAN
    BY DEF TypeOK
  <2>4. sinceDown' \in 0..(Debounce + 1)
    BY <1>1, <2>1, <2>2 DEF ButtonHistory
  <2>5. settled' \in BOOLEAN /\ downAtZero' \in BOOLEAN
    BY <1>1, <2>3 DEF ButtonHistory
  <2> QED
    BY <2>4, <2>5
<1>7. sinceSend' \in 0..Modulus /\ lastSend' \in Clock
  BY <1>1, <1>2, ClockAssumption DEF Status, Upto, TypeOK
<1>8. reported' \in Line(BOOLEAN) /\ needToSend' \in BOOLEAN
  BY <1>1, <1>3 DEF Status, Line, TypeOK
<1> QED
  BY <1>1, <1>2, <1>3, <1>4, <1>5, <1>6, <1>7, <1>8 DEF TypeOK, FileType

LEMMA ResetTypes ==
  ASSUME TypeOK, Reset
  PROVE  TypeOK'
<1>1. file \in FileType /\ reported \in Line(BOOLEAN)
  BY DEF TypeOK, FileType
<1>2. CASE Restart
  BY <1>1, <1>2, SetupTypes DEF Restart
<1>3. CASE RestartInSave
  <2>1. \A relay \in BOOLEAN : [Nothing EXCEPT !.relay = {relay}] \in FileType
    BY DEF Nothing, FileType, Line
  <2>2. Nothing \in FileType
    BY DEF Nothing, FileType, Line
  <2> QED
    BY <1>1, <1>3, <2>1, <2>2, SetupTypes DEF RestartInSave
<1> QED
  BY <1>2, <1>3 DEF Reset

LEMMA HeartbeatTypes ==
  ASSUME TypeOK, NEW hb \in Requests, Heartbeat(hb)
  PROVE  TypeOK'
<1>1. hb \in Clock
  BY HeartbeatAssumption, ClockAssumption DEF Clock
<1>2. file' \in FileType /\ saveFailed' \in BOOLEAN
  BY <1>1, SaveTypes DEF Heartbeat, TypeOK, FileType
<1> QED
  BY <1>1, <1>2
     DEF Heartbeat, TypeOK, FileType, clockVars, buttonVars

LEMMA StepTypes == TypeOK /\ [Next]_vars => TypeOK'
<1> SUFFICES ASSUME TypeOK, [Next]_vars PROVE TypeOK'
  OBVIOUS
<1>1. ASSUME NEW gap \in 0..MaxGap, NEW down \in BOOLEAN,
             NEW connected \in BOOLEAN, Loop(gap, down, connected)
      PROVE  TypeOK'
  BY <1>1, LoopTypes
<1>2. ASSUME NEW hb \in Requests, Heartbeat(hb) PROVE TypeOK'
  BY <1>2, HeartbeatTypes
<1>3. CASE State
  BY <1>3 DEF State, TypeOK, clockVars, buttonVars
<1>4. CASE Reset
  BY <1>4, ResetTypes
<1>5. CASE UNCHANGED vars
  BY <1>5 DEF TypeOK, vars, clockVars, buttonVars, configVars
<1> QED
  BY <1>1, <1>2, <1>3, <1>4, <1>5 DEF Next

LEMMA InitTypes == Init => TypeOK
<1> SUFFICES ASSUME Init PROVE TypeOK
  OBVIOUS
<1>1. /\ now \in Clock /\ pressed \in Clock /\ lastSend \in Clock
      /\ sinceSend \in 0..Modulus /\ sinceDown \in 0..(Debounce + 1)
  BY ClockAssumption DEF Init, Clock
<1>2. heartbeat \in Clock
  BY LimitsInClock DEF Init
<1>3. file \in FileType
  BY DEF Init, Nothing, FileType, Line
<1> QED
  BY <1>1, <1>2, <1>3 DEF Init, TypeOK, FileType, Line

\* The clock, the times kept of it, the heartbeat and the file keep their
\* types, wherever millis() wraps around and whatever a reset leaves of the
\* file.
THEOREM SensorTypes == Spec => []TypeOK
<1>1. Init => TypeOK
  BY InitTypes
<1>2. TypeOK /\ [Next]_vars => TypeOK'
  BY StepTypes
<1> QED
  BY <1>1, <1>2, PTL DEF Spec

-----------------------------------------------------------------------------
(* The button.                                                             *)

\* Either the button counts as released, or pressed is the time at which it
\* was seen down last, not longer than Debounce ago.
ButtonInv ==
    /\ settled <=> sinceDown > Debounce
    /\ settled \/ downAtZero => pressed = 0
    /\ ~(settled \/ downAtZero) =>
          pressed # 0 /\ Minus(now, pressed) = sinceDown

LEMMA ButtonLoop ==
  ASSUME TypeOK, ButtonInv, NEW gap \in 0..MaxGap, NEW down \in BOOLEAN,
         NEW connected \in BOOLEAN, Loop(gap, down, connected)
  PROVE  ButtonInv'
<1> DEFINE t == Later(gap)
           since == Upto(Debounce + 1, sinceDown + gap)
<1>1. /\ now' = t
      /\ pressed' = IF down THEN t
                    ELSE IF Minus(t, pressed) > Debounce THEN 0 ELSE pressed
      /\ sinceDown' = IF down THEN 0 ELSE since
      /\ settled' = (~down /\ (settled \/ since > Debounce))
      /\ downAtZero' = IF down THEN t = 0 ELSE downAtZero
  BY DEF Loop, Button, ButtonHistory
<1>2. t \in Clock
  <2>1. now + gap \in Int
    BY ClockAssumption DEF TypeOK, Clock
  <2> QED
    BY <2>1, OneTurn DEF Later
<1>3. /\ sinceDown \in Nat /\ gap \in Nat /\ Debounce \in Nat
      /\ settled \in BOOLEAN /\ downAtZero \in BOOLEAN
  BY ClockAssumption DEF TypeOK
<1>4. since > Debounce <=> sinceDown + gap > Debounce
  BY <1>3 DEF Upto
<1>5. CASE down
  <2>1. pressed' = t /\ now' = t /\ Minus(t, t) = 0
    BY <1>1, <1>2, <1>5, MinusSelf
  <2>2. sinceDown' = 0 /\ ~settled' /\ (downAtZero' <=> t = 0)
    BY <1>1, <1>5
  <2> HIDE DEF t
  <2>3. Minus(now', pressed') = 0
    BY <2>1
  <2> QED
    BY <1>3, <2>1, <2>2, <2>3 DEF ButtonInv
<1>6. CASE ~down /\ (settled \/ downAtZero)
  <2>1. pressed' = 0
    BY <1>1, <1>6 DEF ButtonInv
  <2>2. settled' <=> sinceDown' > Debounce
    BY <1>1, <1>3, <1>4, <1>6 DEF ButtonInv
  <2>3. settled' \/ downAtZero'
    BY <1>1, <1>6
  <2> QED
    BY <2>1, <2>2, <2>3 DEF ButtonInv
<1>7. CASE ~down /\ ~(settled \/ downAtZero)
  <2>1. Minus(now, pressed) = sinceDown /\ sinceDown <= Debounce /\ pressed # 0
    BY <1>3, <1>7 DEF ButtonInv
  <2>2. Minus(now, pressed) + gap < Modulus
    BY <1>3, <2>1, ClockAssumption
  <2>3. Minus(t, pressed) = sinceDown + gap
    BY <2>1, <2>2, GapAdds DEF TypeOK, Later
  <2> HIDE DEF t
  <2>4. since = sinceDown + gap \/ since > Debounce
    BY <1>3 DEF Upto
  <2> HIDE DEF since
  <2> QED
    BY <1>1, <1>3, <1>4, <1>7, <2>1, <2>3, <2>4 DEF ButtonInv
<1> QED
  BY <1>5, <1>6, <1>7

\* The two clocks of the button agree: that of loop(), which wraps around and
\* forgets the time at which the button was released, with one that does not.
THEOREM ButtonReleased == Spec => []ReleasedWhenSettled
<1>1. Init => ButtonInv
  BY ClockAssumption DEF Init, ButtonInv
<1>2. ASSUME TypeOK, ButtonInv, [Next]_vars PROVE ButtonInv'
  <2>1. ASSUME NEW gap \in 0..MaxGap, NEW down \in BOOLEAN,
               NEW connected \in BOOLEAN, Loop(gap, down, connected)
        PROVE  ButtonInv'
    BY <1>2, <2>1, ButtonLoop
  <2>2. ASSUME NEW hb \in Requests, Heartbeat(hb) PROVE ButtonInv'
    BY <1>2, <2>2 DEF Heartbeat, ButtonInv, clockVars, buttonVars
  <2>3. CASE State
    BY <1>2, <2>3 DEF State, ButtonInv, clockVars, buttonVars
  <2>4. CASE Reset
    BY <2>4, ClockAssumption DEF Reset, Restart, RestartInSave, Setup, ButtonInv
  <2>5. CASE UNCHANGED vars
    BY <1>2, <2>5 DEF ButtonInv, vars, clockVars, buttonVars
  <2> QED
    BY <1>2, <2>1, <2>2, <2>3, <2>4, <2>5 DEF Next
<1>3. ButtonInv => ReleasedWhenSettled
  BY DEF ButtonInv, ReleasedWhenSettled
<1> QED
  BY <1>1, <1>2, <1>3, SensorTypes, PTL DEF Spec

-----------------------------------------------------------------------------
(* What a reset restores.                                                  *)

Saved(f, relay, hb) == RelayOf(f) = relay /\ HeartbeatOf(f) = Clamp(hb)

FileInv == ~stateChanged /\ ~saveFailed => Saved(file, relayState, heartbeat)

LEMMA WrittenIsSaved ==
  ASSUME NEW relay \in BOOLEAN, NEW hb \in Clock
  PROVE  Saved(Written(relay, hb), relay, hb)
<1> DEFINE f == Written(relay, hb)
<1>1. f.relay = {relay} /\ f.heartbeat = {hb}
  BY DEF Written
<1>2. f.heartbeat \in Line(Clock)
  BY <1>1 DEF Line
<1> HIDE DEF f
<1>3. HeartbeatOf(f) = Clamp(hb)
  BY <1>1, <1>2, HeartbeatOfFile
<1>4. RelayOf(f) = relay
  <2>1. RelayOf(f) <=> relay = TRUE
    BY <1>1 DEF RelayOf
  <2>2. RelayOf(f) \in BOOLEAN
    BY DEF RelayOf
  <2> QED
    BY <2>1, <2>2
<1> QED
  BY <1>3, <1>4 DEF f, Saved

LEMMA SetupIsSaved ==
  ASSUME Setup, file' \in FileType
  PROVE  FileInv'
<1>1. HeartbeatOf(file') \in Least..Most
  BY HeartbeatOfFile DEF FileType
<1>2. Clamp(HeartbeatOf(file')) = HeartbeatOf(file')
  BY <1>1, ClampKeeps
<1>3. relayState' = RelayOf(file') /\ heartbeat' = HeartbeatOf(file')
  BY DEF Setup
<1> QED
  BY <1>2, <1>3 DEF FileInv, Saved

LEMMA FileStep ==
  ASSUME TypeOK, TypeOK', FileInv, [Next]_vars
  PROVE  FileInv'
<1>0. file' \in FileType /\ relayState \in BOOLEAN /\ heartbeat \in Clock
  BY DEF TypeOK, FileType
<1>1. ASSUME NEW gap \in 0..MaxGap, NEW down \in BOOLEAN,
             NEW connected \in BOOLEAN, Loop(gap, down, connected)
      PROVE  FileInv'
  <2> DEFINE toggles == down /\ pressed = 0
             relay == relayState # toggles
             changed == stateChanged \/ toggles
  <2>1. /\ relayState' = relay /\ heartbeat' = heartbeat
        /\ \/ changed /\ SaveConfig(relay, heartbeat)
           \/ ~changed /\ UNCHANGED <<file, saveFailed>>
    BY <1>1 DEF Loop
  <2>2. relay \in BOOLEAN
    OBVIOUS
  <2>3. CASE changed /\ SaveConfig(relay, heartbeat)
    <3>1. Saved(Written(relay, heartbeat), relay, heartbeat)
      BY <1>0, <2>2, WrittenIsSaved
    <3> QED
      BY <2>1, <2>3, <3>1 DEF SaveConfig, FileInv
  <2>4. CASE ~changed /\ UNCHANGED <<file, saveFailed>>
    <3>1. ~stateChanged /\ relay = relayState
      BY <1>0, <2>4
    <3> QED
      BY <2>1, <2>4, <3>1 DEF FileInv
  <2> QED
    BY <2>1, <2>3, <2>4
<1>2. ASSUME NEW hb \in Requests, Heartbeat(hb) PROVE FileInv'
  <2>1. hb \in Clock
    BY HeartbeatAssumption, ClockAssumption DEF Clock
  <2>2. Saved(Written(relayState, hb), relayState, hb)
    BY <1>0, <2>1, WrittenIsSaved
  <2> QED
    BY <1>2, <2>2 DEF Heartbeat, SaveConfig, FileInv
<1>3. CASE State
  BY <1>3 DEF State, FileInv
<1>4. CASE Reset
  BY <1>0, <1>4, SetupIsSaved DEF Reset, Restart, RestartInSave
<1>5. CASE UNCHANGED vars
  BY <1>5 DEF FileInv, vars, configVars
<1> QED
  BY <1>1, <1>2, <1>3, <1>4, <1>5 DEF Next

LEMMA InitSaved == Init => FileInv
<1> SUFFICES ASSUME Init PROVE FileInv
  OBVIOUS
<1>1. HeartbeatOf(file) = Default
  BY DEF Init, Nothing, HeartbeatOf
<1>2. Clamp(Default) = Default
  BY LimitsInClock, ClampKeeps
<1>3. RelayOf(file) = FALSE
  BY DEF Init, Nothing, RelayOf
<1> QED
  BY <1>1, <1>2, <1>3 DEF Init, FileInv, Saved

\* What setup() reads is what was running, the heartbeat within its limits,
\* unless loop() has still to save a switched relay or the last save failed:
\* no message, no press of the button and no earlier reset leaves the file
\* behind what it should hold.
THEOREM ResetsRestore == Spec => RestartRestores
<1>1. ASSUME FileInv, Restart, ~stateChanged, ~saveFailed
      PROVE  relayState' = relayState /\ heartbeat' = Clamp(heartbeat)
  BY <1>1 DEF FileInv, Saved, Restart, Setup
<1>2. Spec => []FileInv
  BY InitSaved, FileStep, SensorTypes, PTL DEF Spec
<1> QED
  BY <1>1, <1>2, PTL DEF RestartRestores

-----------------------------------------------------------------------------
(* The heartbeat.                                                          *)

\* Either a status is needed already, or lastSend is the time of the last
\* one, and that is not so long ago that the clock could have passed it.
SendInv ==
    /\ heartbeat + MaxGap < Modulus
    /\ \/ needToSend
       \/ sinceSend + MaxGap < Modulus /\ Minus(now, lastSend) = sinceSend

\* What a call of loop() finds: if no status is due, none was due for longer.
LEMMA NotDue ==
  ASSUME TypeOK, SendInv, ~needToSend, NEW gap \in 0..MaxGap,
         ~IsDue(Later(gap))
  PROVE  /\ Upto(Modulus, sinceSend + gap) = sinceSend + gap
         /\ Minus(Later(gap), lastSend) = sinceSend + gap
         /\ sinceSend + gap <= heartbeat
<1>1. /\ sinceSend \in Nat /\ gap \in Nat /\ gap <= MaxGap
      /\ MaxGap \in Nat /\ Modulus \in Nat /\ heartbeat \in Nat
  BY ClockAssumption DEF TypeOK, Clock
<1>2. Minus(now, lastSend) = sinceSend /\ sinceSend + gap < Modulus
  BY <1>1 DEF SendInv
<1>3. Minus(Later(gap), lastSend) = sinceSend + gap
  BY <1>2, GapAdds DEF TypeOK, Later
<1>4. ~(sinceSend + gap > heartbeat)
  BY <1>3 DEF IsDue
<1> QED
  BY <1>1, <1>2, <1>3, <1>4 DEF Upto

LEMMA SendStep ==
  ASSUME TypeOK, TypeOK', SendInv, [Next]_vars
  PROVE  SendInv'
<1>0. Modulus \in Nat \ {0} /\ MaxGap \in Nat /\ MaxGap < Modulus
  BY ClockAssumption
<1>1. ASSUME NEW gap \in 0..MaxGap, NEW down \in BOOLEAN,
             NEW connected \in BOOLEAN, Loop(gap, down, connected)
      PROVE  SendInv'
  <2> DEFINE t == Later(gap)
             toggles == down /\ pressed = 0
             relay == relayState # toggles
             changed == stateChanged \/ toggles
             send == needToSend \/ changed \/ IsDue(t)
  <2>1. now' = t /\ heartbeat' = heartbeat
        /\ Status(t, gap, send, connected, relay)
    BY <1>1 DEF Loop
  <2>2. t \in Clock
    BY <2>1 DEF TypeOK
  <2>3. CASE connected /\ send
    <3>1. lastSend' = t /\ sinceSend' = 0
      BY <2>1, <2>3 DEF Status
    <3> QED
      BY <1>0, <2>1, <2>2, <3>1, MinusSelf DEF SendInv
  <2>4. CASE ~connected /\ send
    BY <2>1, <2>4 DEF Status, SendInv
  <2>5. CASE ~send
    <3>1. ~needToSend /\ ~IsDue(t)
      BY <2>5
    <3>2. /\ sinceSend' = Upto(Modulus, sinceSend + gap)
          /\ lastSend' = lastSend
      BY <2>1, <2>5 DEF Status
    <3>3. /\ Upto(Modulus, sinceSend + gap) = sinceSend + gap
          /\ Minus(t, lastSend) = sinceSend + gap
          /\ sinceSend + gap <= heartbeat
      BY <3>1, NotDue
    <3>4. /\ sinceSend \in Nat /\ gap \in Nat /\ heartbeat \in Nat
      BY <1>0 DEF TypeOK, Clock
    <3> HIDE DEF t
    <3>5. sinceSend + gap + MaxGap < Modulus
      BY <1>0, <3>3, <3>4 DEF SendInv
    <3> QED
      BY <2>1, <3>2, <3>3, <3>5 DEF SendInv
  <2> QED
    BY <2>3, <2>4, <2>5
<1>2. ASSUME NEW hb \in Requests, Heartbeat(hb) PROVE SendInv'
  <2>1. hb + MaxGap < Modulus
    BY <1>0, HeartbeatAssumption
  <2> QED
    BY <1>2, <2>1 DEF Heartbeat, SendInv, clockVars
<1>3. CASE State
  BY <1>3 DEF State, SendInv, clockVars
<1>4. CASE Reset
  <2>1. Setup /\ file' \in FileType
    BY <1>4 DEF Reset, Restart, RestartInSave, TypeOK, FileType
  <2>2. HeartbeatOf(file') \in Least..Most
    BY <2>1, HeartbeatOfFile DEF FileType
  <2>3. heartbeat' + MaxGap < Modulus
    BY <2>1, <2>2, LimitsInClock DEF Setup
  <2>4. now' = BootDelay /\ lastSend' = 0 /\ sinceSend' = BootDelay
    BY <2>1 DEF Setup
  <2>5. Minus(BootDelay, 0) = BootDelay /\ BootDelay + MaxGap < Modulus
    <3>1. BootDelay \in Clock /\ BootDelay - 0 = BootDelay
      BY ClockAssumption DEF Clock
    <3> QED
      BY <3>1, ClockAssumption, OneTurn DEF Minus, Clock
  <2> QED
    BY <2>3, <2>4, <2>5 DEF SendInv
<1>5. CASE UNCHANGED vars
  BY <1>5 DEF SendInv, vars, clockVars, configVars
<1> QED
  BY <1>1, <1>2, <1>3, <1>4, <1>5 DEF Next

LEMMA InitSend == Init => SendInv
<1> SUFFICES ASSUME Init PROVE SendInv
  OBVIOUS
<1>1. heartbeat + MaxGap < Modulus
  BY LimitsInClock DEF Init
<1>2. BootDelay \in Clock /\ BootDelay - 0 = BootDelay
  BY ClockAssumption DEF Clock
<1>3. Minus(BootDelay, 0) = BootDelay
  BY <1>2, OneTurn DEF Minus, Clock
<1> QED
  BY <1>1, <1>3, ClockAssumption DEF Init, SendInv

\* After every call of loop() on a connected node, the last status is no
\* longer ago than the heartbeat, by a clock that does not wrap around: the
\* unsigned difference with lastSend is never taken more than once around
\* the clock without needToSend remembering that a status is due.
THEOREM StatusNeverLate == Spec => StatusInTime
<1>1. ASSUME TypeOK, SendInv, NEW gap \in 0..MaxGap, NEW down \in BOOLEAN,
             Loop(gap, down, TRUE)
      PROVE  sinceSend' <= heartbeat
  <2> DEFINE t == Later(gap)
             toggles == down /\ pressed = 0
             changed == stateChanged \/ toggles
             send == needToSend \/ changed \/ IsDue(t)
  <2>1. Status(t, gap, send, TRUE, relayState # toggles)
    BY <1>1 DEF Loop
  <2>2. CASE send
    <3>1. sinceSend' = 0
      BY <2>1, <2>2 DEF Status
    <3> QED
      BY <1>1, <3>1, ClockAssumption DEF TypeOK, Clock
  <2>3. CASE ~send
    <3>1. sinceSend' = Upto(Modulus, sinceSend + gap)
      BY <2>1, <2>3 DEF Status
    <3>2. ~needToSend /\ ~IsDue(t)
      BY <2>3
    <3> QED
      BY <1>1, <3>1, <3>2, NotDue
  <2> QED
    BY <2>2, <2>3
<1>2. Spec => []SendInv
  BY InitSend, SendStep, SensorTypes, PTL DEF Spec
<1>3. TypeOK /\ SendInv =>
        \A gap \in 0..MaxGap, down \in BOOLEAN :
            Loop(gap, down, TRUE) => sinceSend' <= heartbeat
  BY <1>1
<1> QED
  BY <1>2, <1>3, SensorTypes, PTL DEF StatusInTime

-----------------------------------------------------------------------------
(* Sums of readings.                                                       *)

\* A set of numbers that is not empty has a least one.
LEMMA LeastNumber ==
  ASSUME NEW S \in SUBSET Nat, S # {}
  PROVE  \E n \in S : \A m \in S : n <= m
<1>1. PICK n \in S : \A m \in S : ~ (<<m, n>> \in OpToRel(<, Nat))
  BY NatLessThanWellFounded, WFMin
<1>2. ASSUME NEW m \in S PROVE n <= m
  <2>1. m < n => <<m, n>> \in OpToRel(<, Nat)
    BY DEF OpToRel
  <2>2. ~(m < n) /\ m \in Nat /\ n \in Nat
    BY <1>1, <2>1
  <2> QED
    BY <2>2
<1> QED
  BY <1>2

\* f holds the sums of the values of g up to n.
Sums(f, g, n) ==
    /\ f \in [0..n -> Int]
    /\ f[0] = 0
    /\ \A i \in 1..n : f[i] = f[i - 1] + g[i]

SumsTo(g, n) == CHOOSE f : Sums(f, g, n)
SumOf(g) == [n \in Nat |-> SumsTo(g, n)[n]]

LEMMA SumsExist ==
  ASSUME NEW g \in [Nat -> Int]
  PROVE  \A n \in Nat : \E f : Sums(f, g, n)
<1> DEFINE Missing == {n \in Nat : ~ \E f : Sums(f, g, n)}
<1> SUFFICES ASSUME Missing # {} PROVE FALSE
  OBVIOUS
<1>1. PICK n \in Missing : \A m \in Missing : n <= m
  BY LeastNumber
<1>2. n # 0
  <2> DEFINE f == [i \in 0..0 |-> 0]
  <2>1. Sums(f, g, 0)
    BY DEF Sums
  <2> QED
    BY <2>1
<1>3. n - 1 \in Nat /\ n - 1 \notin Missing
  BY <1>1, <1>2
<1>4. PICK f : Sums(f, g, n - 1)
  BY <1>3
<1> DEFINE h == [i \in 0..n |-> IF i = n THEN f[n - 1] + g[n] ELSE f[i]]
<1>5. n \in Nat /\ f \in [0..(n - 1) -> Int] /\ f[0] = 0
      /\ \A i \in 1..(n - 1) : f[i] = f[i - 1] + g[i]
  BY <1>4 DEF Sums
<1>6. h \in [0..n -> Int]
  BY <1>2, <1>5
<1>7. h[0] = 0
  BY <1>2, <1>5
<1>8. ASSUME NEW i \in 1..n PROVE h[i] = h[i - 1] + g[i]
  <2>1. i \in 0..n /\ i - 1 \in 0..n /\ i - 1 # n
    BY <1>5
  <2>2. h[i - 1] = f[i - 1] /\ h[i] = IF i = n THEN f[n - 1] + g[n] ELSE f[i]
    BY <2>1
  <2>3. CASE i = n
    BY <2>2, <2>3
  <2>4. CASE i # n
    <3>1. i \in 1..(n - 1)
      BY <1>5, <2>4
    <3> QED
      BY <1>5, <2>2, <2>4, <3>1
  <2> QED
    BY <2>3, <2>4
<1>9. Sums(h, g, n)
  BY <1>6, <1>7, <1>8, Zenon DEF Sums
<1> QED
  BY <1>1, <1>9

LEMMA SumsUnique ==
  ASSUME NEW g, NEW n \in Nat, NEW m \in 0..n, NEW e, NEW f,
         Sums(e, g, m), Sums(f, g, n)
  PROVE  \A i \in 0..m : e[i] = f[i]
<1> DEFINE Differ == {i \in 0..m : e[i] # f[i]}
<1> SUFFICES ASSUME Differ # {} PROVE FALSE
  OBVIOUS
<1>1. Differ \in SUBSET Nat
  OBVIOUS
<1> HIDE DEF Differ
<1>2. PICK i \in Differ : \A j \in Differ : i <= j
  BY <1>1, LeastNumber
<1> USE DEF Differ
<1>3. i # 0
  BY DEF Sums
<1>4. i - 1 \in 0..m /\ i - 1 \notin Differ
  BY <1>2, <1>3
<1>5. e[i - 1] = f[i - 1] /\ i \in 1..m /\ i \in 1..n
  BY <1>3, <1>4
<1> QED
  BY <1>5 DEF Sums

\* The recursive function that adds up g.
AddsUp(f, g) ==
    /\ f = [n \in Nat |-> IF n = 0 THEN 0 ELSE f[n - 1] + g[n]]
    /\ f \in [Nat -> Int]

LEMMA SumOfAddsUp ==
  ASSUME NEW g \in [Nat -> Int]
  PROVE  AddsUp(SumOf(g), g)
<1>1. ASSUME NEW n \in Nat PROVE Sums(SumsTo(g, n), g, n)
  BY SumsExist, Zenon DEF SumsTo
<1>2. ASSUME NEW n \in Nat PROVE SumOf(g)[n] \in Int /\ SumOf(g)[0] = 0
  BY <1>1 DEF Sums, SumOf
<1>3. ASSUME NEW n \in Nat \ {0} PROVE SumOf(g)[n] = SumOf(g)[n - 1] + g[n]
  <2>1. n \in Nat /\ n - 1 \in 0..n /\ n - 1 \in Nat
    OBVIOUS
  <2>2. Sums(SumsTo(g, n), g, n) /\ Sums(SumsTo(g, n - 1), g, n - 1)
    BY <1>1, <2>1
  <2>3. \A i \in 0..(n - 1) : SumsTo(g, n - 1)[i] = SumsTo(g, n)[i]
    BY <2>1, <2>2, SumsUnique
  <2>4. SumsTo(g, n - 1)[n - 1] = SumsTo(g, n)[n - 1]
    BY <2>1, <2>3
  <2>5. SumsTo(g, n)[n] = SumsTo(g, n)[n - 1] + g[n]
    BY <2>2 DEF Sums
  <2> QED
    BY <2>1, <2>4, <2>5 DEF SumOf
<1>4. SumOf(g) = [n \in Nat |-> IF n = 0 THEN 0 ELSE SumOf(g)[n - 1] + g[n]]
  <2> DEFINE G == [n \in Nat |-> IF n = 0 THEN 0 ELSE SumOf(g)[n - 1] + g[n]]
  <2>1. ASSUME NEW n \in Nat PROVE SumOf(g)[n] = G[n]
    <3>1. CASE n = 0
      BY <1>2, <3>1
    <3>2. CASE n # 0
      BY <1>3, <3>2
    <3> QED
      BY <3>1, <3>2
  <2>2. SumOf(g) = [n \in Nat |-> SumOf(g)[n]]
    BY DEF SumOf
  <2> QED
    BY <2>1, <2>2
<1>5. SumOf(g) \in [Nat -> Int]
  BY <1>2 DEF SumOf
<1> QED
  BY <1>4, <1>5 DEF AddsUp

\* The total of Meter.tla is such a function.
TotalsAreSums ==
    (\A n \in Nat : Counts(n - 2) \in Int)
      => /\ Total \in [Nat -> Int]
         /\ Total[0] = 0
         /\ \A n \in Nat \ {0} : Total[n] = Total[n - 1] + Counts(n - 2)

LEMMA TotalAddsUp == TotalsAreSums
<1> SUFFICES ASSUME \A n \in Nat : Counts(n - 2) \in Int
             PROVE  /\ Total \in [Nat -> Int]
                    /\ Total[0] = 0
                    /\ \A n \in Nat \ {0} :
                          Total[n] = Total[n - 1] + Counts(n - 2)
  BY DEF TotalsAreSums
<1> DEFINE g == [n \in Nat |-> Counts(n - 2)]
           Equation(f) ==
             f = [n \in Nat |-> IF n = 0 THEN 0 ELSE f[n - 1] + Counts(n - 2)]
<1>1. g \in [Nat -> Int]
  OBVIOUS
<1>2. AddsUp(SumOf(g), g)
  BY <1>1, SumOfAddsUp
<1>3. Equation(SumOf(g))
  BY <1>2, Zenon DEF AddsUp
<1>4. Total = CHOOSE f : Equation(f)
  BY DEF Total
<1>5. Equation(Total)
  BY <1>3, <1>4
<1> HIDE DEF g
<1>6. /\ Total = [n \in Nat |-> Total[n]]
      /\ Total[0] = 0
      /\ \A n \in Nat \ {0} : Total[n] = Total[n - 1] + Counts(n - 2)
  BY <1>5
<1>7. ASSUME NEW n \in Nat PROVE Total[n] \in Int
  <2> DEFINE Others == {m \in Nat : Total[m] \notin Int}
  <2> SUFFICES ASSUME Others # {} PROVE FALSE
    OBVIOUS
  <2>1. PICK m \in Others : \A k \in Others : m <= k
    BY LeastNumber
  <2>2. m # 0
    BY <1>6
  <2>3. m - 1 \in Nat /\ m - 1 \notin Others
    BY <2>1, <2>2
  <2> QED
    BY <1>6, <2>1, <2>2, <2>3
<1> QED
  BY <1>6, <1>7

-----------------------------------------------------------------------------
(* The meter.                                                              *)

Raws == 0..MaxReading
Statuses == [average : [sum : Int, count : Int], at : Int]

\* The samples before the last status.
LastAt == Before(Len(sent) + 1)

\* The window holds what the readings that left it and the one that is next
\* to leave it count for, and the last one.
WindowInv ==
    LET n == Len(samples)
    IN  /\ power = <<Counts(n - 2), Counts(n - 1), At(n)>>
        /\ energy = Total[n]

\* The sums run from the last status on, and none has more samples before it
\* than there have been.
SumsInv ==
    LET n == Len(samples)
    IN  /\ \A k \in 1..Len(sent) : sent[k].at \in 0..n
        /\ power_sum = Total[n] - Total[LastAt]
        /\ power_sample_count = n - LastAt

MeterInv ==
    /\ samples \in Seq(Raws) /\ sent \in Seq(Statuses)
    /\ WindowInv /\ SumsInv /\ ReadingsCountedOnce

ReadingsAreNumbers ==
    samples \in Seq(Raws) => \A i \in Int : At(i) \in Nat /\ Counts(i) \in Nat

LEMMA ReadingTypes == ReadingsAreNumbers
<1> SUFFICES ASSUME samples \in Seq(Raws), NEW i \in Int
             PROVE  At(i) \in Nat /\ Counts(i) \in Nat
  BY DEF ReadingsAreNumbers
<1>1. ASSUME NEW j \in Int PROVE At(j) \in Nat
  <2>1. ASSUME j \in 1..Len(samples) PROVE samples[j] \in 0..MaxReading
    <3>1. samples[j] \in Raws
      BY <2>1
    <3> QED
      BY <3>1 DEF Raws
  <2> QED
    BY <2>1, MeterAssumption DEF At, Reading
<1> QED
  BY <1>1 DEF Counts

\* What the total is, by the lemma on sums.
LEMMA TotalIs ==
  ASSUME samples \in Seq(Raws)
  PROVE  /\ Total \in [Nat -> Int] /\ Total[0] = 0
         /\ \A m \in Nat \ {0} : Total[m] = Total[m - 1] + Counts(m - 2)
<1>1. \A m \in Nat : m - 2 \in Int
  OBVIOUS
<1>2. \A m \in Nat : Counts(m - 2) \in Int
  BY <1>1, ReadingTypes DEF ReadingsAreNumbers
<1> QED
  BY <1>2, TotalAddsUp, Zenon DEF TotalsAreSums

TotalIsTyped == samples \in Seq(Raws) => Total \in [Nat -> Int]

LEMMA TotalTyped == TotalIsTyped
  BY TotalIs DEF TotalIsTyped

LEMMA MeterStarts == MeterInit => MeterInv
<1> SUFFICES ASSUME MeterInit PROVE MeterInv
  OBVIOUS
<1>1. /\ power = <<0, 0, 0>> /\ power_sum = 0 /\ power_sample_count = 0
      /\ energy = 0 /\ sent = <<>> /\ samples = <<>>
  BY DEF MeterInit
<1>2. /\ Len(samples) = 0 /\ Len(sent) = 0
      /\ samples \in Seq(Raws) /\ sent \in Seq(Statuses)
  BY <1>1
<1>3. \A i \in Int : At(i) = 0 /\ Counts(i) = 0
  BY <1>2 DEF At, Counts
<1>4. Total[0] = 0
  BY <1>2, TotalIs
<1>5. LastAt = 0
  BY <1>2 DEF LastAt, Before
<1>6. WindowInv
  BY <1>1, <1>2, <1>3, <1>4 DEF WindowInv
<1>7. SumsInv
  BY <1>1, <1>2, <1>4, <1>5 DEF SumsInv
<1>8. ReadingsCountedOnce
  BY <1>1, <1>2, <1>4 DEF ReadingsCountedOnce
<1> QED
  BY <1>2, <1>6, <1>7, <1>8 DEF MeterInv

\* What a sample leaves as it was.
LEMMA SampleKeeps ==
  ASSUME samples \in Seq(Raws), NEW raw \in Raws,
         samples' = Append(samples, raw)
  PROVE  LET n == Len(samples)
         IN  /\ samples' \in Seq(Raws)
             /\ Len(samples') = n + 1 /\ n \in Nat
             /\ \A i \in Int : i <= n => At(i)' = At(i)
             /\ \A i \in Int : i <= n - 1 => Counts(i)' = Counts(i)
             /\ \A i \in Int : i = n + 1 => At(i)' = Reading(raw)
<1> DEFINE n == Len(samples)
<1>1. /\ samples' \in Seq(Raws) /\ n \in Nat /\ Len(samples') = n + 1
      /\ \A i \in 1..n : samples'[i] = samples[i]
      /\ samples'[n + 1] = raw
  OBVIOUS
<1> HIDE DEF n
<1>2. \A i \in Int : i <= n => At(i)' = At(i)
  BY <1>1 DEF At, Reading, n
<1>3. \A i \in Int : i <= n - 1 => Counts(i)' = Counts(i)
  BY <1>1, <1>2 DEF Counts
<1>4. \A i \in Int : i = n + 1 => At(i)' = Reading(raw)
  BY <1>1 DEF At, Reading, n
<1> QED
  BY <1>1, <1>2, <1>3, <1>4 DEF n

\* The total up to the sample and the one after it.
LEMMA TotalKeeps ==
  ASSUME samples \in Seq(Raws), NEW raw \in Raws,
         samples' = Append(samples, raw)
  PROVE  LET n == Len(samples)
         IN  /\ \A m \in 0..(n + 1) : Total'[m] = Total[m] /\ Total[m] \in Int
             /\ Total'[n + 1] = Total[n] + Counts(n - 1)
<1> DEFINE n == Len(samples)
           Differ == {m \in 0..(n + 1) : Total'[m] # Total[m]}
<1>1. /\ samples' \in Seq(Raws) /\ n \in Nat
      /\ \A i \in Int : i <= n - 1 => Counts(i)' = Counts(i)
  BY SampleKeeps
<1> HIDE DEF n
<1>2. /\ Total \in [Nat -> Int] /\ Total[0] = 0
      /\ \A m \in Nat \ {0} : Total[m] = Total[m - 1] + Counts(m - 2)
  BY TotalIs
<1>3. ReadingsAreNumbers' /\ TotalsAreSums'
  BY ReadingTypes, TotalAddsUp, PTL
<1>4. /\ Total'[0] = 0
      /\ \A m \in Nat \ {0} : Total'[m] = Total'[m - 1] + Counts(m - 2)'
  <2>1. \A m \in Nat : m - 2 \in Int
    OBVIOUS
  <2>2. \A m \in Nat : Counts(m - 2)' \in Int
    BY <1>1, <1>3, <2>1 DEF ReadingsAreNumbers
  <2> QED
    BY <1>3, <2>2, Zenon DEF TotalsAreSums
<1>5. ASSUME NEW m \in 0..(n + 1) PROVE Total'[m] = Total[m]
  <2> SUFFICES ASSUME Differ # {} PROVE FALSE
    OBVIOUS
  <2>1. Differ \in SUBSET Nat
    OBVIOUS
  <2> HIDE DEF Differ
  <2>2. PICK d \in Differ : \A k \in Differ : d <= k
    BY <2>1, LeastNumber
  <2> USE DEF Differ
  <2>3. d # 0
    BY <1>2, <1>4
  <2>4. d - 1 \in 0..(n + 1) /\ d - 1 \notin Differ /\ d \in Nat
    <3>1. d \in 0..(n + 1) /\ d - 1 < d
      BY <1>1, <2>2
    <3> QED
      BY <1>1, <2>2, <2>3, <3>1
  <2>5. Counts(d - 2)' = Counts(d - 2)
    BY <1>1, <2>4
  <2>6. Total'[d - 1] = Total[d - 1]
    BY <2>4
  <2>7. Total'[d] = Total'[d - 1] + Counts(d - 2)'
    BY <1>4, <2>3, <2>4
  <2>8. Total[d] = Total[d - 1] + Counts(d - 2)
    BY <1>2, <2>3, <2>4
  <2>9. Total'[d] = Total[d]
    BY <2>5, <2>6, <2>7, <2>8
  <2> QED
    BY <2>9
<1>6. Total[n + 1] = Total[n] + Counts(n - 1)
  BY <1>1, <1>2
<1> QED
  BY <1>1, <1>2, <1>5, <1>6 DEF n

\* The window after a sample: what pushed the oldest one out has already been
\* taken for a spike or not, and the one that follows it is now looked at.
LEMMA WindowKeeps ==
  ASSUME samples \in Seq(Raws), WindowInv, NEW raw \in Raws,
         samples' = Append(samples, raw),
         power' = Despiked(<<power[2], power[3], Reading(raw)>>)
  PROVE  LET n == Len(samples)
         IN  /\ power'[1] = Counts(n - 1)
             /\ power' = <<Counts(Len(samples) - 2), Counts(Len(samples) - 1),
                           At(Len(samples))>>'
<1> DEFINE n == Len(samples)
<1>2. /\ n \in Nat /\ Len(samples') = n + 1
      /\ \A i \in Int : i <= n => At(i)' = At(i)
      /\ \A i \in Int : i <= n - 1 => Counts(i)' = Counts(i)
      /\ \A i \in Int : i = n + 1 => At(i)' = Reading(raw)
  BY SampleKeeps
<1>3. power = <<Counts(n - 2), Counts(n - 1), At(n)>>
  BY DEF WindowInv
<1>4. power' = Despiked(<<power[2], power[3], Reading(raw)>>)
  OBVIOUS
<1> HIDE DEF n
<1>5. \A i \in Int : At(i) \in Nat /\ Counts(i) \in Nat
  BY ReadingTypes DEF ReadingsAreNumbers
<1>6. /\ At(n - 1) \in Nat /\ At(n) \in Nat /\ Counts(n - 1) \in Nat
      /\ n - 1 \in Int /\ n + 1 \in Int /\ n \in Int
  <2>1. n - 1 \in Int /\ n + 1 \in Int /\ n \in Int
    BY <1>2
  <2> QED
    BY <1>5, <2>1
<1>7. power' = <<Counts(n - 1),
                 IF At(n) > 0 /\ Counts(n - 1) = 0 /\ Reading(raw) = 0
                 THEN 0 ELSE At(n),
                 Reading(raw)>>
  BY <1>3, <1>4 DEF Despiked
<1>8. \A i \in Int : i = n - 1 => Counts(i)' = Counts(n - 1)
  BY <1>2
<1>9. \A i \in Int : i = n =>
        Counts(i)' = IF At(n) > 0 /\ Counts(n - 1) = 0 /\ Reading(raw) = 0
                     THEN 0 ELSE At(n)
  <2>1. \A i \in Int : i = n =>
          /\ At(i - 1)' = At(n - 1) /\ At(i)' = At(n)
          /\ At(i + 1)' = Reading(raw)
    <3>1. ASSUME NEW i \in Int, i = n
          PROVE  i - 1 \in Int /\ i - 1 <= n /\ i + 1 \in Int /\ i <= n
      BY <3>1
    <3> QED
      BY <1>2, <3>1
  <2>2. \A i \in Int : i = n =>
          Counts(i)' = IF At(n - 1) = 0 /\ Reading(raw) = 0 THEN 0 ELSE At(n)
    BY <2>1 DEF Counts
  <2>3. At(n) > 0 => (Counts(n - 1) = 0 <=> At(n - 1) = 0)
    BY <1>6 DEF Counts
  <2> QED
    BY <1>6, <2>2, <2>3
<1> DEFINE m == Len(samples)'
<1>10. m = n + 1 /\ m - 2 = n - 1 /\ m - 1 = n /\ m \in Int
  BY <1>2
<1>11. (<<Counts(Len(samples) - 2), Counts(Len(samples) - 1), At(Len(samples))>>)'
       = power'
  BY <1>2, <1>6, <1>7, <1>8, <1>9, <1>10
<1> QED
  BY <1>7, <1>11 DEF n

\* The window, the energy and the sums after the sample that a call of loop()
\* takes, if one is due, and before the status that it sends.
Collected(sum, count) ==
    /\ Len(samples') \in Nat /\ Len(samples) \in 0..Len(samples')
    /\ samples' \in Seq(Raws)
    /\ WindowInv'
    /\ \A m \in 0..Len(samples) : Total'[m] = Total[m]
    /\ sum = Total'[Len(samples')] - Total'[LastAt]
    /\ count = Len(samples') - LastAt

LEMMA LastAtTyped ==
  ASSUME MeterInv
  PROVE  LastAt \in 0..Len(samples) /\ Len(samples) \in Nat
<1>1. sent \in Seq(Statuses) /\ Len(sent) \in Nat /\ Len(samples) \in Nat
  BY DEF MeterInv
<1>2. CASE Len(sent) = 0
  BY <1>1, <1>2 DEF LastAt, Before
<1>3. CASE Len(sent) # 0
  <2>1. Len(sent) \in 1..Len(sent) /\ LastAt = sent[Len(sent)].at
    BY <1>1, <1>3 DEF LastAt, Before
  <2> QED
    BY <1>1, <2>1 DEF MeterInv, SumsInv
<1> QED
  BY <1>2, <1>3

LEMMA SampleCollects ==
  ASSUME MeterInv, NEW raw \in Raws,
         samples' = Append(samples, raw),
         power' = Despiked(<<power[2], power[3], Reading(raw)>>),
         energy' = energy + power'[1]
  PROVE  Collected(power_sum + power'[1], power_sample_count + 1)
<1> DEFINE n == Len(samples)
           last == LastAt
<1>1. samples \in Seq(Raws) /\ WindowInv
  BY DEF MeterInv
<1>2. n \in Nat /\ Len(samples') = n + 1 /\ samples' \in Seq(Raws)
  BY <1>1, SampleKeeps
<1>3. /\ power'[1] = Counts(n - 1)
      /\ power' = <<Counts(Len(samples) - 2), Counts(Len(samples) - 1),
                    At(Len(samples))>>'
  BY <1>1, WindowKeeps
<1>4. /\ \A m \in 0..(n + 1) : Total'[m] = Total[m] /\ Total[m] \in Int
      /\ Total'[n + 1] = Total[n] + Counts(n - 1)
  BY <1>1, TotalKeeps
<1>5. /\ power_sum = Total[n] - Total[last] /\ power_sample_count = n - last
      /\ energy = Total[n] /\ last \in 0..n
  BY LastAtTyped DEF MeterInv, SumsInv, WindowInv
<1>6. Counts(n - 1) \in Nat
  <2>1. n - 1 \in Int
    BY <1>2
  <2> QED
    BY <1>1, <2>1, ReadingTypes DEF ReadingsAreNumbers
<1> HIDE DEF n, last
<1>7. Total[n] \in Int /\ Total[last] \in Int /\ Total'[last] = Total[last]
      /\ last \in Int
  <2>1. n \in 0..(n + 1) /\ last \in 0..(n + 1)
    BY <1>2, <1>5
  <2> QED
    BY <1>4, <2>1
<1>8. WindowInv'
  BY <1>2, <1>3, <1>4, <1>5 DEF WindowInv
<1>9. power_sum + power'[1] = Total'[n + 1] - Total'[last]
  BY <1>3, <1>4, <1>5, <1>6, <1>7
<1>10. power_sample_count + 1 = (n + 1) - last
  BY <1>2, <1>5, <1>7
<1>11. /\ n \in 0..(n + 1) /\ n + 1 \in Nat
       /\ \A m \in 0..n : Total'[m] = Total[m]
  BY <1>2, <1>4
<1> QED
  BY <1>2, <1>8, <1>9, <1>10, <1>11 DEF Collected, n, last

LEMMA NoSampleCollects ==
  ASSUME MeterInv, UNCHANGED <<power, energy, samples>>
  PROVE  Collected(power_sum, power_sample_count)
<1>1. /\ \A i : At(i)' = At(i)
      /\ samples \in Seq(Raws) /\ Len(samples) \in Nat
  BY DEF At, MeterInv
<1>2. \A i : Counts(i)' = Counts(i)
  BY <1>1 DEF Counts
<1>3. Total' = Total
  BY <1>2, Zenon DEF Total
<1>4. WindowInv'
  BY <1>1, <1>2, <1>3 DEF WindowInv, MeterInv
<1>5. /\ power_sum = Total[Len(samples)] - Total[LastAt]
      /\ power_sample_count = Len(samples) - LastAt
  BY DEF MeterInv, SumsInv
<1> QED
  BY <1>1, <1>3, <1>4, <1>5 DEF Collected

\* The statuses that were sent already.
LEMMA SentKeeps ==
  ASSUME MeterInv, NEW sum, NEW count, Collected(sum, count),
         sent' \in Seq(Statuses), Len(sent) <= Len(sent'),
         \A k \in 1..Len(sent) : sent'[k] = sent[k]
  PROVE  /\ \A k \in 1..(Len(sent) + 1) : Before(k)' = Before(k)
         /\ \A k \in 1..Len(sent) :
               /\ sent'[k].at \in 0..Len(samples')
               /\ sent'[k].average =
                     build_json(Total'[sent'[k].at] - Total'[Before(k)'],
                                sent'[k].at - Before(k)')
<1> DEFINE c == Len(sent)
           n == Len(samples)
           N == Len(samples')
<1>1. c \in Nat /\ n \in Nat /\ N \in Nat /\ n <= N
  BY DEF MeterInv, Collected
<1>2. /\ \A k \in 1..c : sent[k].at \in 0..n
      /\ \A k \in 1..c : sent[k].average =
            build_json(Total[sent[k].at] - Total[Before(k)],
                       sent[k].at - Before(k))
      /\ \A m \in 0..n : Total'[m] = Total[m]
  BY DEF MeterInv, SumsInv, ReadingsCountedOnce, Collected
<1>3. ASSUME NEW k \in 1..(c + 1)
      PROVE  Before(k)' = Before(k) /\ Before(k) \in 0..n
  <2>1. CASE k = 1
    BY <1>1, <2>1 DEF Before
  <2>2. CASE k # 1
    <3>1. k - 1 \in 1..c
      BY <1>1, <2>2
    <3> QED
      BY <1>2, <2>2, <3>1 DEF Before
  <2> QED
    BY <2>1, <2>2
<1> HIDE DEF c, n, N
<1>4. ASSUME NEW k \in 1..c
      PROVE  /\ sent'[k].at \in 0..N
             /\ sent'[k].average =
                   build_json(Total'[sent'[k].at] - Total'[Before(k)'],
                              sent'[k].at - Before(k)')
  <2>1. sent'[k] = sent[k] /\ sent[k].at \in 0..n
    BY <1>2 DEF c
  <2>2. Before(k)' = Before(k) /\ Before(k) \in 0..n
    BY <1>1, <1>3
  <2>3. Total'[sent[k].at] = Total[sent[k].at] /\ Total'[Before(k)] = Total[Before(k)]
    BY <1>2, <2>1, <2>2
  <2>4. sent[k].at \in 0..N
    BY <1>1, <2>1
  <2> QED
    BY <1>2, <2>1, <2>2, <2>3, <2>4
<1> QED
  BY <1>3, <1>4 DEF c, N

LEMMA NoStatusKeeps ==
  ASSUME MeterInv, NEW sum, NEW count, Collected(sum, count),
         power_sum' = sum, power_sample_count' = count, sent' = sent
  PROVE  MeterInv'
<1>1. sent' \in Seq(Statuses) /\ Len(sent) \in Nat /\ Len(sent') = Len(sent)
  BY DEF MeterInv
<1>2. /\ \A k \in 1..(Len(sent) + 1) : Before(k)' = Before(k)
      /\ \A k \in 1..Len(sent) :
            /\ sent'[k].at \in 0..Len(samples')
            /\ sent'[k].average =
                  build_json(Total'[sent'[k].at] - Total'[Before(k)'],
                             sent'[k].at - Before(k)')
  BY <1>1, SentKeeps
<1>3. LastAt' = LastAt
  BY DEF LastAt, Before
<1>4. SumsInv'
  BY <1>1, <1>2, <1>3 DEF SumsInv, Collected
<1>5. ReadingsCountedOnce'
  BY <1>1, <1>2 DEF ReadingsCountedOnce, Collected, WindowInv
<1> QED
  BY <1>1, <1>4, <1>5 DEF MeterInv, Collected

LEMMA StatusKeeps ==
  ASSUME MeterInv, NEW sum, NEW count, Collected(sum, count),
         power_sum' = 0, power_sample_count' = 0,
         sent' = Append(sent, [average |-> build_json(sum, count),
                               at |-> Len(samples')])
  PROVE  MeterInv'
<1> DEFINE c == Len(sent)
           N == Len(samples')
           status == [average |-> build_json(sum, count), at |-> N]
<1>1. /\ c \in Nat /\ N \in Nat /\ LastAt \in 0..N /\ samples' \in Seq(Raws)
      /\ sum = Total'[N] - Total'[LastAt] /\ count = N - LastAt
      /\ sent \in Seq(Statuses)
  BY LastAtTyped DEF MeterInv, Collected
<1>2. Total'[N] \in Int /\ Total'[LastAt] \in Int
  <2>1. TotalIsTyped'
    BY TotalTyped, PTL
  <2> QED
    BY <1>1, <2>1 DEF TotalIsTyped
<1>3. status \in Statuses
  BY <1>1, <1>2 DEF Statuses, build_json
<1>4. /\ sent' \in Seq(Statuses) /\ Len(sent') = c + 1
      /\ \A k \in 1..c : sent'[k] = sent[k]
      /\ sent'[c + 1] = status
  BY <1>1, <1>3
<1>5. c <= Len(sent')
  BY <1>1, <1>4
<1>6. /\ \A k \in 1..(c + 1) : Before(k)' = Before(k)
      /\ \A k \in 1..c :
            /\ sent'[k].at \in 0..N
            /\ sent'[k].average =
                  build_json(Total'[sent'[k].at] - Total'[Before(k)'],
                             sent'[k].at - Before(k)')
  BY <1>4, <1>5, SentKeeps
<1>7. sent'[c + 1].at = N /\ sent'[c + 1].average = build_json(sum, count)
  BY <1>4
<1>8. LastAt = Before(c + 1) /\ c + 1 \in 1..(c + 1)
  BY <1>1 DEF LastAt
<1>9. LastAt' = N
  BY <1>1, <1>4, <1>7 DEF LastAt, Before
<1> HIDE DEF c, N, status
<1>10. ASSUME NEW k \in 1..(c + 1)
       PROVE  /\ sent'[k].at \in 0..N
              /\ sent'[k].average =
                    build_json(Total'[sent'[k].at] - Total'[Before(k)'],
                               sent'[k].at - Before(k)')
  <2>1. CASE k \in 1..c
    BY <1>6, <2>1
  <2>2. CASE k = c + 1
    <3>1. Before(k)' = LastAt
      BY <1>6, <1>8, <2>2
    <3>2. N \in 0..N
      BY <1>1
    <3> QED
      BY <1>1, <1>7, <2>2, <3>1, <3>2
  <2>3. k \in 1..c \/ k = c + 1
    BY <1>1
  <2> QED
    BY <2>1, <2>2, <2>3
<1>11. SumsInv'
  <2>1. Total'[N] - Total'[N] = 0 /\ N - N = 0
    BY <1>1, <1>2
  <2> QED
    BY <1>4, <1>9, <1>10, <2>1 DEF SumsInv, N
<1>12. ReadingsCountedOnce'
  BY <1>4, <1>10 DEF ReadingsCountedOnce, Collected, WindowInv
<1> QED
  BY <1>1, <1>4, <1>11, <1>12 DEF MeterInv, Collected

LEMMA LoopKeepsMeter ==
  ASSUME MeterInv, NEW raw \in {NoSample} \union Raws, NEW sends \in BOOLEAN,
         MeterLoop(raw, sends)
  PROVE  MeterInv'
<1> DEFINE due == raw # NoSample
           sum == IF due THEN power_sum + power'[1] ELSE power_sum
           count == IF due THEN power_sample_count + 1 ELSE power_sample_count
<1>1. Collected(sum, count)
  <2>1. CASE due
    <3>1. /\ raw \in Raws /\ samples' = Append(samples, raw)
          /\ power' = Despiked(<<power[2], power[3], Reading(raw)>>)
          /\ energy' = energy + power'[1]
      BY <2>1 DEF MeterLoop
    <3>2. sum = power_sum + power'[1] /\ count = power_sample_count + 1
      BY <2>1
    <3>3. Collected(power_sum + power'[1], power_sample_count + 1)
      BY <3>1, SampleCollects
    <3> QED
      BY <3>2, <3>3
  <2>2. CASE ~due
    <3>1. UNCHANGED <<power, energy, samples>>
      BY <2>2 DEF MeterLoop
    <3>2. sum = power_sum /\ count = power_sample_count
      BY <2>2
    <3>3. Collected(power_sum, power_sample_count)
      BY <3>1, NoSampleCollects
    <3> QED
      BY <3>2, <3>3
  <2> QED
    BY <2>1, <2>2
<1>2. \/ /\ sent' = Append(sent, [average |-> build_json(sum, count),
                                   at |-> Len(samples')])
         /\ power_sum' = 0 /\ power_sample_count' = 0
      \/ power_sum' = sum /\ power_sample_count' = count /\ sent' = sent
  BY DEF MeterLoop
<1> HIDE DEF sum, count
<1> QED
  BY <1>1, <1>2, StatusKeeps, NoStatusKeeps

LEMMA MeterIdles ==
  ASSUME MeterInv, UNCHANGED meterVars
  PROVE  MeterInv'
<1>1. /\ UNCHANGED <<power, energy, samples>> /\ sent' = sent
      /\ power_sum' = power_sum /\ power_sample_count' = power_sample_count
  BY DEF meterVars
<1> QED
  BY <1>1, NoSampleCollects, NoStatusKeeps

LEMMA MeterSteps == MeterInv /\ [MeterNext]_meterVars => MeterInv'
<1> SUFFICES ASSUME MeterInv, [MeterNext]_meterVars PROVE MeterInv'
  OBVIOUS
<1>1. ASSUME NEW raw \in {NoSample} \union 0..MaxReading, NEW sends \in BOOLEAN,
             MeterLoop(raw, sends)
      PROVE  MeterInv'
  BY <1>1, LoopKeepsMeter DEF Raws
<1>2. CASE MeterRestart
  <2>1. MeterInit'
    BY <1>2 DEF MeterRestart, MeterInit
  <2>2. (MeterInit => MeterInv)'
    BY MeterStarts, PTL
  <2> QED
    BY <2>1, <2>2
<1>3. CASE UNCHANGED meterVars
  BY <1>3, MeterIdles
<1> QED
  BY <1>1, <1>2, <1>3 DEF MeterNext

\* Whatever is read and whenever a status goes out, with a sample or between
\* two, every status holds the average of the readings since the status
\* before, each counted once and a reading alone between two zeros not at
\* all, and the energy holds them all.
THEOREM EveryReadingOnce == MeterSpec => []ReadingsCountedOnce
<1>1. MeterInit => MeterInv
  BY MeterStarts
<1>2. MeterInv /\ [MeterNext]_meterVars => MeterInv'
  BY MeterSteps
<1>3. MeterInv => ReadingsCountedOnce
  BY DEF MeterInv, ReadingsCountedOnce
<1> QED
  BY <1>1, <1>2, <1>3, PTL DEF MeterSpec
=============================================================================
