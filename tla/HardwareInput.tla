--------------------------- MODULE HardwareInput ---------------------------
(***************************************************************************)
(* HardwareInputService: the worker thread that polls the buttons, the     *)
(* knob (rotary encoder with a switch) and the potentiometer, and turns    *)
(* the lines of the command file into messages to the engine.              *)
(*                                                                         *)
(* Time is counted in polls, 10 ms each: the code compares elapsed time    *)
(* with debounce times only, so an age that stops at the debounce time     *)
(* stands for its time points.  A contact that changes bounces: for Bounce *)
(* polls it may read either way.                                           *)
(***************************************************************************)
EXTENDS Integers, SequencesExt

CONSTANTS
  Pins,           (* pins of the MCP23017 in use, among 0 .. 15           *)
  Role,           (* per pin what it is wired to                          *)
  Switch,         (* the push switch of the knob, on a GPIO               *)
  Debounce,       (* _mcp.debounceMs, in polls                            *)
  SwitchDebounce, (* _encoderButtonDebounceMs, in polls                   *)
  Movable,        (* bound: the buttons that the user presses             *)
  Ways,           (* bound: which ways the knob may be turned, -1 or 1    *)
  Step,           (* _encoderStep, negative with _encoderInvert           *)
  PotReadings,    (* values the potentiometer may give, among 0 .. 1023   *)
  Deadband,       (* _potDeadband                                         *)
  PotMin, PotMax, (* _potMinSubdiv and _potMaxSubdiv                      *)
  PotRing,        (* _ringIndex                                           *)
  Lines,          (* the lines of the command file                        *)
  InitialMode,    (* _encoderMode as initHardwareFromEnv leaves it        *)
  Bounce,         (* for how many polls a contact that changed may bounce *)
  MinHold         (* for how many polls, at least, a contact then stays   *)

ServiceMode == {"toggle", "points", "rotate"}
PinCommand ==
  [left |-> "POLY_NAV_LEFT", right |-> "POLY_NAV_RIGHT", click |-> "POLY_ENCODER_CLICK"]
PinRole == {"play", "none"} \cup ServiceMode \cup DOMAIN PinCommand
NumPins == 16
Buttons == Pins \cup {Switch}

ASSUME HardwareAssumption ==
  /\ Pins \subseteq 0 .. NumPins - 1
  /\ Role \in [Pins -> PinRole]
  /\ \A p, q \in Pins : Role[p] = Role[q] /\ Role[p] # "none" => p = q
  /\ Switch \notin Pins
  /\ Debounce \in Nat \ {0}
  /\ SwitchDebounce \in Nat \ {0}
  /\ Movable \subseteq Buttons
  /\ Ways \subseteq {-1, 1}
  /\ Step \in Int \ {0}
  /\ PotReadings \subseteq 0 .. 1023
  /\ Deadband \in Nat \ {0}
  /\ PotMin \in Nat \ {0} /\ PotMax \in Nat /\ PotMin <= PotMax
  /\ PotRing \in Nat
  /\ InitialMode \in ServiceMode
  /\ Bounce \in Nat
  /\ Bounce < Debounce
  /\ MinHold \in Nat
  /\ MinHold >= Bounce + Debounce

VARIABLES
  held,         (* per button, whether it is being pressed                *)
  since,        (* per button, polls since it was pressed or released     *)
  phase,        (* of the knob: 0 at rest, 1 .. 3 between two rests       *)
  turning,      (* which way the knob moves                               *)
  moved,        (* the knob has moved since the last poll                 *)
  seen,         (* _mcp.lastState, _encoderButton.lastValue: read as down *)
  age,          (* per button, polls since lastEvent, up to its debounce  *)
  lastClk,      (* _encoder.lastClk                                       *)
  lastRaw,      (* _pot.lastRaw                                           *)
  lastMapped,   (* _pot.lastMapped                                        *)
  encoderMode,  (* _encoderMode                                           *)
  playingState, (* _playingState                                          *)
  endpoint,     (* whether the engine has created GUIToAudio              *)
  toAudio,      (* messages sent to the engine and not yet handled by it  *)
  owed,         (* history: per button, presses minus clicks detected     *)
  lag           (* history: rests the knob went past minus steps detected *)

contacts == <<held, since>>
knob == <<phase, turning, moved>>
readings == <<seen, age, lastClk, lastRaw, lastMapped>>
service == <<encoderMode, playingState>>
hardwareVars == <<contacts, knob, readings, service, endpoint, toAudio, owed, lag>>

(* The histories stop just beyond what the properties allow.               *)
Counted(n) == IF n < -2 THEN -2 ELSE IF n > 2 THEN 2 ELSE n

DebounceOf(b) == IF b = Switch THEN SwitchDebounce ELSE Debounce

Unread == -1

(***************************************************************************)
(* start() has returned.  Its sendModeToAudio has failed: App::start runs  *)
(* it before the engine creates the segment.                               *)
(***************************************************************************)
HardwareInit ==
  /\ held = [b \in Buttons |-> FALSE]
  /\ since = [b \in Buttons |-> 0]
  /\ phase = 0 /\ turning = 1 /\ moved = FALSE
  /\ seen = [b \in Buttons |-> FALSE]
  /\ age = [b \in Buttons |-> 0]
  /\ lastClk = 1
  /\ lastRaw = Unread /\ lastMapped = Unread
  /\ encoderMode = InitialMode
  /\ playingState = FALSE
  /\ endpoint = FALSE
  /\ toAudio = << >>
  /\ owed = [b \in Buttons |-> 0]
  /\ lag = 0

(***************************************************************************)
(* The user.  A contact is left alone until it has settled and its last    *)
(* event is a debounce time ago; the knob moves by one phase between two   *)
(* polls and turns round only at rest.                                     *)
(***************************************************************************)
Moves(b) ==
  /\ since[b] = MinHold
  /\ held' = [held EXCEPT ![b] = ~ @]
  /\ since' = [since EXCEPT ![b] = 0]
  /\ owed' = [owed EXCEPT ![b] = IF held[b] THEN @ ELSE Counted(@ + 1)]
  /\ UNCHANGED <<knob, readings, service, endpoint, toAudio, lag>>

Turns(way) ==
  /\ ~ moved
  /\ phase = 0 \/ turning = way
  /\ phase' = (phase + way) % 4
  /\ turning' = way
  /\ moved' = TRUE
  /\ lag' = IF phase' = 0 THEN Counted(lag + way) ELSE lag
  /\ UNCHANGED <<contacts, readings, service, endpoint, toAudio, owed>>

(* From rest a turn to the right drops CLK, then DT; CLK and DT of a phase. *)
Clk(p) == IF p \in {1, 2} THEN 0 ELSE 1
Dt(p) == IF p \in {2, 3} THEN 0 ELSE 1

(***************************************************************************)
(* sendToAudio opens the segment anew and fails as long as there is none.  *)
(***************************************************************************)
Sends(messages) == toAudio' = IF endpoint THEN toAudio \o messages ELSE toAudio

ModeMsg(mode) == [type |-> "POLY_HW_MODE", mode |-> mode]

(* AudioEngine::start has created GUIToAudio.                              *)
SegmentAppears ==
  /\ ~ endpoint
  /\ endpoint' = TRUE
  /\ UNCHANGED <<contacts, knob, readings, service, toAudio, owed, lag>>

(***************************************************************************)
(* handleEncoderInput: a step at each fall of CLK.  A poll takes longer    *)
(* than _encoderDebounceMs, which therefore never matters.                 *)
(***************************************************************************)
StepOnBothEdges ==  \* mutant: the rise of CLK counts too
  lastClk # Clk(phase)

StepDetected == lastClk = 1 /\ Clk(phase) = 0
Direction == IF Dt(phase) # 0 THEN 1 ELSE -1

KnobMessages ==
  IF StepDetected
  THEN <<[type |-> "POLY_ENCODER_DELTA", amount |-> Direction * Step]>>
  ELSE << >>

(***************************************************************************)
(* handleEncoderButtonInput and handleMcp23017Buttons: a click is a        *)
(* contact read as down after it was up, a debounce time after its last    *)
(* event.  For the switch of the knob, an event is a click; for a pin, any *)
(* change that was not skipped.  A skipped change is remembered as seen.   *)
(***************************************************************************)
Aged(b) == IF age[b] < DebounceOf(b) THEN age[b] + 1 ELSE age[b]

Click(b, down) == down[b] /\ ~ seen[b] /\ Aged(b) = DebounceOf(b)

PinEventOnClick(b, down) ==  \* mutant: lastEvent is set by clicks only
  Click(b, down)

Event(b, down) ==
  IF b = Switch THEN Click(b, down)
  ELSE down[b] # seen[b] /\ Aged(b) = DebounceOf(b)

SwitchMessages(down) ==
  IF Click(Switch, down) THEN <<[type |-> "POLY_ENCODER_CLICK"]>> ELSE << >>

(***************************************************************************)
(* The pins are looked at one after the other; done is what those before   *)
(* have changed and sent.  _playingState changes only when PLAY or PAUSE   *)
(* could be sent, the mode whether or not it can be sent.                  *)
(***************************************************************************)
PlayToggledUnsent(playing) ==  \* mutant: toggled although the send failed
  ~ playing

PlayToggled(playing) == IF endpoint THEN ~ playing ELSE playing

EncoderModeSet(done, mode) ==
  [done EXCEPT !.mode = mode, !.sent = Append(@, ModeMsg(mode))]

PinClicked(done, pin) ==
  CASE Role[pin] = "play" ->
         [done EXCEPT !.playing = PlayToggled(done.playing),
                      !.sent = Append(@, [type |-> IF done.playing THEN "PAUSE" ELSE "PLAY"])]
    [] Role[pin] \in ServiceMode ->
         EncoderModeSet(done, Role[pin])
    [] Role[pin] \in DOMAIN PinCommand ->
         [done EXCEPT !.sent = Append(@, [type |-> PinCommand[Role[pin]]])]
    [] OTHER -> done

PinsHandled(down) ==
  LET done[n \in 0 .. NumPins] ==
        IF n = 0 THEN [mode |-> encoderMode, playing |-> playingState, sent |-> << >>]
        ELSE IF n - 1 \in Pins /\ Click(n - 1, down) THEN PinClicked(done[n - 1], n - 1)
        ELSE done[n - 1]
  IN  done[NumPins]

(***************************************************************************)
(* handlePotInput: a reading near the last one is ignored, and so is one   *)
(* that maps to the same subdivision.  The first reading is only stored.   *)
(* Without a potentiometer, or when it cannot be read, raw is Unread.      *)
(***************************************************************************)
Distance(a, b) == IF a < b THEN b - a ELSE a - b

MappedWide(raw) ==  \* mutant: the range of the pot is one too large
  PotMin + (raw * (PotMax - PotMin + 1) + 511) \div 1023

Mapped(raw) ==
  LET span == IF PotMax > PotMin THEN PotMax - PotMin ELSE 1
      mapped == PotMin + (raw * span + 511) \div 1023
  IN  IF mapped > PotMax THEN PotMax ELSE mapped

Base(raw) == IF lastRaw = Unread THEN raw ELSE lastRaw
PotMoved(raw) == raw # Unread /\ Distance(raw, Base(raw)) >= Deadband
PotChanges(raw) == PotMoved(raw) /\ Mapped(raw) # lastMapped

PotStoredEagerly(raw) ==  \* mutant: lastMapped follows inside the deadband
  /\ lastRaw' = IF PotMoved(raw) THEN raw ELSE Base(raw)
  /\ lastMapped' = IF raw # Unread THEN Mapped(raw) ELSE lastMapped

PotStored(raw) ==
  /\ lastRaw' = IF PotMoved(raw) THEN raw ELSE Base(raw)
  /\ lastMapped' = IF PotMoved(raw) THEN Mapped(raw) ELSE lastMapped

PotMessages(raw) ==
  IF PotChanges(raw)
  THEN <<[type |-> "POLY_MOD_SHAPE", ring |-> PotRing, index |-> 0,
          subdivision |-> Mapped(raw), offset |-> 0]>>
  ELSE << >>

(***************************************************************************)
(* pollHardware: the knob, its switch, the potentiometer and the pins.     *)
(***************************************************************************)
CanRead(down) == \A b \in Buttons : since[b] >= Bounce => down[b] = held[b]

Poll(down, raw) ==
  LET pins == PinsHandled(down)
  IN  /\ CanRead(down)
      /\ Sends(KnobMessages \o SwitchMessages(down) \o PotMessages(raw) \o pins.sent)
      /\ lastClk' = Clk(phase)
      /\ PotStored(raw)
      /\ encoderMode' = pins.mode
      /\ playingState' = pins.playing
      /\ seen' = down
      /\ age' = [b \in Buttons |-> IF Event(b, down) THEN 0 ELSE Aged(b)]
      /\ since' = [b \in Buttons |-> IF since[b] < MinHold THEN since[b] + 1 ELSE MinHold]
      /\ moved' = FALSE
      /\ owed' = [b \in Buttons |-> IF Click(b, down) THEN Counted(owed[b] - 1) ELSE owed[b]]
      /\ lag' = IF StepDetected THEN Counted(lag - Direction) ELSE lag
      /\ UNCHANGED <<held, phase, turning, endpoint>>

(***************************************************************************)
(* processCommandLine: "mode" changes the mode, every other command is a   *)
(* message, which "raw" gives as it is.  Nothing else of the service       *)
(* changes: PLAY and PAUSE leave _playingState alone.                      *)
(***************************************************************************)
ModeLineStale(mode) ==  \* mutant: the message is made before the mode is set
  /\ encoderMode' = mode
  /\ Sends(<<ModeMsg(encoderMode)>>)
  /\ UNCHANGED playingState

ModeLine(mode) ==
  /\ encoderMode' = mode
  /\ Sends(<<ModeMsg(mode)>>)
  /\ UNCHANGED playingState

CommandLine(line) ==
  /\ \/ line.cmd = "mode" /\ ModeLine(line.mode)
     \/ line.cmd = "send" /\ Sends(<<line.message>>) /\ UNCHANGED service
  /\ UNCHANGED <<contacts, knob, readings, endpoint, owed, lag>>

(***************************************************************************)
(* The service on its own: what it sent is taken away before its next      *)
(* step, since it never looks at it.                                       *)
(***************************************************************************)
MessagesTaken ==
  /\ toAudio # << >>
  /\ toAudio' = << >>
  /\ UNCHANGED <<contacts, knob, readings, service, endpoint, owed, lag>>

ServiceActs ==
  /\ toAudio = << >>
  /\ \/ \E down \in [Buttons -> BOOLEAN], raw \in PotReadings \cup {Unread} : Poll(down, raw)
     \/ \E line \in Lines : CommandLine(line)

UserActs ==
  \/ \E b \in Movable : Moves(b)
  \/ \E way \in Ways : Turns(way)

HardwareNext == MessagesTaken \/ ServiceActs \/ UserActs \/ SegmentAppears

HardwareSpec == HardwareInit /\ [][HardwareNext]_hardwareVars

-----------------------------------------------------------------------------
HardwareTypeOK ==
  /\ held \in [Buttons -> BOOLEAN]
  /\ since \in [Buttons -> 0 .. MinHold]
  /\ phase \in 0 .. 3 /\ turning \in {1, -1} /\ moved \in BOOLEAN
  /\ seen \in [Buttons -> BOOLEAN]
  /\ \A b \in Buttons : age[b] \in 0 .. DebounceOf(b)
  /\ lastClk \in {0, 1}
  /\ lastRaw \in PotReadings \cup {Unread}
  /\ lastMapped \in PotMin .. PotMax \cup {Unread}
  /\ encoderMode \in ServiceMode
  /\ playingState \in BOOLEAN /\ endpoint \in BOOLEAN
  /\ owed \in [Buttons -> -2 .. 2] /\ lag \in -2 .. 2

Settled(b) == since[b] > Bounce

(***************************************************************************)
(* A button of the MCP23017 gives one click for each press, as soon as it  *)
(* has stopped bouncing and never twice: neither the bounce of the press   *)
(* nor that of the release counts, and no press is taken for a bounce.     *)
(***************************************************************************)
OneClickPerPress ==
  \A pin \in Pins : owed[pin] \in {0, 1} /\ (Settled(pin) => owed[pin] = 0)

(* The same of the switch of the knob, which is said to trigger on the     *)
(* press edge.                                                             *)
SwitchClicksOnPress == owed[Switch] \in {0, 1} /\ (Settled(Switch) => owed[Switch] = 0)

(***************************************************************************)
(* Reading CLK and DT at each fall of CLK alone follows the knob: whenever *)
(* it rests and was polled, the steps detected add up to where it is.      *)
(***************************************************************************)
StepsFollowKnob == lag \in -1 .. 1 /\ (phase = 0 /\ ~ moved => lag = 0)
=============================================================================
