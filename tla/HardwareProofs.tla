-------------------------- MODULE HardwareProofs --------------------------
(***************************************************************************)
(* Proofs about the hardware service: the debounce of its buttons, the     *)
(* decoding of the knob, what it remembers of the engine, and the command  *)
(* file that its worker reads.                                             *)
(***************************************************************************)
EXTENDS HardwareSystem, CommandFile, AudioEngineProofs, SequenceLemmas

ContactsTypeOK ==
  /\ held \in [Buttons -> BOOLEAN]
  /\ since \in [Buttons -> 0 .. MinHold]
  /\ seen \in [Buttons -> BOOLEAN]
  /\ age \in [Buttons -> Nat]
  /\ \A pin \in Pins : age[pin] <= Debounce
  /\ owed \in [Buttons -> Int]

(***************************************************************************)
(* A contact has moved and no poll has noticed: all readings were the old  *)
(* one, and the next that differs is not skipped.                          *)
(***************************************************************************)
Unnoticed(pin) ==
  /\ since[pin] <= Bounce
  /\ seen[pin] = ~ held[pin]
  /\ age[pin] + 1 >= Debounce
  /\ owed[pin] = IF held[pin] THEN 1 ELSE 0

(***************************************************************************)
(* The last movement was noticed: what is left of its bounce is skipped,   *)
(* and the next movement finds the debounce time over.  The last case is   *)
(* that of a contact nobody has touched since the start.                   *)
(***************************************************************************)
Noticed(pin) ==
  /\ owed[pin] = 0
  /\ since[pin] > Bounce => seen[pin] = held[pin]
  /\ age[pin] + 1 >= Debounce \/ age[pin] + Bounce + 1 >= since[pin]
  /\ since[pin] <= Bounce => \/ age[pin] < since[pin]
                             \/ ~ held[pin] /\ age[pin] <= since[pin]

ContactsInv == ContactsTypeOK /\ \A pin \in Pins : Unnoticed(pin) \/ Noticed(pin)

LEMMA PinConstants ==
  /\ Pins \subseteq Buttons
  /\ \A pin \in Pins : pin \in Buttons /\ pin # Switch /\ DebounceOf(pin) = Debounce
  /\ Debounce \in Nat /\ SwitchDebounce \in Nat /\ Bounce \in Nat /\ MinHold \in Nat
  /\ Debounce > Bounce
  /\ MinHold >= Bounce + Debounce
BY HardwareAssumption DEF HardwareAssumption, Buttons, DebounceOf

LEMMA ContactsInit == HardwareInit => ContactsInv
<1> SUFFICES ASSUME HardwareInit PROVE ContactsInv
    OBVIOUS
<1>1. ContactsTypeOK
    BY PinConstants DEF HardwareInit, ContactsTypeOK
<1>2. ASSUME NEW pin \in Pins PROVE Noticed(pin)
    BY PinConstants DEF HardwareInit, Noticed
<1> QED BY <1>1, <1>2 DEF ContactsInv

LEMMA CountedInt == ASSUME NEW n \in Int PROVE Counted(n) \in Int
BY DEF Counted

(* The user moves a contact.                                               *)
LEMMA ContactsMoves ==
  ASSUME ContactsInv, NEW b \in Buttons, Moves(b) PROVE ContactsInv'
<1>1. ContactsTypeOK'
  <2>1. owed' \in [Buttons -> Int]
      BY CountedInt DEF ContactsInv, ContactsTypeOK, Moves
  <2> QED BY <2>1, PinConstants DEF ContactsInv, ContactsTypeOK, Moves, readings
<1>2. ASSUME NEW pin \in Pins PROVE (Unnoticed(pin) \/ Noticed(pin))'
  <2>1. CASE pin # b
    <3>1. /\ held'[pin] = held[pin] /\ since'[pin] = since[pin]
          /\ seen'[pin] = seen[pin] /\ age'[pin] = age[pin] /\ owed'[pin] = owed[pin]
        BY <2>1, PinConstants DEF ContactsInv, ContactsTypeOK, Moves, readings
    <3> QED BY <3>1 DEF ContactsInv, Unnoticed, Noticed
  <2>2. CASE pin = b
    <3>1. Noticed(pin) /\ since[pin] = MinHold
        BY <2>2, PinConstants DEF ContactsInv, Unnoticed, Moves
    <3>2. /\ owed[pin] = 0 /\ seen[pin] = held[pin] /\ held[pin] \in BOOLEAN
          /\ age[pin] + 1 >= Debounce
        BY <3>1, PinConstants DEF Noticed, ContactsInv, ContactsTypeOK
    <3>3. /\ held'[pin] = ~ held[pin] /\ since'[pin] = 0
          /\ seen'[pin] = seen[pin] /\ age'[pin] = age[pin]
          /\ owed'[pin] = IF held[pin] THEN owed[pin] ELSE Counted(owed[pin] + 1)
        BY <2>2, PinConstants DEF ContactsInv, ContactsTypeOK, Moves, readings
    <3>4. Counted(0 + 1) = 1
        BY DEF Counted
    <3>5. owed'[pin] = IF held'[pin] THEN 1 ELSE 0
        BY <3>2, <3>3, <3>4
    <3>6. since'[pin] <= Bounce /\ age'[pin] + 1 >= Debounce
        BY <3>2, <3>3, PinConstants
    <3>7. seen'[pin] = ~ held'[pin]
        BY <3>2, <3>3, Zenon
    <3> QED BY <3>5, <3>6, <3>7 DEF Unnoticed
  <2> QED BY <2>1, <2>2
<1> QED BY <1>1, <1>2 DEF ContactsInv

(* The worker polls: what one pin's readings do to it.                     *)
LEMMA PinPolled ==
  ASSUME ContactsInv, NEW down \in [Buttons -> BOOLEAN], NEW raw, Poll(down, raw),
         NEW pin \in Pins
  PROVE  /\ held'[pin] = held[pin]
         /\ seen'[pin] = down[pin]
         /\ since'[pin] = IF since[pin] < MinHold THEN since[pin] + 1 ELSE MinHold
         /\ age'[pin] = IF down[pin] # seen[pin] /\ age[pin] + 1 >= Debounce THEN 0
                        ELSE IF age[pin] < Debounce THEN age[pin] + 1 ELSE age[pin]
         /\ owed'[pin] = IF down[pin] /\ ~ seen[pin] /\ age[pin] + 1 >= Debounce
                         THEN Counted(owed[pin] - 1) ELSE owed[pin]
         /\ since[pin] >= Bounce => down[pin] = held[pin]
<1>1. pin \in Buttons /\ pin # Switch /\ DebounceOf(pin) = Debounce
    BY PinConstants
<1>2. age[pin] \in Nat /\ age[pin] <= Debounce /\ Debounce \in Nat
    BY <1>1, PinConstants DEF ContactsInv, ContactsTypeOK
<1>3. Aged(pin) = IF age[pin] < Debounce THEN age[pin] + 1 ELSE age[pin]
    BY <1>1 DEF Aged
<1>4. Aged(pin) = Debounce <=> age[pin] + 1 >= Debounce
    BY <1>2, <1>3
<1>5. Event(pin, down) <=> down[pin] # seen[pin] /\ age[pin] + 1 >= Debounce
    BY <1>1, <1>4 DEF Event
<1>6. Click(pin, down) <=> down[pin] /\ ~ seen[pin] /\ age[pin] + 1 >= Debounce
    BY <1>1, <1>4 DEF Click
<1> QED BY <1>1, <1>3, <1>5, <1>6 DEF Poll, CanRead

LEMMA ContactsPoll ==
  ASSUME ContactsInv, NEW down \in [Buttons -> BOOLEAN], NEW raw, Poll(down, raw)
  PROVE  ContactsInv'
<1>1. ContactsTypeOK'
  <2>1. held' \in [Buttons -> BOOLEAN] /\ seen' \in [Buttons -> BOOLEAN]
      BY DEF ContactsInv, ContactsTypeOK, Poll
  <2>2. since' \in [Buttons -> 0 .. MinHold]
      BY PinConstants DEF ContactsInv, ContactsTypeOK, Poll
  <2>3. \A b \in Buttons : Aged(b) \in Nat
      BY PinConstants DEF ContactsInv, ContactsTypeOK, Aged
  <2>4. age' \in [Buttons -> Nat]
      BY <2>3 DEF Poll
  <2>5. \A pin \in Pins : age'[pin] <= Debounce
      BY PinPolled, PinConstants DEF ContactsInv, ContactsTypeOK
  <2>6. owed' \in [Buttons -> Int]
      BY CountedInt DEF ContactsInv, ContactsTypeOK, Poll
  <2> QED BY <2>1, <2>2, <2>4, <2>5, <2>6 DEF ContactsTypeOK
<1>2. ASSUME NEW pin \in Pins PROVE (Unnoticed(pin) \/ Noticed(pin))'
  <2>1. /\ held[pin] \in BOOLEAN /\ seen[pin] \in BOOLEAN /\ down[pin] \in BOOLEAN
        /\ since[pin] \in 0 .. MinHold
        /\ age[pin] \in 0 .. Debounce
      BY PinConstants DEF ContactsInv, ContactsTypeOK
  <2>2. Counted(0) = 0
      BY DEF Counted
  <2>3. CASE Unnoticed(pin)
    <3>1. CASE down[pin] = seen[pin]
        BY <2>1, <2>3, <3>1, PinPolled, PinConstants DEF Unnoticed
    <3>2. CASE down[pin] # seen[pin]
      <4>1. down[pin] = held[pin] /\ age'[pin] = 0
          BY <2>1, <2>3, <3>2, PinPolled DEF Unnoticed
      <4>2. owed'[pin] = 0
        <5>1. age[pin] + 1 >= Debounce /\ owed[pin] = (IF held[pin] THEN 1 ELSE 0)
            BY <2>3 DEF Unnoticed
        <5>2. owed'[pin] = IF down[pin] /\ ~ seen[pin] THEN Counted(owed[pin] - 1)
                           ELSE owed[pin]
            BY <5>1, PinPolled
        <5>3. 1 - 1 = 0
            OBVIOUS
        <5>4. CASE held[pin]
            BY <2>1, <2>2, <3>2, <4>1, <5>1, <5>2, <5>3, <5>4
        <5>5. CASE ~ held[pin]
            BY <2>1, <3>2, <4>1, <5>1, <5>2, <5>5
        <5> QED BY <5>4, <5>5
      <4>3. since'[pin] = since[pin] + 1
          BY <2>1, <2>3, PinPolled, PinConstants DEF Unnoticed
      <4> QED BY <2>1, <2>3, <4>1, <4>2, <4>3, PinPolled, PinConstants DEF Noticed, Unnoticed
    <3> QED BY <3>1, <3>2
  <2>4. CASE Noticed(pin)
    <3>1. CASE since[pin] < Bounce
        BY <2>1, <2>4, <3>1, PinPolled, PinConstants DEF Noticed
    <3>2. CASE since[pin] = Bounce
        BY <2>1, <2>4, <3>2, PinPolled, PinConstants DEF Noticed
    <3>3. CASE since[pin] > Bounce
        BY <2>1, <2>4, <3>3, PinPolled, PinConstants DEF Noticed
    <3> QED BY <2>1, <3>1, <3>2, <3>3, PinConstants
  <2> QED BY <2>3, <2>4 DEF ContactsInv
<1> QED BY <1>1, <1>2 DEF ContactsInv

LEMMA ContactsStep == ContactsInv /\ [HardwareNext]_hardwareVars => ContactsInv'
<1> SUFFICES ASSUME ContactsInv, [HardwareNext]_hardwareVars PROVE ContactsInv'
    OBVIOUS
<1>1. ASSUME UNCHANGED <<contacts, readings, owed>> PROVE ContactsInv'
    BY <1>1 DEF contacts, readings, ContactsInv, ContactsTypeOK, Unnoticed, Noticed
<1>2. CASE MessagesTaken
    BY <1>1, <1>2 DEF MessagesTaken
<1>3. CASE ServiceActs
    BY <1>1, <1>3, ContactsPoll DEF ServiceActs, CommandLine
<1>4. CASE UserActs
    BY <1>1, <1>4, ContactsMoves, HardwareAssumption DEF UserActs, Turns, HardwareAssumption
<1>5. CASE SegmentAppears
    BY <1>1, <1>5 DEF SegmentAppears
<1>6. CASE UNCHANGED hardwareVars
    BY <1>1, <1>6 DEF hardwareVars
<1> QED BY <1>2, <1>3, <1>4, <1>5, <1>6 DEF HardwareNext

LEMMA ContactsInvImplies == ContactsInv => OneClickPerPress
<1> SUFFICES ASSUME ContactsInv, NEW pin \in Pins
             PROVE  owed[pin] \in {0, 1} /\ (Settled(pin) => owed[pin] = 0)
    BY DEF OneClickPerPress
<1>1. since[pin] \in 0 .. MinHold
    BY PinConstants DEF ContactsInv, ContactsTypeOK
<1> QED BY <1>1, PinConstants DEF ContactsInv, Unnoticed, Noticed, Settled

(***************************************************************************)
(* handleMcp23017Buttons detects exactly one click for each press of a     *)
(* button of the MCP23017, for any debounce time, any bounce that is       *)
(* shorter, and any readings during the bounce, as long as a button is     *)
(* held and left for the debounce time after it has bounced.               *)
(***************************************************************************)
THEOREM PressesAreClicks == HardwareSpec => []OneClickPerPress
<1>1. HardwareSpec => []ContactsInv
    BY ContactsInit, ContactsStep, PTL DEF HardwareSpec
<1> QED BY <1>1, ContactsInvImplies, PTL

-----------------------------------------------------------------------------
(***************************************************************************)
(* The knob: the last poll saw the phase it is in, or the one before, and  *)
(* the step of a turn is detected where CLK falls.                         *)
(***************************************************************************)
Polled == IF moved THEN (phase + 4 - turning) % 4 ELSE phase

Behind == IF moved /\ phase = 0 THEN turning ELSE 0

(* Steps detected since the rest the knob came from, seen last at phase p. *)
Ahead(p, way) ==
  IF way = 1 THEN (IF p \in 1 .. 3 THEN 1 ELSE 0) ELSE (IF p \in 1 .. 2 THEN -1 ELSE 0)

KnobInv ==
  /\ phase \in 0 .. 3 /\ turning \in {1, -1} /\ moved \in BOOLEAN
  /\ lastClk = Clk(Polled)
  /\ lag = Behind - Ahead(Polled, turning)

LEMMA KnobInit == HardwareInit => KnobInv
<1> SUFFICES ASSUME HardwareInit PROVE KnobInv
    OBVIOUS
<1>1. phase = 0 /\ turning = 1 /\ moved = FALSE /\ lastClk = 1 /\ lag = 0
    BY DEF HardwareInit
<1>2. Polled = 0 /\ Behind = 0
    BY <1>1 DEF Polled, Behind
<1>3. lastClk = Clk(Polled)
    BY <1>1, <1>2 DEF Clk
<1>4. lag = Behind - Ahead(Polled, turning)
  <2>1. Ahead(0, 1) = 0 /\ 0 - 0 = 0
      BY DEF Ahead
  <2>2. Ahead(Polled, turning) = 0
      BY <1>1, <1>2, <2>1, Zenon
  <2> QED BY <1>1, <1>2, <2>1, <2>2, Zenon
<1>5. moved \in BOOLEAN
    BY <1>1
<1> QED BY <1>1, <1>3, <1>4, <1>5 DEF KnobInv

LEMMA KnobTurns ==
  ASSUME KnobInv, NEW way \in {1, -1}, Turns(way) PROVE KnobInv'
<1>1. way \in {1, -1} /\ phase \in 0 .. 3 /\ turning \in {1, -1} /\ ~ moved
    BY DEF KnobInv, Turns
<1>2. phase' = (phase + way) % 4 /\ turning' = way /\ moved' = TRUE /\ lastClk' = lastClk
    BY DEF Turns, readings
<1>3. phase' \in 0 .. 3 /\ (phase' + 4 - way) % 4 = phase
    BY <1>1, <1>2
<1>4. lastClk' = Clk(Polled)'
    BY <1>1, <1>2, <1>3 DEF KnobInv, Polled, Clk
<1>5. phase = 0 \/ turning = way
    BY DEF Turns
<1>6. Polled' = phase /\ Polled = phase
    BY <1>1, <1>2, <1>3 DEF Polled
<1>7. lag' = IF phase' = 0 THEN Counted(lag + way) ELSE lag
    BY DEF Turns
<1>8. lag' = (Behind - Ahead(Polled, turning))'
    BY <1>1, <1>2, <1>3, <1>5, <1>6, <1>7 DEF KnobInv, Behind, Ahead, Counted
<1> QED BY <1>1, <1>2, <1>3, <1>4, <1>8 DEF KnobInv

LEMMA KnobPolled ==
  ASSUME KnobInv, NEW down, NEW raw, Poll(down, raw) PROVE KnobInv'
<1>1. phase \in 0 .. 3 /\ turning \in {1, -1} /\ moved \in BOOLEAN
    BY DEF KnobInv
<1>2. /\ phase' = phase /\ turning' = turning /\ moved' = FALSE /\ lastClk' = Clk(phase)
      /\ lag' = IF StepDetected THEN Counted(lag - Direction) ELSE lag
    BY DEF Poll
<1>3. Polled' = phase /\ Behind' = 0
    BY <1>2 DEF Polled, Behind
<1>4. CASE ~ moved
  <2>1. Polled = phase /\ Behind = 0 /\ ~ StepDetected
      BY <1>1, <1>4 DEF Polled, Behind, StepDetected, KnobInv, Clk
  <2>2. lastClk' = Clk(Polled)' /\ lag' = lag
      BY <1>2, <1>3, <2>1 DEF Clk
  <2>3. moved' \in BOOLEAN /\ phase' \in 0 .. 3 /\ turning' \in {1, -1}
      BY <1>1, <1>2
  <2>4. Polled' = Polled /\ Behind' = Behind /\ turning' = turning
      BY <1>2, <1>3, <2>1
  <2>5. (Behind - Ahead(Polled, turning))' = Behind - Ahead(Polled, turning)
      BY <2>4 DEF Ahead
  <2> QED BY <2>2, <2>3, <2>5 DEF KnobInv
<1>5. CASE moved
  <2>1. Polled = (phase + 4 - turning) % 4 /\ Behind = IF phase = 0 THEN turning ELSE 0
      BY <1>5 DEF Polled, Behind
  <2>2. lag' = 0 - Ahead(phase, turning)
      BY <1>1, <1>2, <2>1
      DEF KnobInv, StepDetected, Direction, Clk, Dt, Counted, Ahead
  <2>3. lastClk' = Clk(Polled)'
      BY <1>2, <1>3 DEF Clk
  <2>4. moved' \in BOOLEAN /\ phase' \in 0 .. 3 /\ turning' \in {1, -1}
      BY <1>1, <1>2
  <2>5. (Behind - Ahead(Polled, turning))' = 0 - Ahead(phase, turning)
      BY <1>2, <1>3 DEF Ahead
  <2> QED BY <2>2, <2>3, <2>4, <2>5 DEF KnobInv
<1> QED BY <1>1, <1>4, <1>5

LEMMA KnobStep == KnobInv /\ [HardwareNext]_hardwareVars => KnobInv'
<1> SUFFICES ASSUME KnobInv, [HardwareNext]_hardwareVars PROVE KnobInv'
    OBVIOUS
<1>1. ASSUME UNCHANGED <<knob, lastClk, lag>> PROVE KnobInv'
    BY <1>1 DEF knob, KnobInv, Polled, Behind, Ahead, Clk
<1>2. CASE MessagesTaken
    BY <1>1, <1>2 DEF MessagesTaken, readings
<1>3. CASE ServiceActs
    BY <1>1, <1>3, KnobPolled DEF ServiceActs, CommandLine, readings
<1>4. CASE UserActs
    BY <1>1, <1>4, KnobTurns, HardwareAssumption
    DEF UserActs, Moves, readings, HardwareAssumption
<1>5. CASE SegmentAppears
    BY <1>1, <1>5 DEF SegmentAppears, readings
<1>6. CASE UNCHANGED hardwareVars
    BY <1>1, <1>6 DEF hardwareVars, readings
<1> QED BY <1>2, <1>3, <1>4, <1>5, <1>6 DEF HardwareNext

(***************************************************************************)
(* handleEncoderInput, which looks at DT only where CLK falls, gives one   *)
(* step of the right sign for each rest the knob goes past, however it is  *)
(* turned to and fro between rests.                                        *)
(***************************************************************************)
THEOREM KnobIsFollowed == HardwareSpec => []StepsFollowKnob
<1>1. KnobInv => StepsFollowKnob
    BY DEF KnobInv, StepsFollowKnob, Polled, Behind, Ahead
<1> QED BY <1>1, KnobInit, KnobStep, PTL DEF HardwareSpec
-----------------------------------------------------------------------------
(***************************************************************************)
(* The service and the engine.  What the service remembers of the engine   *)
(* is what the engine will do when it has handled the messages under way:  *)
(* the last one of a kind tells it, and when there is none it is so now.   *)
(***************************************************************************)
PlayMsgs == {m \in Command : SetsPlay(m)}
ModeMsgs == {m \in Command : SetsMode(m)}
ShapeMsgs == {m \in Command : SetsShape(m)}

PlayMsg(playing) == [type |-> IF playing THEN "PLAY" ELSE "PAUSE"]
PotMsg(subdivision) ==
  [type |-> "POLY_MOD_SHAPE", ring |-> PotRing, index |-> 0, subdivision |-> subdivision,
   offset |-> 0]

PlayMirrored ==
  ~ playElsewhere => /\ EndsIn(toAudio, PlayMsgs, {PlayMsg(playingState)})
                     /\ None(toAudio, PlayMsgs) => isPlaying = playingState

ModeMirrored ==
  modeSent => /\ EndsIn(toAudio, ModeMsgs, {ModeMsg(encoderMode)})
              /\ None(toAudio, ModeMsgs) => hardwareMode = encoderMode

ShapeMirrored ==
  ~ shapeElsewhere =>
    /\ None(toAudio, ShapeMsgs \ {PotMsg(n) : n \in Nat})
    /\ PotRing \in Ring => rings[PotRing].shapes # << >>
    /\ lastMapped # Unread =>
         /\ EndsIn(toAudio, ShapeMsgs, {PotMsg(lastMapped)})
         /\ None(toAudio, ShapeMsgs) /\ PotRing \in Ring
              => rings[PotRing].shapes[1].subdivision = lastMapped

ServiceSound ==
  /\ Sound
  /\ toAudio \in Seq(Command)
  /\ encoderMode \in ServiceMode /\ playingState \in BOOLEAN /\ endpoint \in BOOLEAN

MirrorInv == ServiceSound /\ PlayMirrored /\ ModeMirrored /\ ShapeMirrored

LEMMA KindsOfMessages ==
  /\ \A playing : PlayMsg(playing) \in PlayMsgs
  /\ \A mode \in ServiceMode : ModeMsg(mode) \in ModeMsgs
  /\ \A n \in Nat : PotMsg(n) \in ShapeMsgs
  /\ PlayMsgs \in SUBSET Command /\ ModeMsgs \in SUBSET Command /\ ShapeMsgs \in SUBSET Command
  /\ \A m \in PlayMsgs : m \notin ModeMsgs /\ m \notin ShapeMsgs
  /\ \A m \in ModeMsgs : m \notin ShapeMsgs
<1>1. 0 \in Offsets /\ PotRing \in Nat
    BY EngineAssumption, HardwareAssumption DEF EngineAssumption, HardwareAssumption
<1>2. \A playing : PlayMsg(playing) \in Command /\ SetsPlay(PlayMsg(playing))
    BY DEF PlayMsg, Command, SetsPlay
<1>3. \A mode \in ServiceMode : ModeMsg(mode) \in Command /\ SetsMode(ModeMsg(mode))
    BY DEF ModeMsg, Command, SetsMode, ServiceMode
<1>4. \A n \in Nat : PotMsg(n) \in Command /\ SetsShape(PotMsg(n))
    BY <1>1 DEF PotMsg, Command, SetsShape
<1> QED BY <1>2, <1>3, <1>4 DEF PlayMsgs, ModeMsgs, ShapeMsgs, SetsPlay, SetsMode, SetsShape

-----------------------------------------------------------------------------
(***************************************************************************)
(* The pins, one after the other: the messages they send tell the mode and *)
(* the play state they end in.                                             *)
(***************************************************************************)
PinsState == [mode : ServiceMode, playing : BOOLEAN, sent : Seq(Command)]

PinsStart == [mode |-> encoderMode, playing |-> playingState, sent |-> << >>]

PinDone(down, n, done) ==
  IF n - 1 \in Pins /\ Click(n - 1, down) THEN PinClicked(done, n - 1) ELSE done

Tells(done) ==
  /\ done \in PinsState
  /\ endpoint => /\ EndsIn(done.sent, PlayMsgs, {PlayMsg(done.playing)})
                 /\ None(done.sent, PlayMsgs) => done.playing = playingState
  /\ ~ endpoint => done.playing = playingState
  /\ EndsIn(done.sent, ModeMsgs, {ModeMsg(done.mode)})
  /\ None(done.sent, ModeMsgs) => done.mode = encoderMode
  /\ None(done.sent, ShapeMsgs)

(* A message behind the others: what it says, or what they said.           *)
LEMMA AppendEnds ==
  ASSUME NEW s \in Seq(Command), NEW m \in Command, NEW K, NEW T,
         m \in K => m \in T, m \notin K => EndsIn(s, K, T)
  PROVE  /\ Append(s, m) \in Seq(Command)
         /\ EndsIn(Append(s, m), K, T)
         /\ None(Append(s, m), K) <=> None(s, K) /\ m \notin K
<1> DEFINE t == <<m>>
<1>1. t \in Seq(Command) /\ Append(s, m) = s \o t /\ Append(s, m) \in Seq(Command)
    OBVIOUS
<1>2. (None(t, K) <=> m \notin K) /\ EndsIn(t, K, T)
    BY OneEnds
<1> HIDE DEF t
<1>3. EndsIn(s \o t, K, T)
    BY <1>1, <1>2, BehindEnds
<1>4. None(s \o t, K) <=> None(s, K) /\ None(t, K)
    BY <1>1, BothNone
<1> QED BY <1>1, <1>2, <1>3, <1>4

LEMMA AppendNone ==
  ASSUME NEW s \in Seq(Command), NEW m \in Command, NEW K, None(s, K), m \notin K
  PROVE  None(Append(s, m), K)
<1> DEFINE t == <<m>>
<1>1. t \in Seq(Command) /\ Append(s, m) = s \o t
    OBVIOUS
<1>2. None(t, K)
    BY OneEnds
<1> HIDE DEF t
<1> QED BY <1>1, <1>2, BothNone

LEMMA PinTells ==
  ASSUME endpoint \in BOOLEAN, NEW done, Tells(done), NEW pin \in Pins
  PROVE  Tells(PinClicked(done, pin))
<1> DEFINE sent == done.sent
<1>1. done \in PinsState /\ sent \in Seq(Command) /\ done.playing \in BOOLEAN
    BY DEF Tells, PinsState
<1>2. Role[pin] \in PinRole
    BY HardwareAssumption DEF HardwareAssumption
<1>3. CASE Role[pin] = "play"
  <2> DEFINE playing == PlayToggled(done.playing)
             m == [type |-> IF done.playing THEN "PAUSE" ELSE "PLAY"]
             next == [done EXCEPT !.playing = playing, !.sent = Append(sent, m)]
  <2>1. PinClicked(done, pin) = next
      BY <1>3 DEF PinClicked, ServiceMode, PinCommand
  <2>2. /\ playing \in BOOLEAN
        /\ endpoint => m = PlayMsg(playing)
        /\ ~ endpoint => playing = done.playing
        /\ m = PlayMsg(~ done.playing)
      BY <1>1 DEF PlayToggled, PlayMsg
  <2>3. m \in PlayMsgs /\ m \in Command /\ m \notin ModeMsgs /\ m \notin ShapeMsgs
      BY <2>2, KindsOfMessages
  <2> HIDE DEF m, playing
  <2>4. /\ Append(sent, m) \in Seq(Command)
        /\ None(Append(sent, m), PlayMsgs) <=> None(sent, PlayMsgs) /\ m \notin PlayMsgs
        /\ EndsIn(Append(sent, m), PlayMsgs, {m})
      BY <1>1, <2>3, AppendEnds
  <2>5. /\ EndsIn(Append(sent, m), ModeMsgs, {ModeMsg(done.mode)})
        /\ None(Append(sent, m), ModeMsgs) <=> None(sent, ModeMsgs) /\ m \notin ModeMsgs
    <3>1. EndsIn(sent, ModeMsgs, {ModeMsg(done.mode)})
        BY DEF Tells
    <3> QED BY <1>1, <2>3, <3>1, AppendEnds
  <2>6. None(Append(sent, m), ShapeMsgs)
      BY <1>1, <2>3, AppendNone DEF Tells
  <2>7. /\ next \in PinsState /\ next.mode = done.mode /\ next.playing = playing
        /\ next.sent = Append(sent, m)
      BY <1>1, <2>2, <2>4 DEF PinsState
  <2> HIDE DEF next, sent
  <2>8. endpoint => EndsIn(next.sent, PlayMsgs, {PlayMsg(next.playing)})
      BY <2>2, <2>4, <2>7
  <2>9. Tells(next)
      BY <2>2, <2>3, <2>4, <2>5, <2>6, <2>7, <2>8 DEF Tells, sent
  <2> QED BY <2>1, <2>9
<1>4. CASE Role[pin] \in ServiceMode
  <2> DEFINE mode == Role[pin]
             m == ModeMsg(mode)
             next == [done EXCEPT !.mode = mode, !.sent = Append(sent, m)]
  <2>1. PinClicked(done, pin) = next
      BY <1>4 DEF PinClicked, EncoderModeSet, ServiceMode, PinCommand
  <2>2. mode \in ServiceMode
      BY <1>4
  <2>3. m \in ModeMsgs /\ m \in Command /\ m \notin PlayMsgs /\ m \notin ShapeMsgs
      BY <2>2, KindsOfMessages
  <2> HIDE DEF m, mode
  <2>4. /\ Append(sent, m) \in Seq(Command)
        /\ None(Append(sent, m), ModeMsgs) <=> None(sent, ModeMsgs) /\ m \notin ModeMsgs
        /\ EndsIn(Append(sent, m), ModeMsgs, {m})
      BY <1>1, <2>3, AppendEnds
  <2>5. /\ endpoint => EndsIn(Append(sent, m), PlayMsgs, {PlayMsg(done.playing)})
        /\ None(Append(sent, m), PlayMsgs) => None(sent, PlayMsgs)
    <3>1. CASE endpoint
      <4>1. EndsIn(sent, PlayMsgs, {PlayMsg(done.playing)})
          BY <3>1 DEF Tells
      <4> QED BY <1>1, <2>3, <4>1, AppendEnds
    <3>2. CASE ~ endpoint
      <4> DEFINE all == PlayMsgs
      <4>1. EndsIn(sent, all, all)
          BY DEF EndsIn
      <4>2. None(Append(sent, m), all) <=> None(sent, all) /\ m \notin all
        <5> HIDE DEF all
        <5> QED BY <1>1, <2>3, <4>1, AppendEnds
      <4> QED BY <3>2, <4>2
    <3> QED BY <3>1, <3>2
  <2>6. None(Append(sent, m), ShapeMsgs)
      BY <1>1, <2>3, AppendNone DEF Tells
  <2>7. /\ next \in PinsState /\ next.mode = mode /\ next.playing = done.playing
        /\ next.sent = Append(sent, m)
      BY <1>1, <2>2, <2>4 DEF PinsState
  <2> HIDE DEF next, sent
  <2>8. EndsIn(next.sent, ModeMsgs, {ModeMsg(next.mode)})
      BY <2>4, <2>7 DEF m
  <2>9. Tells(next)
      BY <2>3, <2>4, <2>5, <2>6, <2>7, <2>8 DEF Tells, sent
  <2> QED BY <2>1, <2>9
<1>5. CASE Role[pin] \in DOMAIN PinCommand
  <2> DEFINE m == [type |-> PinCommand[Role[pin]]]
             next == [done EXCEPT !.sent = Append(sent, m)]
  <2>1. PinClicked(done, pin) = next
      BY <1>5 DEF PinClicked, ServiceMode, PinCommand
  <2>2. m.type \in {"POLY_NAV_LEFT", "POLY_NAV_RIGHT", "POLY_ENCODER_CLICK"}
      BY <1>5 DEF PinCommand
  <2>3. m \in Command /\ m \notin PlayMsgs /\ m \notin ModeMsgs /\ m \notin ShapeMsgs
      BY <2>2 DEF Command, PlayMsgs, ModeMsgs, ShapeMsgs, SetsPlay, SetsMode, SetsShape
  <2> HIDE DEF m
  <2>4. /\ Append(sent, m) \in Seq(Command)
        /\ EndsIn(Append(sent, m), ModeMsgs, {ModeMsg(done.mode)})
        /\ None(Append(sent, m), ModeMsgs) <=> None(sent, ModeMsgs) /\ m \notin ModeMsgs
    <3>1. EndsIn(sent, ModeMsgs, {ModeMsg(done.mode)})
        BY DEF Tells
    <3> QED BY <1>1, <2>3, <3>1, AppendEnds
  <2>5. CASE ~ endpoint
    <3>1. None(Append(sent, m), ShapeMsgs)
        BY <1>1, <2>3, AppendNone DEF Tells
    <3>2. /\ next \in PinsState /\ next.mode = done.mode /\ next.playing = done.playing
          /\ next.sent = Append(sent, m)
        BY <1>1, <2>4 DEF PinsState
    <3> HIDE DEF next, sent
    <3> QED BY <2>1, <2>3, <2>4, <2>5, <3>1, <3>2 DEF Tells, sent
  <2>6. CASE endpoint
    <3>1. /\ EndsIn(Append(sent, m), PlayMsgs, {PlayMsg(done.playing)})
          /\ None(Append(sent, m), PlayMsgs) <=> None(sent, PlayMsgs) /\ m \notin PlayMsgs
      <4>1. EndsIn(sent, PlayMsgs, {PlayMsg(done.playing)})
          BY <2>6 DEF Tells
      <4> QED BY <1>1, <2>3, <4>1, AppendEnds
    <3>2. None(Append(sent, m), ShapeMsgs)
        BY <1>1, <2>3, AppendNone DEF Tells
    <3>3. /\ next \in PinsState /\ next.mode = done.mode /\ next.playing = done.playing
          /\ next.sent = Append(sent, m)
        BY <1>1, <2>4 DEF PinsState
    <3> HIDE DEF next, sent
    <3> QED BY <2>1, <2>3, <2>4, <2>6, <3>1, <3>2, <3>3 DEF Tells, sent
  <2> QED BY <2>5, <2>6
<1>6. CASE Role[pin] = "none"
  <2>1. PinClicked(done, pin) = done
      BY <1>6 DEF PinClicked, ServiceMode, PinCommand
  <2> QED BY <2>1
<1> QED BY <1>2, <1>3, <1>4, <1>5, <1>6 DEF PinRole
LEMMA PinsTell ==
  ASSUME ServiceSound, NEW down
  PROVE  Tells(PinsHandled(down))
<1> DEFINE n == NumPins
           Next1(f, i) == IF i = 0 THEN PinsStart
                          ELSE IF i - 1 \in Pins /\ Click(i - 1, down)
                          THEN PinClicked(f[i - 1], i - 1) ELSE f[i - 1]
           done == CHOOSE f : f = [i \in 0 .. n |-> Next1(f, i)]
           Told == {x \in PinsState : Tells(x)}
           step == [i \in 1 .. n |-> [x \in Told |-> PinDone(down, i, x)]]
<1>1. n \in Nat
    BY DEF NumPins
<1>2. PinsHandled(down) = done[n]
    BY DEF PinsHandled, PinsStart
<1> HIDE DEF n
<1>3. PinsStart \in Told
  <2>1. PinsStart \in PinsState /\ PinsStart.sent = << >> /\ PinsStart.mode = encoderMode
        /\ PinsStart.playing = playingState
      BY DEF PinsState, PinsStart, ServiceSound
  <2>2. \A K, T : None(PinsStart.sent, K) /\ EndsIn(PinsStart.sent, K, T)
      BY <2>1, NothingEnds
  <2> QED BY <2>1, <2>2 DEF Tells
<1>4. \A i \in 1 .. n, x \in Told : PinDone(down, i, x) \in Told
  <2> SUFFICES ASSUME NEW i \in 1 .. n, NEW x \in Told PROVE Tells(PinDone(down, i, x))
      BY DEF Tells
  <2>1. i - 1 \in Pins => Tells(PinClicked(x, i - 1))
      BY PinTells DEF ServiceSound
  <2> QED BY <2>1 DEF PinDone
<1> HIDE DEF Told
<1>5. \A i \in 1 .. n, x \in Told : step[i][x] = PinDone(down, i, x)
    OBVIOUS
<1> HIDE DEF step
<1>6. PICK a \in [0 .. n -> Told] : Runs(a, PinsStart, step, n)
  <2>1. \A i \in 1 .. n, x \in Told : step[i][x] \in Told
      BY <1>4, <1>5
  <2> QED BY <1>1, <1>3, <2>1, StepByStep
<1>7. /\ a[0] = PinsStart /\ \A i \in 0 .. n : a[i] \in Told
      /\ \A i \in 1 .. n : a[i] = PinDone(down, i, a[i - 1])
  <2>1. \A i \in 1 .. n : i - 1 \in 0 .. n
      BY <1>1
  <2> QED BY <1>5, <1>6, <2>1 DEF Runs
<1>8. a = [i \in 0 .. n |-> Next1(a, i)]
  <2>1. ASSUME NEW i \in 0 .. n PROVE a[i] = Next1(a, i)
    <3>1. CASE i = 0
        BY <1>7, <3>1
    <3>2. CASE i # 0
      <4>1. i \in 1 .. n
          BY <1>1, <3>2
      <4> QED BY <1>7, <3>2, <4>1 DEF PinDone
    <3> QED BY <3>1, <3>2
  <2>2. a = [i \in 0 .. n |-> a[i]]
      BY <1>6
  <2> HIDE DEF Next1
  <2> QED BY <2>1, <2>2
<1>9. done = [i \in 0 .. n |-> Next1(done, i)]
  <2> HIDE DEF Next1
  <2> QED BY <1>8
<1> HIDE DEF done
<1>10. ASSUME NEW i \in 0 .. n PROVE done[i] = Next1(done, i)
  <2> HIDE DEF Next1
  <2> QED BY <1>9
<1> DEFINE Same == {i \in 0 .. n : done[i] = a[i]}
<1>11. 0 \in Same
    BY <1>1, <1>7, <1>10
<1>12. ASSUME NEW k \in 0 .. n - 1, k \in Same PROVE k + 1 \in Same
  <2>1. k + 1 \in 1 .. n /\ k + 1 \in 0 .. n /\ k + 1 # 0 /\ (k + 1) - 1 = k
      BY <1>1
  <2>2. done[k + 1] = PinDone(down, k + 1, done[k])
      BY <1>10, <2>1 DEF PinDone
  <2> QED BY <1>7, <1>12, <2>1, <2>2
<1> HIDE DEF Same
<1>13. \A k \in 0 .. n : k \in Same
    BY <1>1, <1>11, <1>12, UpTo
<1>14. n \in Same
    BY <1>1, <1>13
<1>15. done[n] = a[n] /\ a[n] \in Told
    BY <1>1, <1>7, <1>14 DEF Same
<1> QED BY <1>2, <1>15 DEF Told

-----------------------------------------------------------------------------
(***************************************************************************)
(* A step that sends the messages s, with what they tell.                  *)
(***************************************************************************)
LEMMA SentMessages ==
  ASSUME ServiceSound, NEW b \in Seq(Command), Sends(b)
  PROVE  /\ Sent \in Seq(Command) /\ toAudio' = toAudio \o Sent
         /\ toAudio' \in Seq(Command)
         /\ Sent = IF endpoint THEN b ELSE << >>
<1>1. toAudio \in Seq(Command) /\ endpoint \in BOOLEAN
    BY DEF ServiceSound
<1>2. CASE endpoint
  <2>1. toAudio' = toAudio \o b /\ toAudio' \in Seq(Command)
      BY <1>1, <1>2 DEF Sends
  <2>2. Sent = b
      BY <1>1, <2>1, SubSeqBehind DEF Sent
  <2> QED BY <1>2, <2>1, <2>2
<1>3. CASE ~ endpoint
  <2> DEFINE none == << >>
  <2>1. none \in Seq(Command) /\ toAudio' = toAudio \o none /\ toAudio' = toAudio
      BY <1>1, <1>3 DEF Sends
  <2> HIDE DEF none
  <2>2. Sent = none
      BY <1>1, <2>1, SubSeqBehind DEF Sent
  <2> QED BY <1>1, <1>3, <2>1, <2>2 DEF none
<1> QED BY <1>1, <1>2, <1>3

LEMMA SomeSent ==
  ASSUME Sent \in Seq(Command)
  PROVE  /\ AnySent(SetsPlay) <=> ~ None(Sent, PlayMsgs)
         /\ AnySent(SetsMode) <=> ~ None(Sent, ModeMsgs)
         /\ AnySent(SetsShape) <=> ~ None(Sent, ShapeMsgs)
<1>1. DOMAIN Sent = 1 .. Len(Sent) /\ \A i \in 1 .. Len(Sent) : Sent[i] \in Command
    OBVIOUS
<1> QED BY <1>1 DEF AnySent, None, PlayMsgs, ModeMsgs, ShapeMsgs

LEMMA SendingMirrorsPlay ==
  ASSUME MirrorInv, NEW s \in Seq(Command), toAudio' = toAudio \o s, isPlaying' = isPlaying,
         ~ playElsewhere' => /\ ~ playElsewhere
                             /\ EndsIn(s, PlayMsgs, {PlayMsg(playingState')})
                             /\ None(s, PlayMsgs) => playingState' = playingState
  PROVE  PlayMirrored'
<1> SUFFICES ASSUME ~ playElsewhere'
             PROVE  /\ EndsIn(toAudio \o s, PlayMsgs, {PlayMsg(playingState')})
                    /\ None(toAudio \o s, PlayMsgs) => isPlaying = playingState'
    BY DEF PlayMirrored
<1>1. toAudio \in Seq(Command)
    BY DEF MirrorInv, ServiceSound
<1>2. None(s, PlayMsgs) => /\ EndsIn(toAudio, PlayMsgs, {PlayMsg(playingState')})
                           /\ None(toAudio, PlayMsgs) => isPlaying = playingState'
    BY DEF MirrorInv, PlayMirrored
<1>3. EndsIn(toAudio \o s, PlayMsgs, {PlayMsg(playingState')})
    BY <1>1, <1>2, BehindEnds
<1> QED BY <1>1, <1>2, <1>3, BothNone

LEMMA SendingMirrorsMode ==
  ASSUME MirrorInv, NEW s \in Seq(Command), toAudio' = toAudio \o s, hardwareMode' = hardwareMode,
         modeSent' => /\ EndsIn(s, ModeMsgs, {ModeMsg(encoderMode')})
                      /\ None(s, ModeMsgs) => modeSent /\ encoderMode' = encoderMode
  PROVE  ModeMirrored'
<1> SUFFICES ASSUME modeSent'
             PROVE  /\ EndsIn(toAudio \o s, ModeMsgs, {ModeMsg(encoderMode')})
                    /\ None(toAudio \o s, ModeMsgs) => hardwareMode = encoderMode'
    BY DEF ModeMirrored
<1>1. toAudio \in Seq(Command)
    BY DEF MirrorInv, ServiceSound
<1>2. None(s, ModeMsgs) => /\ EndsIn(toAudio, ModeMsgs, {ModeMsg(encoderMode')})
                           /\ None(toAudio, ModeMsgs) => hardwareMode = encoderMode'
    BY DEF MirrorInv, ModeMirrored
<1>3. EndsIn(toAudio \o s, ModeMsgs, {ModeMsg(encoderMode')})
    BY <1>1, <1>2, BehindEnds
<1> QED BY <1>1, <1>2, <1>3, BothNone

LEMMA SendingMirrorsShape ==
  ASSUME MirrorInv, NEW s \in Seq(Command), toAudio' = toAudio \o s, rings' = rings,
         ~ shapeElsewhere' => /\ ~ shapeElsewhere
                              /\ None(s, ShapeMsgs \ {PotMsg(n) : n \in Nat})
                              /\ EndsIn(s, ShapeMsgs, {PotMsg(lastMapped')})
                              /\ None(s, ShapeMsgs) => lastMapped' = lastMapped
  PROVE  ShapeMirrored'
<1> DEFINE Others == ShapeMsgs \ {PotMsg(n) : n \in Nat}
<1>1. toAudio \in Seq(Command) /\ PotMsg(lastMapped)' = PotMsg(lastMapped')
    BY DEF MirrorInv, ServiceSound, PotMsg
<1> SUFFICES ASSUME ~ shapeElsewhere'
             PROVE  /\ None(toAudio \o s, Others)
                    /\ PotRing \in Ring => rings[PotRing].shapes # << >>
                    /\ lastMapped' # Unread =>
                         /\ EndsIn(toAudio \o s, ShapeMsgs, {PotMsg(lastMapped')})
                         /\ None(toAudio \o s, ShapeMsgs) /\ PotRing \in Ring
                              => rings[PotRing].shapes[1].subdivision = lastMapped'
    BY <1>1 DEF ShapeMirrored
<1>2. /\ None(toAudio, Others) /\ None(s, Others)
      /\ PotRing \in Ring => rings[PotRing].shapes # << >>
    BY DEF MirrorInv, ShapeMirrored
<1> HIDE DEF Others
<1>3. None(toAudio \o s, Others)
    BY <1>1, <1>2, BothNone
<1>4. ASSUME lastMapped' # Unread
      PROVE  /\ EndsIn(toAudio \o s, ShapeMsgs, {PotMsg(lastMapped')})
             /\ None(toAudio \o s, ShapeMsgs) /\ PotRing \in Ring
                  => rings[PotRing].shapes[1].subdivision = lastMapped'
  <2>1. None(s, ShapeMsgs) =>
          /\ EndsIn(toAudio, ShapeMsgs, {PotMsg(lastMapped')})
          /\ None(toAudio, ShapeMsgs) /\ PotRing \in Ring
               => rings[PotRing].shapes[1].subdivision = lastMapped'
      BY <1>4 DEF MirrorInv, ShapeMirrored
  <2>2. EndsIn(toAudio \o s, ShapeMsgs, {PotMsg(lastMapped')})
      BY <1>1, <2>1, BehindEnds
  <2>3. None(toAudio \o s, ShapeMsgs) <=> None(toAudio, ShapeMsgs) /\ None(s, ShapeMsgs)
      BY <1>1, BothNone
  <2> QED BY <2>1, <2>2, <2>3
<1> QED BY <1>2, <1>3, <1>4
-----------------------------------------------------------------------------
(***************************************************************************)
(* What a poll sends before the pins.                                      *)
(***************************************************************************)
PotMsgs == {PotMsg(n) : n \in Nat}

Before(down, raw) == KnobMessages \o SwitchMessages(down) \o PotMessages(raw)

LEMMA NoneEnds ==
  ASSUME NEW s, NEW K, NEW T, None(s, K)
  PROVE  EndsIn(s, K, T)
BY DEF None, EndsIn

LEMMA MappedType ==
  ASSUME NEW raw \in PotReadings
  PROVE  Mapped(raw) \in Nat
<1> DEFINE span == IF PotMax > PotMin THEN PotMax - PotMin ELSE 1
           wide == raw * span
<1>1. PotMin \in Nat /\ PotMax \in Nat /\ raw \in Nat
    BY HardwareAssumption DEF HardwareAssumption
<1>2. span \in Nat
    BY <1>1
<1> HIDE DEF span
<1>3. wide \in Nat
    BY <1>1, <1>2
<1> HIDE DEF wide
<1>4. (wide + 511) \div 1023 \in Nat
    BY <1>3
<1>5. PotMin + (wide + 511) \div 1023 \in Nat
    BY <1>1, <1>4
<1> QED BY <1>1, <1>5 DEF Mapped, wide, span

LEMMA OneMessage ==
  ASSUME NEW m \in Command
  PROVE  /\ <<m>> \in Seq(Command) /\ << >> \in Seq(Command)
         /\ \A K : None(<< >>, K) /\ (m \notin K => None(<<m>>, K))
<1>1. <<m>> \in Seq(Command) /\ << >> \in Seq(Command)
    OBVIOUS
<1>2. \A K : None(<< >>, K)
    BY NothingEnds
<1>3. \A K : m \notin K => None(<<m>>, K)
    BY OneEnds
<1> QED BY <1>1, <1>2, <1>3

LEMMA KnobSends ==
  /\ KnobMessages \in Seq(Command)
  /\ None(KnobMessages, PlayMsgs) /\ None(KnobMessages, ModeMsgs)
  /\ ~ StepDetected => None(KnobMessages, ShapeMsgs)
  /\ StepDetected => Len(KnobMessages) = 1 /\ KnobMessages[1].type = "POLY_ENCODER_DELTA"
<1> DEFINE m == [type |-> "POLY_ENCODER_DELTA", amount |-> Direction * Step]
<1>1. Step \in Int /\ Direction \in {1, -1}
    BY HardwareAssumption DEF HardwareAssumption, Direction
<1>2. Direction * Step \in Int
    BY <1>1
<1>3. m \in Command /\ m \notin PlayMsgs /\ m \notin ModeMsgs /\ m.type = "POLY_ENCODER_DELTA"
    BY <1>2 DEF Command, PlayMsgs, ModeMsgs, SetsPlay, SetsMode
<1>4. KnobMessages = IF StepDetected THEN <<m>> ELSE << >>
    BY DEF KnobMessages
<1>5. Len(<<m>>) = 1 /\ <<m>>[1] = m
    OBVIOUS
<1> HIDE DEF m
<1> QED BY <1>3, <1>4, <1>5, OneMessage

LEMMA SwitchSends ==
  ASSUME NEW down
  PROVE  /\ SwitchMessages(down) \in Seq(Command)
         /\ None(SwitchMessages(down), PlayMsgs) /\ None(SwitchMessages(down), ModeMsgs)
         /\ None(SwitchMessages(down), ShapeMsgs)
<1> DEFINE m == [type |-> "POLY_ENCODER_CLICK"]
<1>1. m \in Command /\ m \notin PlayMsgs /\ m \notin ModeMsgs /\ m \notin ShapeMsgs
    BY DEF Command, PlayMsgs, ModeMsgs, ShapeMsgs, SetsPlay, SetsMode, SetsShape
<1>2. SwitchMessages(down) = IF Click(Switch, down) THEN <<m>> ELSE << >>
    BY DEF SwitchMessages
<1> HIDE DEF m
<1> QED BY <1>1, <1>2, OneMessage

LEMMA PotSends ==
  ASSUME NEW raw \in PotReadings \cup {Unread}
  PROVE  /\ PotMessages(raw) \in Seq(Command)
         /\ None(PotMessages(raw), PlayMsgs) /\ None(PotMessages(raw), ModeMsgs)
         /\ None(PotMessages(raw), ShapeMsgs \ PotMsgs)
         /\ EndsIn(PotMessages(raw), ShapeMsgs, {PotMsg(Mapped(raw))})
         /\ None(PotMessages(raw), ShapeMsgs) <=> ~ PotChanges(raw)
<1> DEFINE m == PotMsg(Mapped(raw))
           Others == ShapeMsgs \ PotMsgs
<1>1. PotMessages(raw) = IF PotChanges(raw) THEN <<m>> ELSE << >>
    BY DEF PotMessages, PotMsg
<1>2. CASE ~ PotChanges(raw)
  <2>1. \A K, T : None(<< >>, K) /\ EndsIn(<< >>, K, T)
      BY NothingEnds
  <2>2. << >> \in Seq(Command)
      OBVIOUS
  <2> QED BY <1>1, <1>2, <2>1, <2>2
<1>3. CASE PotChanges(raw)
  <2>1. Mapped(raw) \in Nat
      BY <1>3, MappedType DEF PotChanges, PotMoved
  <2>2. m \in ShapeMsgs /\ m \in PotMsgs /\ m \in Command /\ m \notin PlayMsgs /\ m \notin ModeMsgs
      BY <2>1, KindsOfMessages DEF PotMsgs
  <2>3. m \notin Others
      BY <2>2
  <2> HIDE DEF m, Others
  <2>4. /\ <<m>> \in Seq(Command) /\ None(<<m>>, PlayMsgs) /\ None(<<m>>, ModeMsgs)
        /\ None(<<m>>, Others)
      BY <2>2, <2>3, OneMessage
  <2>5. EndsIn(<<m>>, ShapeMsgs, {m}) /\ ~ None(<<m>>, ShapeMsgs)
    <3>1. m \in {m}
        OBVIOUS
    <3> QED BY <2>2, <3>1, OneEnds
  <2> QED BY <1>1, <1>3, <2>4, <2>5 DEF m, Others
<1> QED BY <1>2, <1>3

LEMMA BeforeSends ==
  ASSUME NEW down, NEW raw \in PotReadings \cup {Unread}
  PROVE  /\ Before(down, raw) \in Seq(Command)
         /\ None(Before(down, raw), PlayMsgs) /\ None(Before(down, raw), ModeMsgs)
         /\ ~ StepDetected => /\ None(Before(down, raw), ShapeMsgs \ PotMsgs)
                              /\ EndsIn(Before(down, raw), ShapeMsgs, {PotMsg(Mapped(raw))})
                              /\ None(Before(down, raw), ShapeMsgs) <=> ~ PotChanges(raw)
         /\ StepDetected => /\ Len(Before(down, raw)) \in Nat \ {0}
                            /\ Before(down, raw)[1].type = "POLY_ENCODER_DELTA"
<1> DEFINE knobs == KnobMessages
           click == SwitchMessages(down)
           pot == PotMessages(raw)
           Others == ShapeMsgs \ PotMsgs
           first == knobs \o click
<1>1. /\ knobs \in Seq(Command) /\ click \in Seq(Command) /\ pot \in Seq(Command)
      /\ first \in Seq(Command) /\ Before(down, raw) = first \o pot
      /\ first \o pot \in Seq(Command)
  <2>1. knobs \in Seq(Command) /\ click \in Seq(Command) /\ pot \in Seq(Command)
      BY KnobSends, SwitchSends, PotSends
  <2>2. Before(down, raw) = first \o pot
      BY DEF Before
  <2> HIDE DEF knobs, click, pot
  <2> QED BY <2>1, <2>2
<1>2. \A K : None(first \o pot, K) <=> None(first, K) /\ None(pot, K)
  <2> HIDE DEF first, pot
  <2> QED BY <1>1, BothNone
<1>3. \A K : None(first, K) <=> None(knobs, K) /\ None(click, K)
  <2> HIDE DEF knobs, click
  <2> QED BY <1>1, BothNone
<1>4. None(first, PlayMsgs) /\ None(first, ModeMsgs)
    BY <1>3, KnobSends, SwitchSends
<1>5. ~ StepDetected => None(first, ShapeMsgs) /\ None(first, Others)
  <2>1. ~ StepDetected => None(first, ShapeMsgs)
      BY <1>3, KnobSends, SwitchSends
  <2> HIDE DEF first
  <2>2. None(first, ShapeMsgs) => None(first, Others)
      BY DEF None
  <2> QED BY <2>1, <2>2
<1>6. /\ None(pot, PlayMsgs) /\ None(pot, ModeMsgs) /\ None(pot, Others)
      /\ EndsIn(pot, ShapeMsgs, {PotMsg(Mapped(raw))})
      /\ None(pot, ShapeMsgs) <=> ~ PotChanges(raw)
    BY PotSends
<1>7. ASSUME StepDetected
      PROVE  Len(first \o pot) \in Nat \ {0} /\ (first \o pot)[1].type = "POLY_ENCODER_DELTA"
  <2>1. Len(knobs) = 1 /\ knobs[1].type = "POLY_ENCODER_DELTA"
      BY <1>7, KnobSends
  <2> HIDE DEF knobs, click, pot
  <2>2. Len(first) \in Nat \ {0} /\ first[1] = knobs[1]
    <3>1. 1 \in 1 .. Len(knobs)
        BY <2>1
    <3>2. /\ Len(click) \in Nat /\ Len(first) = Len(knobs) + Len(click)
          /\ \A i \in 1 .. Len(knobs) : first[i] = knobs[i]
        BY <1>1, BehindAnother
    <3> HIDE DEF first
    <3> QED BY <2>1, <3>1, <3>2
  <2> HIDE DEF first
  <2>3. Len(first \o pot) \in Nat \ {0} /\ (first \o pot)[1] = first[1]
      BY <1>1, <2>2
  <2> QED BY <2>1, <2>2, <2>3
<1> HIDE DEF first, pot, Others
<1>8. ~ StepDetected => EndsIn(first \o pot, ShapeMsgs, {PotMsg(Mapped(raw))})
  <2>1. ~ StepDetected => EndsIn(first, ShapeMsgs, {PotMsg(Mapped(raw))})
      BY <1>5, NoneEnds
  <2> QED BY <1>1, <1>6, <2>1, BehindEnds
<1> QED BY <1>1, <1>2, <1>4, <1>5, <1>6, <1>7, <1>8 DEF Others
-----------------------------------------------------------------------------
(* Every step keeps what the service remembers.                            *)
LEMMA PollMirrors ==
  ASSUME MirrorInv, ServicePolls
  PROVE  MirrorInv'
<1>1. PICK down \in [Buttons -> BOOLEAN], raw \in PotReadings \cup {Unread} : Poll(down, raw)
    BY DEF ServicePolls
<1> DEFINE pins == PinsHandled(down)
           before == Before(down, raw)
           b == before \o pins.sent
           Others == ShapeMsgs \ PotMsgs
<1>2. /\ ServiceSound /\ Sound /\ Tells(pins)
      /\ Sends(b) /\ encoderMode' = pins.mode /\ playingState' = pins.playing
      /\ PotStored(raw) /\ UNCHANGED engineVars /\ endpoint' = endpoint
      /\ playElsewhere' = playElsewhere
      /\ endpoint \in BOOLEAN
  <2>1. ServiceSound /\ Sound /\ endpoint \in BOOLEAN
      BY DEF MirrorInv, ServiceSound
  <2>2. Tells(pins)
      BY <2>1, PinsTell
  <2> QED BY <1>1, <2>1, <2>2 DEF Poll, Before, ServicePolls
<1>3. /\ modeSent' = (AnySent(SetsMode) \/ (modeSent /\ encoderMode' = encoderMode))
      /\ shapeElsewhere' =
           (\/ shapeElsewhere
            \/ \E i \in DOMAIN Sent : Sent[i].type = "POLY_ENCODER_DELTA"
            \/ lastMapped' # lastMapped /\ ~ endpoint)
    BY DEF ServicePolls
<1>4. /\ before \in Seq(Command)
      /\ None(before, PlayMsgs) /\ None(before, ModeMsgs)
      /\ ~ StepDetected => /\ None(before, Others)
                           /\ EndsIn(before, ShapeMsgs, {PotMsg(Mapped(raw))})
                           /\ None(before, ShapeMsgs) <=> ~ PotChanges(raw)
      /\ StepDetected => Len(before) \in Nat \ {0} /\ before[1].type = "POLY_ENCODER_DELTA"
    BY BeforeSends
<1>5. pins.sent \in Seq(Command) /\ pins.mode \in ServiceMode /\ pins.playing \in BOOLEAN
    BY <1>2 DEF Tells, PinsState
<1>6. pins \in PinsState
    BY <1>2 DEF Tells
<1>7. None(pins.sent, ShapeMsgs) /\ None(pins.sent, Others)
  <2>1. None(pins.sent, ShapeMsgs)
      BY <1>2 DEF Tells
  <2> QED BY <2>1 DEF None
<1> HIDE DEF pins, before
<1>8. b \in Seq(Command)
    BY <1>4, <1>5
<1> DEFINE all == pins.sent
<1>9. \A K : None(b, K) <=> None(before, K) /\ None(all, K)
  <2> HIDE DEF all
  <2> QED BY <1>4, <1>5, BothNone DEF all
<1>10. /\ endpoint => EndsIn(b, PlayMsgs, {PlayMsg(pins.playing)})
       /\ EndsIn(b, ModeMsgs, {ModeMsg(pins.mode)})
  <2>1. /\ endpoint => EndsIn(all, PlayMsgs, {PlayMsg(pins.playing)})
        /\ EndsIn(all, ModeMsgs, {ModeMsg(pins.mode)})
      BY <1>2 DEF Tells
  <2>2. \A T : EndsIn(before, PlayMsgs, T) /\ EndsIn(before, ModeMsgs, T)
      BY <1>4, NoneEnds
  <2> HIDE DEF all
  <2> QED BY <1>4, <1>5, <2>1, <2>2, BehindEnds DEF all
<1>11. ~ StepDetected => EndsIn(b, ShapeMsgs, {PotMsg(Mapped(raw))})
  <2>1. EndsIn(all, ShapeMsgs, {PotMsg(Mapped(raw))})
      BY <1>7, NoneEnds
  <2> HIDE DEF all
  <2> QED BY <1>4, <1>5, <2>1, BehindEnds DEF all
<1>12. StepDetected => 1 \in DOMAIN b /\ b[1].type = "POLY_ENCODER_DELTA"
    BY <1>4, <1>5
<1> HIDE DEF b, all
<1>13. /\ Sent \in Seq(Command) /\ toAudio' = toAudio \o Sent /\ toAudio' \in Seq(Command)
       /\ Sent = IF endpoint THEN b ELSE << >>
    BY <1>2, <1>8, SentMessages
<1>14. \A K, T : None(<< >>, K) /\ EndsIn(<< >>, K, T)
    BY NothingEnds
<1>15. ServiceSound'
    BY <1>2, <1>5, <1>13 DEF ServiceSound, Sound, SoundRing, engineVars
<1>16. PlayMirrored'
  <2>1. EndsIn(Sent, PlayMsgs, {PlayMsg(playingState')})
      BY <1>2, <1>10, <1>13, <1>14
  <2>2. None(Sent, PlayMsgs) => playingState' = playingState
      BY <1>2, <1>9, <1>13 DEF Tells, all
  <2>3. isPlaying' = isPlaying
      BY <1>2 DEF engineVars
  <2> QED BY <1>2, <1>13, <2>1, <2>2, <2>3, SendingMirrorsPlay
<1>17. ModeMirrored'
  <2>1. EndsIn(Sent, ModeMsgs, {ModeMsg(encoderMode')})
      BY <1>2, <1>10, <1>13, <1>14
  <2>2. None(Sent, ModeMsgs) => (modeSent' => modeSent /\ encoderMode' = encoderMode)
      BY <1>3, <1>13, SomeSent
  <2>3. hardwareMode' = hardwareMode
      BY <1>2 DEF engineVars
  <2> QED BY <1>13, <2>1, <2>2, <2>3, SendingMirrorsMode
<1>18. ShapeMirrored'
  <2> SUFFICES ASSUME ~ shapeElsewhere'
               PROVE  /\ ~ shapeElsewhere
                      /\ None(Sent, Others)
                      /\ EndsIn(Sent, ShapeMsgs, {PotMsg(lastMapped')})
                      /\ None(Sent, ShapeMsgs) => lastMapped' = lastMapped
    <3>1. rings' = rings
        BY <1>2 DEF engineVars
    <3> QED BY <1>13, <3>1, SendingMirrorsShape DEF Others, PotMsgs
  <2>1. /\ ~ shapeElsewhere
        /\ \A i \in DOMAIN Sent : Sent[i].type # "POLY_ENCODER_DELTA"
        /\ endpoint \/ lastMapped' = lastMapped
      BY <1>3
  <2>2. CASE ~ endpoint
      BY <1>13, <1>14, <2>1, <2>2
  <2>3. CASE endpoint
    <3>1. Sent = b /\ ~ StepDetected
        BY <1>12, <1>13, <2>1, <2>3
    <3>2. PotChanges(raw) => lastMapped' = Mapped(raw)
        BY <1>2 DEF PotChanges, PotStored
    <3>3. ~ PotChanges(raw) => lastMapped' = lastMapped
        BY <1>2 DEF PotChanges, PotStored
    <3>4. None(b, Others)
        BY <1>4, <1>7, <1>9, <3>1 DEF all
    <3>5. None(b, ShapeMsgs) <=> ~ PotChanges(raw)
        BY <1>4, <1>7, <1>9, <3>1 DEF all
    <3>6. EndsIn(b, ShapeMsgs, {PotMsg(lastMapped')})
      <4>1. CASE PotChanges(raw)
          BY <1>11, <3>1, <3>2, <4>1
      <4>2. CASE ~ PotChanges(raw)
          BY <3>5, <4>2, NoneEnds
      <4> QED BY <4>1, <4>2
    <3> QED BY <2>1, <3>1, <3>3, <3>4, <3>5, <3>6
  <2> QED BY <2>2, <2>3
<1> QED BY <1>15, <1>16, <1>17, <1>18 DEF MirrorInv
(* A line of the command file.                                             *)
LEMMA LineMirrors ==
  ASSUME MirrorInv, NEW line \in Lines, ServiceReadsLine(line)
  PROVE  MirrorInv'
<1>1. /\ ServiceSound /\ Sound /\ endpoint \in BOOLEAN /\ endpoint' = endpoint
      /\ UNCHANGED engineVars /\ lastMapped' = lastMapped
      /\ playElsewhere' = (playElsewhere \/ AnySent(SetsPlay))
      /\ modeSent' = (\/ line.cmd = "mode" /\ endpoint
                      \/ modeSent /\ encoderMode' = encoderMode /\ ~ AnySent(SetsMode))
      /\ shapeElsewhere' = (shapeElsewhere \/ AnySent(SetsShape))
    BY DEF MirrorInv, ServiceSound, ServiceReadsLine, CommandLine, readings
<1>2. ASSUME NEW m \in Command, Sends(<<m>>), playingState' = playingState,
             encoderMode' \in ServiceMode,
             encoderMode' # encoderMode \/ line.cmd = "mode" => m = ModeMsg(encoderMode')
      PROVE  MirrorInv'
  <2> DEFINE b == <<m>>
  <2>1. b \in Seq(Command) /\ Sends(b)
      BY <1>2
  <2>2. \A K, T : (m \notin K \/ m \in T) => EndsIn(b, K, T)
      BY OneEnds
  <2>3. \A K : None(b, K) <=> m \notin K
      BY OneEnds
  <2>4. \A K, T : None(<< >>, K) /\ EndsIn(<< >>, K, T)
      BY NothingEnds
  <2> HIDE DEF b
  <2>5. /\ Sent \in Seq(Command) /\ toAudio' = toAudio \o Sent /\ toAudio' \in Seq(Command)
        /\ Sent = IF endpoint THEN b ELSE << >>
      BY <1>1, <2>1, SentMessages
  <2>6. /\ AnySent(SetsPlay) <=> ~ None(Sent, PlayMsgs)
        /\ AnySent(SetsMode) <=> ~ None(Sent, ModeMsgs)
        /\ AnySent(SetsShape) <=> ~ None(Sent, ShapeMsgs)
      BY <2>5, SomeSent
  <2>7. ServiceSound'
      BY <1>1, <1>2, <2>5 DEF ServiceSound, Sound, SoundRing, engineVars
  <2>8. PlayMirrored'
    <3>1. isPlaying' = isPlaying
        BY <1>1 DEF engineVars
    <3>2. None(Sent, PlayMsgs) => EndsIn(Sent, PlayMsgs, {PlayMsg(playingState')})
        BY NoneEnds
    <3> QED BY <1>1, <1>2, <2>5, <2>6, <3>1, <3>2, SendingMirrorsPlay
  <2>9. ModeMirrored'
    <3>1. hardwareMode' = hardwareMode
        BY <1>1 DEF engineVars
    <3>2. None(Sent, ModeMsgs) => EndsIn(Sent, ModeMsgs, {ModeMsg(encoderMode')})
        BY NoneEnds
    <3>3. line.cmd = "mode" => m \in ModeMsgs /\ m \in {ModeMsg(encoderMode')}
        BY <1>2, KindsOfMessages
    <3>4. line.cmd = "mode" /\ endpoint
            => EndsIn(Sent, ModeMsgs, {ModeMsg(encoderMode')}) /\ ~ None(Sent, ModeMsgs)
        BY <2>2, <2>3, <2>5, <3>3
    <3> QED BY <1>1, <2>5, <2>6, <3>1, <3>2, <3>4, SendingMirrorsMode
  <2>10. ShapeMirrored'
    <3>1. rings' = rings
        BY <1>1 DEF engineVars
    <3>2. None(Sent, ShapeMsgs) => /\ EndsIn(Sent, ShapeMsgs, {PotMsg(lastMapped')})
                                   /\ None(Sent, ShapeMsgs \ {PotMsg(n) : n \in Nat})
      <4>1. None(Sent, ShapeMsgs) => None(Sent, ShapeMsgs \ {PotMsg(n) : n \in Nat})
          BY DEF None
      <4> QED BY <4>1, NoneEnds
    <3> QED BY <1>1, <2>5, <2>6, <3>1, <3>2, SendingMirrorsShape
  <2> QED BY <2>7, <2>8, <2>9, <2>10 DEF MirrorInv
<1>3. CASE line.cmd = "mode"
  <2>1. line.mode \in ServiceMode
      BY <1>3, SendersAssumption DEF SendersAssumption
  <2>2. ModeLine(line.mode)
      BY <1>3 DEF ServiceReadsLine, CommandLine
  <2>3. ModeMsg(line.mode) \in Command
      BY <2>1, KindsOfMessages
  <2> QED BY <1>2, <2>1, <2>2, <2>3 DEF ModeLine
<1>4. CASE line.cmd = "send"
  <2>1. line.message \in Command
      BY <1>4, SendersAssumption DEF SendersAssumption
  <2>2. Sends(<<line.message>>) /\ UNCHANGED service
      BY <1>4 DEF ServiceReadsLine, CommandLine
  <2>3. encoderMode' = encoderMode /\ playingState' = playingState /\ encoderMode \in ServiceMode
      BY <1>1, <2>2 DEF service, ServiceSound
  <2> QED BY <1>2, <1>4, <2>1, <2>2, <2>3
<1> QED BY <1>3, <1>4 DEF ServiceReadsLine, CommandLine

(* A message of the GUI.                                                   *)
LEMMA GuiMirrors ==
  ASSUME MirrorInv, NEW m \in GuiSends, GuiSendsMessage(m)
  PROVE  MirrorInv'
<1>1. /\ ServiceSound /\ Sound /\ toAudio \in Seq(Command) /\ m \in Command
      /\ endpoint' = endpoint /\ encoderMode' = encoderMode /\ playingState' = playingState
      /\ UNCHANGED engineVars /\ lastMapped' = lastMapped
      /\ toAudio' = Append(toAudio, m)
      /\ playElsewhere' = (playElsewhere \/ SetsPlay(m))
      /\ modeSent' = (modeSent /\ ~ SetsMode(m))
      /\ shapeElsewhere' = (shapeElsewhere \/ SetsShape(m))
    BY SendersAssumption DEF MirrorInv, ServiceSound, GuiSendsMessage, readings, service,
       SendersAssumption
<1> DEFINE b == <<m>>
<1>2. b \in Seq(Command) /\ toAudio' = toAudio \o b /\ toAudio' \in Seq(Command)
    BY <1>1
<1>3. \A K : None(b, K) <=> m \notin K
    BY OneEnds
<1> HIDE DEF b
<1>4. ServiceSound'
    BY <1>1, <1>2 DEF ServiceSound, Sound, SoundRing, engineVars
<1>5. PlayMirrored'
  <2>1. ~ playElsewhere' => None(b, PlayMsgs)
      BY <1>1, <1>3 DEF PlayMsgs
  <2>2. isPlaying' = isPlaying
      BY <1>1 DEF engineVars
  <2> QED BY <1>1, <1>2, <2>1, <2>2, NoneEnds, SendingMirrorsPlay
<1>6. ModeMirrored'
  <2>1. modeSent' => None(b, ModeMsgs)
      BY <1>1, <1>3 DEF ModeMsgs
  <2>2. hardwareMode' = hardwareMode
      BY <1>1 DEF engineVars
  <2> QED BY <1>1, <1>2, <2>1, <2>2, NoneEnds, SendingMirrorsMode
<1>7. ShapeMirrored'
  <2>1. ~ shapeElsewhere' => None(b, ShapeMsgs)
      BY <1>1, <1>3 DEF ShapeMsgs
  <2>2. rings' = rings
      BY <1>1 DEF engineVars
  <2>3. None(b, ShapeMsgs) => None(b, ShapeMsgs \ {PotMsg(n) : n \in Nat})
      BY DEF None
  <2> QED BY <1>1, <1>2, <2>1, <2>2, <2>3, NoneEnds, SendingMirrorsShape
<1> QED BY <1>4, <1>5, <1>6, <1>7 DEF MirrorInv
(* The engine handles the first message under way.                         *)
LEMMA PotShapesRing ==
  ASSUME Sound, NEW n \in Nat, Handle(PotMsg(n)), PotRing \in Ring,
         rings[PotRing].shapes # << >>
  PROVE  rings'[PotRing].shapes # << >> /\ rings'[PotRing].shapes[1].subdivision = n
<1> DEFINE shapes == rings[PotRing].shapes
           shape == [subdivision |-> n, offset |-> 0]
           next == [shapes EXCEPT ![1] = shape]
<1>1. /\ rings \in [Ring -> RingType] /\ shapes \in Seq(Shape) /\ shapes # << >>
      /\ Len(shapes) \in Nat \ {0}
  <2>1. rings \in [Ring -> RingType] /\ shapes \in Seq(Shape) /\ shapes # << >>
      BY DEF Sound, RingType
  <2> HIDE DEF shapes
  <2> QED BY <2>1
<1>2. ForRing(PotRing, ModShape(PotRing, 0, n, 0))
    BY DEF Handle, PotMsg
<1>3. rings' = [rings EXCEPT ![PotRing] = ShapeUpdated(rings[PotRing], 0, shape)]
    BY <1>1, <1>2 DEF ForRing, ModShape
<1>4. ShapeUpdated(rings[PotRing], 0, shape).shapes = next
  <2>1. 0 < Len(shapes) /\ 0 + 1 = 1
      BY <1>1
  <2> QED BY <2>1 DEF ShapeUpdated, Rebuilt
<1> HIDE DEF shapes
<1>5. next # << >> /\ next[1] = shape
    BY <1>1
<1>6. rings'[PotRing].shapes = next
    BY <1>1, <1>3, <1>4
<1> HIDE DEF next
<1> QED BY <1>5, <1>6

LEMMA EngineMirrors ==
  ASSUME MirrorInv, EngineTakes
  PROVE  MirrorInv'
<1> DEFINE m == Head(toAudio)
           tail == Tail(toAudio)
<1>1. /\ ServiceSound /\ Sound /\ toAudio \in Seq(Command) /\ toAudio # << >>
      /\ toAudio' = tail /\ Handle(m)
      /\ UNCHANGED <<encoderMode, playingState, endpoint, lastMapped, history>>
    BY DEF MirrorInv, ServiceSound, EngineTakes, service, readings
<1>2. m \in Command /\ tail \in Seq(Command)
    BY <1>1
<1>3. /\ \A K, T : EndsIn(toAudio, K, T) =>
           /\ EndsIn(tail, K, T)
           /\ None(tail, K) => (m \in K => m \in T)
           /\ None(tail, K) /\ m \notin K => None(toAudio, K)
      /\ \A K : None(toAudio, K) => None(tail, K) /\ m \notin K
    BY <1>1, TailEnds, TailNone
<1> HIDE DEF m, tail
<1>4. ServiceSound'
  <2>1. Sound'
      BY <1>1, <1>2, HandleKeeps DEF Keeps
  <2> QED BY <1>1, <1>2, <2>1 DEF ServiceSound
<1>5. PlayMirrored'
  <2> SUFFICES ASSUME ~ playElsewhere
               PROVE  /\ EndsIn(tail, PlayMsgs, {PlayMsg(playingState)})
                      /\ None(tail, PlayMsgs) => isPlaying' = playingState
      BY <1>1 DEF PlayMirrored, history
  <2>1. /\ EndsIn(toAudio, PlayMsgs, {PlayMsg(playingState)})
        /\ None(toAudio, PlayMsgs) => isPlaying = playingState
        /\ playingState \in BOOLEAN
      BY <1>1 DEF MirrorInv, PlayMirrored, ServiceSound
  <2>2. CASE m \in PlayMsgs
    <3>1. None(tail, PlayMsgs) => m = PlayMsg(playingState)
        BY <1>3, <2>1, <2>2
    <3>2. m = PlayMsg(playingState) => m.type = IF playingState THEN "PLAY" ELSE "PAUSE"
        BY DEF PlayMsg
    <3>3. m.type = "PLAY" => isPlaying' = TRUE
        BY <1>1, <1>2, HandlePlays
    <3>4. m.type = "PAUSE" => isPlaying' = FALSE
        BY <1>1, <1>2, HandlePlays
    <3> QED BY <1>3, <2>1, <3>1, <3>2, <3>3, <3>4
  <2>3. CASE m \notin PlayMsgs
    <3>1. m.type \notin {"PLAY", "PAUSE"}
        BY <1>2, <2>3 DEF PlayMsgs, SetsPlay
    <3>2. isPlaying' = isPlaying
        BY <1>1, <1>2, <3>1, HandlePlays
    <3> QED BY <1>3, <2>1, <2>3, <3>2
  <2> QED BY <2>2, <2>3
<1>6. ModeMirrored'
  <2> SUFFICES ASSUME modeSent
               PROVE  /\ EndsIn(tail, ModeMsgs, {ModeMsg(encoderMode)})
                      /\ None(tail, ModeMsgs) => hardwareMode' = encoderMode
      BY <1>1 DEF ModeMirrored, history
  <2>1. /\ EndsIn(toAudio, ModeMsgs, {ModeMsg(encoderMode)})
        /\ None(toAudio, ModeMsgs) => hardwareMode = encoderMode
        /\ encoderMode \in HardwareMode
      BY <1>1 DEF MirrorInv, ModeMirrored, ServiceSound, ServiceMode, HardwareMode
  <2>2. CASE m \in ModeMsgs
    <3>1. None(tail, ModeMsgs) => m = ModeMsg(encoderMode)
        BY <1>3, <2>1, <2>2
    <3>2. m = ModeMsg(encoderMode) => m.type = "POLY_HW_MODE" /\ m.mode = encoderMode
        BY DEF ModeMsg
    <3>3. m.type = "POLY_HW_MODE" /\ m.mode \in HardwareMode => hardwareMode' = m.mode
        BY <1>1, <1>2, HandleModes
    <3> QED BY <1>3, <2>1, <3>1, <3>2, <3>3
  <2>3. CASE m \notin ModeMsgs
    <3>1. m.type # "POLY_HW_MODE"
        BY <1>2, <2>3 DEF ModeMsgs, SetsMode
    <3>2. hardwareMode' = hardwareMode
        BY <1>1, <1>2, <3>1, HandleModes
    <3> QED BY <1>3, <2>1, <2>3, <3>2
  <2> QED BY <2>2, <2>3
<1>7. ShapeMirrored'
  <2> DEFINE Others == ShapeMsgs \ {PotMsg(n) : n \in Nat}
             kept == PotRing \in Ring => rings'[PotRing].shapes # << >>
             done == lastMapped # Unread =>
                       /\ EndsIn(tail, ShapeMsgs, {PotMsg(lastMapped)})
                       /\ None(tail, ShapeMsgs) /\ PotRing \in Ring
                            => rings'[PotRing].shapes[1].subdivision = lastMapped
  <2> SUFFICES ASSUME ~ shapeElsewhere
               PROVE  None(tail, Others) /\ kept /\ done
      BY <1>1 DEF ShapeMirrored, PotMsg, history
  <2>1. /\ None(toAudio, Others)
        /\ PotRing \in Ring => rings[PotRing].shapes # << >>
        /\ lastMapped # Unread =>
             /\ EndsIn(toAudio, ShapeMsgs, {PotMsg(lastMapped)})
             /\ None(toAudio, ShapeMsgs) /\ PotRing \in Ring
                  => rings[PotRing].shapes[1].subdivision = lastMapped
      BY DEF MirrorInv, ShapeMirrored
  <2>2. None(tail, Others) /\ m \notin Others
    <3> HIDE DEF Others
    <3> QED BY <1>3, <2>1
  <2>3. CASE m \notin ShapeMsgs
    <3>1. m.type \notin {"POLY_ENCODER_DELTA", "POLY_ADJUST_POINTS", "POLY_ADD_SHAPE",
                         "POLY_REMOVE_SHAPE", "POLY_MOD_SHAPE"}
        BY <1>2, <2>3 DEF ShapeMsgs, SetsShape
    <3>2. PotRing \in Ring => rings'[PotRing].shapes = rings[PotRing].shapes
        BY <1>1, <1>2, <3>1, HandleShapes
    <3>3. kept /\ done
        BY <1>3, <2>1, <2>3, <3>2
    <3> QED BY <2>2, <3>3
  <2>4. CASE m \in ShapeMsgs
    <3>1. PICK n \in Nat : m = PotMsg(n)
        BY <2>2, <2>4
    <3>2. PotRing \in Ring => /\ rings'[PotRing].shapes # << >>
                              /\ rings'[PotRing].shapes[1].subdivision = n
        BY <1>1, <2>1, <3>1, PotShapesRing
    <3>3. m = PotMsg(lastMapped) => n = lastMapped
        BY <3>1 DEF PotMsg
    <3>4. done
        BY <1>3, <2>1, <2>4, <3>2, <3>3
    <3> QED BY <2>2, <3>2, <3>4
  <2> QED BY <2>3, <2>4
<1> QED BY <1>4, <1>5, <1>6, <1>7 DEF MirrorInv

LEMMA MirrorInit == HardwareSystemInit => MirrorInv
<1> SUFFICES ASSUME HardwareSystemInit PROVE MirrorInv
    OBVIOUS
<1>1. Sound
    BY InitIsSound DEF HardwareSystemInit
<1>2. /\ toAudio = << >> /\ encoderMode = InitialMode /\ playingState = FALSE /\ endpoint = FALSE
      /\ lastMapped = Unread /\ modeSent = FALSE /\ isPlaying = FALSE
    BY DEF HardwareSystemInit, HardwareInit, EngineInit
<1>3. \A K, T : None(toAudio, K) /\ EndsIn(toAudio, K, T)
    BY <1>2, NothingEnds
<1>4. PotRing \in Ring => rings[PotRing].shapes # << >>
  <2>1. \A shape : <<shape>> # << >>
      OBVIOUS
  <2> QED BY <2>1 DEF HardwareSystemInit, EngineInit, FreshRing
<1>5. ServiceSound
  <2>1. << >> \in Seq(Command)
      OBVIOUS
  <2> QED BY <1>1, <1>2, <2>1, HardwareAssumption DEF HardwareAssumption, ServiceSound
<1> QED BY <1>2, <1>3, <1>4, <1>5 DEF MirrorInv, PlayMirrored, ModeMirrored, ShapeMirrored

LEMMA MirrorStep == MirrorInv /\ [HardwareSystemNext]_hardwareSystemVars => MirrorInv'
<1> SUFFICES ASSUME MirrorInv, [HardwareSystemNext]_hardwareSystemVars PROVE MirrorInv'
    OBVIOUS
<1>1. ASSUME UNCHANGED <<engineState, encoderMode, playingState, toAudio, lastMapped, history>>,
             endpoint' \in BOOLEAN
      PROVE  MirrorInv'
    BY <1>1 DEF MirrorInv, ServiceSound, Sound, SoundRing, PlayMirrored, ModeMirrored,
       ShapeMirrored, engineState, history, PotMsg
<1>2. endpoint \in BOOLEAN
    BY DEF MirrorInv, ServiceSound
<1>3. CASE GuiReads
    BY <1>1, <1>2, <1>3 DEF GuiReads, GuiTakes, hardwareVars, service, readings
<1>4. CASE OutsideActs
    BY <1>1, <1>2, <1>4 DEF OutsideActs, UserActs, Moves, Turns, SegmentAppears, engineVars,
       engineState, service, readings
<1>5. CASE UNCHANGED hardwareSystemVars
    BY <1>1, <1>2, <1>5 DEF hardwareSystemVars, engineVars, engineState, hardwareVars, service,
       readings
<1> QED BY <1>3, <1>4, <1>5, EngineMirrors, GuiMirrors, PollMirrors, LineMirrors
    DEF HardwareSystemNext

LEMMA MirrorAlways == HardwareSystemSpec => []MirrorInv
BY MirrorInit, MirrorStep, PTL DEF HardwareSystemSpec

(***************************************************************************)
(* As long as nobody else plays or pauses, the service's _playingState is  *)
(* what the engine does, so that a press always changes what is heard; and *)
(* after a mode button whose message was accepted the engine acts in the   *)
(* mode of the service: for any pins, lines, debounce times and messages.  *)
(***************************************************************************)
THEOREM ServiceAlwaysMirrors == HardwareSystemSpec => []ServiceMirrorsEngine
<1>1. MirrorInv => ServiceMirrorsEngine
  <2> SUFFICES ASSUME MirrorInv PROVE PlayButtonToggles /\ ModeIsSynced
      BY DEF ServiceMirrorsEngine
  <2>1. Quiet => None(toAudio, PlayMsgs) /\ None(toAudio, ModeMsgs)
      BY NothingEnds DEF Quiet
  <2> QED BY <2>1 DEF MirrorInv, PlayMirrored, ModeMirrored, PlayButtonToggles, ModeIsSynced
<1> QED BY <1>1, MirrorAlways, PTL

(***************************************************************************)
(* As long as nothing else changes shapes, the ring of the potentiometer   *)
(* has the subdivision last derived from it, for any range, deadband and   *)
(* readings.                                                               *)
(***************************************************************************)
THEOREM PotAlwaysShapes == HardwareSystemSpec => []PotSetsShape
<1>1. MirrorInv => PotSetsShape
  <2>1. Quiet => None(toAudio, ShapeMsgs)
      BY NothingEnds DEF Quiet
  <2> QED BY <2>1 DEF MirrorInv, ShapeMirrored, PotSetsShape
<1> QED BY <1>1, MirrorAlways, PTL

-----------------------------------------------------------------------------
(***************************************************************************)
(* The command file: the worker skips no line, and repeats one only if it  *)
(* was written during a pass.                                              *)
(***************************************************************************)
LEMMA FileInitTyped == FileInit => FileTypeOK
<1> SUFFICES ASSUME FileInit PROVE FileTypeOK
    OBVIOUS
<1>1. file \in Seq(Line)
    BY DEF FileInit
<1>2. handled \in [Line -> 0 .. 2]
    BY DEF FileInit
<1>3. written \in 0 .. MaxLines /\ truncations \in 0 .. MaxTruncations
    BY FileAssumption DEF FileInit, FileAssumption
<1> QED BY <1>1, <1>2, <1>3 DEF FileInit, FileTypeOK

LEMMA FileStepTyped == FileTypeOK /\ [FileNext]_fileVars => FileTypeOK'
<1> SUFFICES ASSUME FileTypeOK, [FileNext]_fileVars PROVE FileTypeOK'
    OBVIOUS
<1> USE FileAssumption DEF FileAssumption
<1>1. CASE Write
  <2>1. written' \in 0 .. MaxLines /\ written' \in Line
      BY <1>1 DEF Write, FileTypeOK, Line
  <2>2. file' \in Seq(Line)
      BY <1>1, <2>1 DEF Write, FileTypeOK
  <2>3. overlapping' \subseteq Line
      BY <1>1, <2>1 DEF Write, FileTypeOK
  <2> QED BY <1>1, <2>1, <2>2, <2>3 DEF Write, FileTypeOK, pass
<1>2. CASE Truncate
    BY <1>2 DEF Truncate, FileTypeOK, pass
<1>3. CASE StartPass
  <2>1. Len(file) \in Nat /\ StartOffset \in Nat
      BY DEF FileTypeOK, StartOffset
  <2> QED BY <1>3, <2>1 DEF StartPass, FileTypeOK
<1>4. CASE ReadLine
  <2>1. position + 1 \in 1 .. Len(file)
      BY <1>4 DEF ReadLine, FileTypeOK
  <2>2. file[position + 1] \in Line
      BY <2>1 DEF FileTypeOK
  <2>3. handled' \in [Line -> 0 .. 2]
    <3>1. \A n \in 0 .. 2 : Twice(n) \in 0 .. 2
        BY DEF Twice
    <3> QED BY <1>4, <2>2, <3>1 DEF ReadLine, FileTypeOK
  <2> QED BY <1>4, <2>3 DEF ReadLine, FileTypeOK
<1>5. CASE ReachEnd
    BY <1>5 DEF ReachEnd, FileTypeOK
<1>6. CASE EndPass
    BY <1>6 DEF EndPass, NewOffset, FileTypeOK
<1>7. CASE UNCHANGED fileVars
    BY <1>7 DEF fileVars, pass, FileTypeOK
<1> QED BY <1>1, <1>2, <1>3, <1>4, <1>5, <1>6, <1>7 DEF FileNext, WorkerActs

(***************************************************************************)
(* The state of the worker keeps its types for any number of lines and of  *)
(* truncations; in particular the offset is never negative.                *)
(***************************************************************************)
THEOREM FileTypeCorrect == FileSpec => []FileTypeOK
BY FileInitTyped, FileStepTyped, PTL DEF FileSpec

-----------------------------------------------------------------------------
(***************************************************************************)
(* The worker knows the first lines of the file: as many as its offset     *)
(* between passes, as many as the position of the stream during a pass.    *)
(* The size taken at the start of the pass, which becomes the offset, is   *)
(* never ahead of the position at its end.                                 *)
(***************************************************************************)
AllHandled(n) == n <= Len(file) /\ \A i \in 1 .. n : handled[file[i]] # 0

Progress ==
  /\ pc = "idle" => AllHandled(readOffset)
  /\ pc # "idle" => AllHandled(position) /\ fileSize <= Len(file)
  /\ pc = "ended" => fileSize <= position

SkipInv == FileTypeOK /\ (~ unseen => Progress)

LEMMA AllHandledKept ==
  ASSUME FileTypeOK, NEW n \in Nat, AllHandled(n), Write \/ ReadLine
  PROVE  AllHandled(n)'
<1>1. CASE Write
  <2>1. Len(file') = Len(file) + 1 /\ \A i \in 1 .. n : file'[i] = file[i]
      BY <1>1 DEF Write, FileTypeOK, AllHandled
  <2>2. handled' = handled /\ Len(file) \in Nat
      BY <1>1 DEF Write, FileTypeOK
  <2> QED BY <2>1, <2>2 DEF AllHandled
<1>2. CASE ReadLine
  <2>1. \A i \in 1 .. n : file[i] \in Line
      BY DEF FileTypeOK, AllHandled
  <2>2. \A m \in Line : handled[m] # 0 => handled'[m] # 0
      BY <1>2 DEF ReadLine, FileTypeOK, Twice
  <2>3. file' = file
      BY <1>2 DEF ReadLine
  <2> QED BY <2>1, <2>2, <2>3 DEF AllHandled
<1> QED BY <1>1, <1>2

LEMMA SkipInit == FileInit => SkipInv
BY FileInitTyped DEF FileInit, SkipInv, Progress, AllHandled

LEMMA SkipStep == SkipInv /\ [FileNext]_fileVars => SkipInv'
<1> SUFFICES ASSUME SkipInv, [FileNext]_fileVars, ~ unseen' PROVE Progress'
    BY FileStepTyped DEF SkipInv
<1>0. /\ FileTypeOK
      /\ readOffset \in Nat /\ position \in Nat /\ fileSize \in Nat /\ Len(file) \in Nat
    BY DEF SkipInv, FileTypeOK
<1>1. CASE Write
  <2>1. Progress /\ UNCHANGED pass
      BY <1>1 DEF SkipInv, Write
  <2>2. Len(file') = Len(file) + 1
      BY <1>0, <1>1 DEF Write, FileTypeOK
  <2>3. pc = "idle" => AllHandled(readOffset)'
      BY <1>0, <1>1, <2>1, AllHandledKept DEF Progress, AllHandled, pass
  <2>4. pc # "idle" => AllHandled(position)'
      BY <1>0, <1>1, <2>1, AllHandledKept DEF Progress, AllHandled, pass
  <2> QED BY <1>0, <2>1, <2>2, <2>3, <2>4 DEF Progress, pass
<1>2. CASE Truncate
    BY <1>2 DEF Truncate
<1>3. CASE StartPass
  <2>1. StartOffset \in Nat /\ StartOffset <= Len(file)
      BY <1>0 DEF StartOffset
  <2>2. AllHandled(StartOffset)
    <3>1. CASE StartOffset = 0
        BY <1>0, <3>1 DEF AllHandled
    <3>2. CASE StartOffset # 0
        BY <1>0, <1>3, <3>2 DEF StartPass, StartOffset, SkipInv, Progress
    <3> QED BY <3>1, <3>2
  <2>3. /\ file' = file /\ handled' = handled /\ position' = StartOffset
        /\ pc' = "reading" /\ fileSize' = Len(file)
      BY <1>3 DEF StartPass
  <2> QED BY <1>0, <2>2, <2>3 DEF Progress, AllHandled
<1>4. CASE ReadLine
  <2>1. /\ Progress /\ pc = "reading" /\ pc' = pc /\ file' = file /\ fileSize' = fileSize
        /\ position' = position + 1 /\ position < Len(file)
      BY <1>4 DEF SkipInv, ReadLine
  <2>2. AllHandled(position)'
      <3>1. \A i \in 1 .. position : handled'[file[i]] # 0
          BY <1>0, <1>4, <2>1, AllHandledKept DEF Progress, AllHandled
      <3>2. handled'[file[position + 1]] # 0
          BY <1>0, <1>4, <2>1 DEF ReadLine, FileTypeOK, Twice
      <3>3. \A i \in 1 .. position + 1 : i \in 1 .. position \/ i = position + 1
          BY <1>0
      <3> QED BY <1>0, <2>1, <3>1, <3>2, <3>3 DEF AllHandled
  <2> QED BY <2>1, <2>2 DEF Progress
<1>5. CASE ReachEnd
    BY <1>0, <1>5 DEF ReachEnd, SkipInv, Progress, AllHandled
<1>6. CASE EndPass
  <2>1. /\ Progress /\ pc = "ended" /\ pc' = "idle" /\ file' = file /\ handled' = handled
        /\ readOffset' = fileSize
      BY <1>6 DEF SkipInv, EndPass, NewOffset
  <2>2. fileSize <= position /\ AllHandled(position)
      BY <2>1 DEF Progress
  <2>3. \A i \in 1 .. fileSize : i \in 1 .. position
      BY <1>0, <2>2
  <2> QED BY <1>0, <2>1, <2>2, <2>3 DEF Progress, AllHandled
<1>7. CASE UNCHANGED fileVars
    BY <1>7 DEF fileVars, pass, SkipInv, Progress, AllHandled
<1> QED BY <1>1, <1>2, <1>3, <1>4, <1>5, <1>6, <1>7 DEF FileNext, WorkerActs

(***************************************************************************)
(* processCommandFile skips no line, for any number of lines appended at   *)
(* any moment of a pass: the offset stored is the size from before the     *)
(* pass, which may make lines come twice but never lets one be missed.     *)
(***************************************************************************)
THEOREM NoLineIsSkipped == FileSpec => []NothingSkipped
<1>1. SkipInv => NothingSkipped
    BY DEF SkipInv, Progress, AllHandled, NothingSkipped, FileTypeOK
<1> QED BY <1>1, SkipInit, SkipStep, PTL DEF FileSpec
-----------------------------------------------------------------------------
(***************************************************************************)
(* While the file is not emptied, it holds every line that was written.    *)
(* The lines that the worker has passed are the first ones; what it read   *)
(* beyond the offset that it goes back to was written during its pass.     *)
(***************************************************************************)
Passed == IF pc = "idle" THEN readOffset ELSE position

OnlyAppended ==
  /\ Len(file) = written /\ \A i \in 1 .. Len(file) : file[i] = i
  /\ readOffset <= Len(file)
  /\ pc # "idle" => position <= Len(file) /\ fileSize <= Len(file)

ComesTwiceOnlyLate ==
  /\ \A n \in Line : handled[n] = 2 => n \in overlapping
  /\ \A n \in Line : Passed < n /\ n \notin overlapping => handled[n] = 0
  /\ pc # "idle" => \A n \in Line : fileSize < n /\ n <= written => n \in overlapping

OnceInv == FileTypeOK /\ (truncations = 0 => OnlyAppended /\ ComesTwiceOnlyLate)

LEMMA OnceInit == FileInit => OnceInv
BY FileInitTyped DEF FileInit, OnceInv, OnlyAppended, ComesTwiceOnlyLate

LEMMA OnceStep == OnceInv /\ [FileNext]_fileVars => OnceInv'
<1> SUFFICES ASSUME OnceInv, [FileNext]_fileVars, truncations' = 0
             PROVE  OnlyAppended' /\ ComesTwiceOnlyLate'
    BY FileStepTyped DEF OnceInv
<1>1. /\ FileTypeOK /\ MaxLines \in Nat /\ written \in Nat
      /\ readOffset \in Nat /\ position \in Nat /\ fileSize \in Nat /\ Len(file) \in Nat
    BY FileAssumption DEF OnceInv, FileTypeOK
<1>2. truncations = 0
    BY <1>1 DEF FileNext, Write, Truncate, WorkerActs, StartPass, ReadLine, ReachEnd, EndPass,
                FileTypeOK, fileVars
<1>3. OnlyAppended /\ ComesTwiceOnlyLate
    BY <1>2 DEF OnceInv
<1>4. CASE Write
  <2>1. /\ UNCHANGED pass /\ handled' = handled /\ written' = written + 1
        /\ written' \in Line /\ file' = Append(file, written')
        /\ overlapping' = IF pc = "idle" THEN overlapping ELSE overlapping \cup {written'}
      BY <1>1, <1>4 DEF Write, Line
  <2>2. /\ Len(file') = written'
        /\ \A i \in 1 .. Len(file') : file'[i] = i
      BY <1>1, <1>3, <2>1 DEF OnlyAppended, FileTypeOK
  <2>3. OnlyAppended'
      BY <1>1, <1>3, <2>1, <2>2 DEF OnlyAppended, pass
  <2>4. \A n \in Line : n <= written' => n <= written \/ n = written'
      BY <1>1, <2>1 DEF Line
  <2> QED BY <1>1, <1>3, <2>1, <2>3, <2>4 DEF ComesTwiceOnlyLate, Passed, pass
<1>5. CASE Truncate
    BY <1>1, <1>2, <1>5 DEF Truncate
<1>6. CASE StartPass
  <2>1. /\ StartOffset = readOffset /\ pc = "idle" /\ pc' = "reading"
        /\ fileSize' = Len(file) /\ readOffset' = readOffset /\ position' = readOffset
        /\ UNCHANGED <<file, written, handled, overlapping>>
      BY <1>1, <1>3, <1>6 DEF StartPass, StartOffset, OnlyAppended
  <2>2. OnlyAppended'
      BY <1>1, <1>3, <2>1 DEF OnlyAppended
  <2>3. \A n \in Line : ~ (fileSize' < n /\ n <= written')
      BY <1>1, <1>3, <2>1 DEF OnlyAppended, Line
  <2> QED BY <1>1, <1>3, <2>1, <2>2, <2>3 DEF ComesTwiceOnlyLate, Passed
<1>7. CASE ReadLine
  <2> DEFINE line == position + 1
  <2>1. /\ pc = "reading" /\ position < Len(file) /\ line \in 1 .. Len(file)
        /\ position' = line /\ handled' = [handled EXCEPT ![file[line]] = Twice(@)]
        /\ UNCHANGED <<file, readOffset, pc, fileSize, written, overlapping>>
      BY <1>1, <1>7 DEF ReadLine
  <2>2. file[line] = line /\ line \in Line
      BY <1>1, <1>3, <2>1 DEF OnlyAppended, FileTypeOK, Line
  <2>3. /\ handled'[line] = Twice(handled[line])
        /\ \A n \in Line : n # line => handled'[n] = handled[n]
      BY <1>1, <2>1, <2>2 DEF FileTypeOK
  <2>4. line \notin overlapping => handled'[line] = 1
    <3>1. position < line
        BY <1>1
    <3>2. line \notin overlapping => handled[line] = 0
        BY <1>3, <2>1, <2>2, <3>1 DEF ComesTwiceOnlyLate, Passed
    <3> QED BY <2>3, <3>2 DEF Twice
  <2>5. OnlyAppended'
      BY <1>1, <1>3, <2>1 DEF OnlyAppended
  <2>6. \A n \in Line : line < n => position < n /\ n # line
      BY <1>1 DEF Line
  <2> HIDE DEF line
  <2> QED BY <1>3, <2>1, <2>2, <2>3, <2>4, <2>5, <2>6 DEF ComesTwiceOnlyLate, Passed
<1>8. CASE ReachEnd
  <2>1. /\ pc = "reading" /\ pc' = "ended"
        /\ UNCHANGED <<file, readOffset, fileSize, position, written, handled, overlapping>>
      BY <1>8 DEF ReachEnd
  <2> QED BY <1>3, <2>1 DEF OnlyAppended, ComesTwiceOnlyLate, Passed
<1>9. CASE EndPass
  <2>1. /\ pc = "ended" /\ pc' = "idle" /\ readOffset' = fileSize
        /\ UNCHANGED <<file, written, handled, overlapping>>
      BY <1>9 DEF EndPass, NewOffset
  <2>2. OnlyAppended'
      BY <1>3, <2>1 DEF OnlyAppended
  <2>3. ASSUME NEW n \in Line, fileSize < n, n \notin overlapping PROVE handled[n] = 0
    <3>1. ~ (n <= written)
        BY <1>3, <2>1, <2>3 DEF ComesTwiceOnlyLate
    <3>2. position < n
        BY <1>1, <1>3, <2>1, <3>1 DEF OnlyAppended, Line
    <3> QED BY <1>3, <2>1, <2>3, <3>2 DEF ComesTwiceOnlyLate, Passed
  <2> QED BY <1>3, <2>1, <2>2, <2>3 DEF ComesTwiceOnlyLate, Passed
<1>10. CASE UNCHANGED fileVars
    BY <1>3, <1>10 DEF fileVars, pass, OnlyAppended, ComesTwiceOnlyLate, Passed
<1> QED BY <1>4, <1>5, <1>6, <1>7, <1>8, <1>9, <1>10 DEF FileNext, WorkerActs

(***************************************************************************)
(* As long as the file is not emptied, processCommandFile repeats no line  *)
(* but one that was written while a pass was under way.                    *)
(***************************************************************************)
THEOREM OnlyLateLinesComeTwice == FileSpec => []OnceUnlessOverlapping
<1>1. OnceInv => OnceUnlessOverlapping
    BY DEF OnceInv, ComesTwiceOnlyLate, OnceUnlessOverlapping
<1> QED BY <1>1, OnceInit, OnceStep, PTL DEF FileSpec
=============================================================================
