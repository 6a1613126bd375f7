-------------------------- MODULE PolySystemProofs --------------------------
(***************************************************************************)
(* Proofs about the engine, the GUI and the hardware service together, for *)
(* any number of rings, sets, touches and commands, and any messages under *)
(* way.                                                                    *)
(***************************************************************************)
EXTENDS PolySystem, AudioEngineProofs, SequenceLemmas, SequenceTheorems

-----------------------------------------------------------------------------
(***************************************************************************)
(* What the engine sends: the messages, and those it may send when it      *)
(* plays or not and is in a mode.                                          *)
(***************************************************************************)
GuiMessage ==
  [type : {"POLY_REBUILD", "POLY_READY", "POLY_NAV_LEFT", "POLY_NAV_RIGHT", "POLY_PLAYHEAD"}]
    \cup [type : {"PLAY_STATE"}, playing : BOOLEAN]
    \cup [type : {"POLY_RING", "POLY_SELECT"}, ring : Nat]
    \cup [type : {"POLY_RING_SHAPE"}, ring : Nat, shape : Shape]
    \cup [type : {"POLY_RING_TIMELINE"}, ring : Nat, timeline : SUBSET Instant]
    \cup [type : {"POLY_RING_ACTIVE"}, ring : Nat, active : Seq(BOOLEAN)]
    \cup [type : {"POLY_TOGGLE", "POLY_SELECTED_POINT"}, ring : Nat, point : Nat]
    \cup [type : {"POLY_HW_MODE"}, mode : HardwareMode]

Answer(playing, mode) ==
  {m \in GuiMessage : /\ m.type # "POLY_PLAYHEAD"
                      /\ m.type = "PLAY_STATE" => m.playing = playing
                      /\ m.type = "POLY_HW_MODE" => m.mode = mode}

LEMMA AnswerMessages ==
  ASSUME NEW playing \in BOOLEAN, NEW mode \in HardwareMode, NEW r \in Nat, NEW p \in Nat
  PROVE  /\ RebuildMsg \in Answer(playing, mode)
         /\ ReadyMsg \in Answer(playing, mode)
         /\ SelectMsg(r) \in Answer(playing, mode)
         /\ SelectedPointMsg(r, p) \in Answer(playing, mode)
         /\ ToggleMsg(r, p) \in Answer(playing, mode)
         /\ HwModeMsg(mode) \in Answer(playing, mode)
         /\ PlayStateMsg(playing) \in Answer(playing, mode)
<1>1. RebuildMsg \in Answer(playing, mode) /\ ReadyMsg \in Answer(playing, mode)
    BY DEF Answer, GuiMessage, RebuildMsg, ReadyMsg
<1>2. SelectMsg(r) \in Answer(playing, mode)
    BY DEF Answer, GuiMessage, SelectMsg
<1>3. SelectedPointMsg(r, p) \in Answer(playing, mode) /\ ToggleMsg(r, p) \in Answer(playing, mode)
    BY DEF Answer, GuiMessage, SelectedPointMsg, ToggleMsg
<1>4. HwModeMsg(mode) \in Answer(playing, mode)
    BY DEF Answer, GuiMessage, HwModeMsg
<1>5. PlayStateMsg(playing) \in Answer(playing, mode)
    BY DEF Answer, GuiMessage, PlayStateMsg
<1> QED BY <1>1, <1>2, <1>3, <1>4, <1>5

(* What tells the GUI of the rings, between POLY_REBUILD and POLY_READY.   *)
Filling == {"POLY_RING", "POLY_RING_SHAPE", "POLY_RING_TIMELINE", "POLY_RING_ACTIVE"}

RingMessage == {m \in GuiMessage : m.type \in Filling}

LEMMA RingDataType ==
  ASSUME NEW r \in Nat, NEW ring \in RingType
  PROVE  RingData(r, ring) \in Seq(RingMessage)
<1> DEFINE A == RingMessage
           ringMsg == [type |-> "POLY_RING", ring |-> r]
           shapeMsg(shape) == [type |-> "POLY_RING_SHAPE", ring |-> r, shape |-> shape]
           timelineMsg == [type |-> "POLY_RING_TIMELINE", ring |-> r, timeline |-> ring.timeline]
           activeMsg == [type |-> "POLY_RING_ACTIVE", ring |-> r, active |-> ring.active]
           shapeMsgs == [i \in DOMAIN ring.shapes |-> shapeMsg(ring.shapes[i])]
<1>1. /\ ring.shapes \in Seq(Shape) /\ ring.timeline \in SUBSET Instant
      /\ ring.active \in Seq(BOOLEAN)
    BY DEF RingType
<1>2. ringMsg \in A
    BY DEF RingMessage, Filling, GuiMessage
<1>3. timelineMsg \in A
    BY <1>1 DEF RingMessage, Filling, GuiMessage
<1>4. activeMsg \in A
    BY <1>1 DEF RingMessage, Filling, GuiMessage
<1>5. \A shape \in Shape : shapeMsg(shape) \in A
    BY DEF RingMessage, Filling, GuiMessage
<1>6. Len(ring.shapes) \in Nat /\ DOMAIN ring.shapes = 1 .. Len(ring.shapes)
    BY <1>1
<1> HIDE DEF A, ringMsg, timelineMsg, activeMsg, shapeMsg
<1>7. shapeMsgs \in Seq(A)
  <2>1. shapeMsgs \in [1 .. Len(ring.shapes) -> A]
      BY <1>1, <1>5, <1>6
  <2> HIDE DEF shapeMsgs
  <2> QED BY <1>6, <2>1
<1>8. RingData(r, ring)
        = <<ringMsg>> \o shapeMsgs \o Accepted(timelineMsg) \o Accepted(activeMsg)
    BY DEF RingData, ringMsg, timelineMsg, activeMsg, shapeMsg
<1>9. Accepted(timelineMsg) \in Seq(A) /\ Accepted(activeMsg) \in Seq(A)
    BY <1>3, <1>4 DEF Accepted
<1> HIDE DEF shapeMsgs
<1>10. <<ringMsg>> \o shapeMsgs \o Accepted(timelineMsg) \o Accepted(activeMsg) \in Seq(A)
    BY <1>2, <1>7, <1>9
<1> QED BY <1>8, <1>10 DEF A

LEMMA AllRingDataType ==
  ASSUME NEW playing, NEW mode, rings' \in [Ring -> RingType]
  PROVE  /\ AllRingData \in Seq(RingMessage)
         /\ AllRingData \in Seq(Answer(playing, mode))
<1> DEFINE data == [i \in 1 .. NumRings |-> RingData(i - 1, rings'[i - 1])]
<1>1. NumRings \in Nat
    BY EngineAssumption
<1>2. ASSUME NEW i \in 1 .. NumRings PROVE data[i] \in Seq(RingMessage)
  <2>1. i - 1 \in Nat /\ i - 1 \in Ring
      BY <1>1 DEF Ring
  <2>2. rings'[i - 1] \in RingType
      BY <2>1
  <2> QED BY <2>1, <2>2, RingDataType
<1>3. data \in Seq(Seq(RingMessage))
  <2>1. data \in [1 .. NumRings -> Seq(RingMessage)]
      BY <1>2
  <2> HIDE DEF data
  <2> QED BY <1>1, <2>1
<1> HIDE DEF data
<1>4. FlattenSeq(data) \in Seq(RingMessage)
    BY <1>3, FlattenType
<1>5. RingMessage \subseteq Answer(playing, mode)
    BY DEF RingMessage, Filling, Answer
<1>6. FlattenSeq(data) \in Seq(Answer(playing, mode))
    BY <1>4, <1>5
<1> QED BY <1>4, <1>6 DEF AllRingData, data

(***************************************************************************)
(* What each handler sends is an answer in the state it leaves.            *)
(***************************************************************************)
Answers == \E b \in Seq(Answer(isPlaying', hardwareMode')) : toGui' = toGui \o b

LEMMA SendingAnswers ==
  ASSUME NEW batch \in Seq(Answer(isPlaying', hardwareMode')), SendsToGui(batch)
  PROVE  Answers
BY DEF SendsToGui, Answers

LEMMA SilenceAnswers ==
  ASSUME toGui \in Seq(GuiMessage), UNCHANGED toGui
  PROVE  Answers
<1>1. << >> \in Seq(Answer(isPlaying', hardwareMode')) /\ toGui' = toGui \o << >>
    OBVIOUS
<1> QED BY <1>1 DEF Answers

LEMMA RebuildAnswers ==
  ASSUME Sound, Sound', NEW r \in Ring, SendFullRebuild(r), UNCHANGED <<hardwareMode, isPlaying>>
  PROVE  Answers
<1> DEFINE A == Answer(isPlaying', hardwareMode')
<1>1. /\ selectedRing' \in Nat /\ selectedPoints'[selectedRing'] \in Nat
      /\ hardwareMode \in HardwareMode /\ isPlaying \in BOOLEAN
    BY EngineAssumption DEF Sound, Ring
<1>2. AllRingData \in Seq(A)
    BY AllRingDataType DEF Sound
<1>3. /\ RebuildMsg \in A /\ SelectMsg(selectedRing') \in A
      /\ SelectedPointMsg(selectedRing', selectedPoints'[selectedRing']) \in A
      /\ HwModeMsg(hardwareMode) \in A /\ ReadyMsg \in A
    BY <1>1, AnswerMessages
<1> HIDE DEF A
<1>4. <<RebuildMsg>> \o AllRingData
        \o << SelectMsg(selectedRing'),
              SelectedPointMsg(selectedRing', selectedPoints'[selectedRing']),
              HwModeMsg(hardwareMode), ReadyMsg >> \in Seq(A)
    BY <1>2, <1>3
<1> QED BY <1>4, SendingAnswers DEF SendFullRebuild, A

LEMMA GetInitialSetupAnswers ==
  ASSUME Sound, Sound', GetInitialSetup
  PROVE  Answers
<1> DEFINE A == Answer(isPlaying', hardwareMode')
<1>1. /\ selectedRing \in Nat /\ selectedPoints'[selectedRing] \in Nat
      /\ hardwareMode \in HardwareMode /\ isPlaying \in BOOLEAN
      /\ UNCHANGED <<hardwareMode, isPlaying>>
    BY EngineAssumption DEF Sound, Ring, GetInitialSetup
<1>2. AllRingData \in Seq(A)
    BY AllRingDataType DEF Sound
<1>3. /\ RebuildMsg \in A /\ SelectMsg(selectedRing) \in A
      /\ SelectedPointMsg(selectedRing, selectedPoints'[selectedRing]) \in A
      /\ PlayStateMsg(isPlaying) \in A /\ HwModeMsg(hardwareMode) \in A /\ ReadyMsg \in A
    BY <1>1, AnswerMessages
<1> HIDE DEF A
<1>4. <<RebuildMsg>> \o AllRingData
        \o << SelectMsg(selectedRing),
              SelectedPointMsg(selectedRing, selectedPoints'[selectedRing]),
              PlayStateMsg(isPlaying), HwModeMsg(hardwareMode), ReadyMsg >> \in Seq(A)
    BY <1>2, <1>3
<1> QED BY <1>4, SendingAnswers DEF GetInitialSetup, A

(* The handlers that send a few messages about the selection.              *)
LEMMA SelectionAnswers ==
  ASSUME Sound', NEW r \in Ring, NEW batch,
         \/ batch = <<SelectedPointMsg(r, selectedPoints'[r])>>
         \/ batch = <<SelectMsg(r), SelectedPointMsg(r, selectedPoints'[r])>>
         \/ batch = <<SelectMsg(r), ToggleMsg(r, selectedPoints'[r]),
                      SelectedPointMsg(r, selectedPoints'[r])>>,
         SendsToGui(batch)
  PROVE  Answers
<1> DEFINE A == Answer(isPlaying', hardwareMode')
<1>1. /\ r \in Nat /\ selectedPoints'[r] \in Nat
      /\ hardwareMode' \in HardwareMode /\ isPlaying' \in BOOLEAN
    BY EngineAssumption DEF Sound, Ring
<1>2. /\ SelectMsg(r) \in A /\ ToggleMsg(r, selectedPoints'[r]) \in A
      /\ SelectedPointMsg(r, selectedPoints'[r]) \in A
    BY <1>1, AnswerMessages
<1> HIDE DEF A
<1>3. batch \in Seq(A)
  <2>1. \A x, y, z \in A : <<x>> \in Seq(A) /\ <<x, y>> \in Seq(A) /\ <<x, y, z>> \in Seq(A)
      OBVIOUS
  <2> QED BY <1>2, <2>1, Zenon
<1> QED BY <1>3, SendingAnswers DEF A

LEMMA SelectPointDeltaAnswers ==
  ASSUME Sound, Sound', toGui \in Seq(GuiMessage), NEW amount, SelectPointDelta(amount)
  PROVE  Answers
<1>1. CASE PointCount(rings[selectedRing]) = 0
    BY <1>1, SilenceAnswers DEF SelectPointDelta
<1>2. CASE PointCount(rings[selectedRing]) # 0
    BY <1>2, SelectionAnswers DEF SelectPointDelta, Sound
<1> QED BY <1>1, <1>2

LEMMA AdjustPointsAnswers ==
  ASSUME Sound, Sound', toGui \in Seq(GuiMessage), NEW amount, AdjustPoints(amount)
  PROVE  Answers
<1>1. SendFullRebuild(selectedRing) \/ UNCHANGED toGui
    BY DEF AdjustPoints
<1> QED BY <1>1, SilenceAnswers, RebuildAnswers DEF AdjustPoints, Sound

LEMMA RotateSelectedAnswers ==
  ASSUME Sound, Sound', toGui \in Seq(GuiMessage), NEW amount, RotateSelected(amount)
  PROVE  Answers
<1>1. SendFullRebuild(selectedRing) \/ UNCHANGED toGui
    BY DEF RotateSelected
<1> QED BY <1>1, SilenceAnswers, RebuildAnswers DEF RotateSelected, Sound

LEMMA ToggleSelectedPointAnswers ==
  ASSUME Sound, Sound', ToggleSelectedPoint
  PROVE  Answers
<1> DEFINE r == selectedRing
           p == Clamped(selectedPoints[r], rings[r])
<1>1. r \in Ring /\ selectedPoints'[r] = p
    BY DEF Sound, ToggleSelectedPoint
<1>2. SendsToGui(<<SelectMsg(r), ToggleMsg(r, selectedPoints'[r]),
                   SelectedPointMsg(r, selectedPoints'[r])>>)
    BY <1>1 DEF ToggleSelectedPoint
<1> QED BY <1>1, <1>2, SelectionAnswers

LEMMA HandleAnswers ==
  ASSUME NEW m \in Command, Sound, toGui \in Seq(GuiMessage), Handle(m)
  PROVE  Sound' /\ Answers
<1>0. Sound'
    BY HandleKeeps DEF Keeps
<1> SUFFICES Answers
    BY <1>0
<1>u. CASE UNCHANGED engineVars
    BY <1>u, SilenceAnswers DEF engineVars
<1>r. ASSUME NEW r \in Ring, SendFullRebuild(r), UNCHANGED <<hardwareMode, isPlaying>>
      PROVE  Answers
    BY <1>0, <1>r, RebuildAnswers
<1>1. CASE GetInitialSetup
    BY <1>0, <1>1, GetInitialSetupAnswers
<1>2. ASSUME NEW playing \in BOOLEAN, SetPlaying(playing)
      PROVE  Answers
  <2>1. isPlaying' = playing /\ hardwareMode' \in HardwareMode /\ 0 \in Nat
      BY <1>0, <1>2 DEF SetPlaying, Sound
  <2>2. PlayStateMsg(playing) \in Answer(isPlaying', hardwareMode')
      BY <2>1, AnswerMessages
  <2>3. <<PlayStateMsg(playing)>> \in Seq(Answer(isPlaying', hardwareMode'))
      BY <2>2
  <2> QED BY <1>2, <2>3, SendingAnswers DEF SetPlaying
<1>3. CASE m.type \in {"POLY_NAV_LEFT", "POLY_NAV_RIGHT"} /\ Navigate(m.type)
  <2>1. [type |-> m.type] \in Answer(isPlaying', hardwareMode')
      BY <1>3 DEF Answer, GuiMessage
  <2>2. <<[type |-> m.type]>> \in Seq(Answer(isPlaying', hardwareMode'))
      BY <2>1
  <2> QED BY <1>3, <2>2, SendingAnswers DEF Navigate
<1>4. CASE SetSelectedRing(m.ring)
  <2>1. selectedRing' \in Ring
      BY <1>0 DEF Sound
  <2> QED BY <1>0, <1>4, <2>1, SelectionAnswers DEF SetSelectedRing
<1>5. CASE SetHwMode(m.mode)
  <2>1. hardwareMode' \in HardwareMode /\ isPlaying' \in BOOLEAN /\ 0 \in Nat
      BY <1>0 DEF Sound
  <2>2. HwModeMsg(hardwareMode') \in Answer(isPlaying', hardwareMode')
      BY <2>1, AnswerMessages
  <2>3. <<HwModeMsg(hardwareMode')>> \in Seq(Answer(isPlaying', hardwareMode'))
      BY <2>2
  <2> QED BY <1>5, <2>3, SendingAnswers DEF SetHwMode
<1>6. CASE SelectPointDelta(m.amount)
    BY <1>0, <1>6, SelectPointDeltaAnswers
<1>7. CASE EncoderDelta(m.amount)
    BY <1>0, <1>7, <1>u, SelectPointDeltaAnswers, AdjustPointsAnswers, RotateSelectedAnswers
    DEF EncoderDelta
<1>8. CASE EncoderClick \/ ToggleSelectedPoint
    BY <1>0, <1>8, <1>u, ToggleSelectedPointAnswers DEF EncoderClick
<1>9. CASE AdjustPoints(m.amount)
    BY <1>0, <1>9, AdjustPointsAnswers
<1>10. CASE RotateSelected(m.amount)
    BY <1>0, <1>10, RotateSelectedAnswers
<1>11. ASSUME NEW r \in Ring, NEW point, Toggle(r, point)
       PROVE  Answers
    BY <1>0, <1>11, SelectionAnswers DEF Toggle
<1>12. CASE /\ m.type = "POLY_TOGGLE"
            /\ ForRing(m.ring, Toggle(m.ring, m.point))
    BY <1>12, <1>u, <1>11 DEF ForRing
<1>13. CASE /\ m.type = "POLY_ADD_SHAPE"
            /\ ForRing(m.ring, AddShape(m.ring, m.subdivision, m.offset))
    BY <1>13, <1>u, <1>r DEF ForRing, AddShape
<1>14. CASE m.type = "POLY_REMOVE_SHAPE" /\ ForRing(m.ring, RemoveShape(m.ring, m.index))
    BY <1>14, <1>u, <1>r DEF ForRing, RemoveShape
<1>15. CASE /\ m.type = "POLY_MOD_SHAPE"
            /\ ForRing(m.ring, ModShape(m.ring, m.index, m.subdivision, m.offset))
    BY <1>15, <1>u, <1>r DEF ForRing, ModShape
<1>16. CASE m.type = "POLY_ROTATE" /\ ForRing(m.ring, Rotate(m.ring, m.amount))
    BY <1>16, <1>u, <1>r DEF ForRing, Rotate
<1> QED BY <1>0, <1>1, <1>2, <1>3, <1>4, <1>5, <1>6, <1>7, <1>8, <1>9, <1>10, <1>12, <1>13,
           <1>14, <1>15, <1>16 DEF Handle

-----------------------------------------------------------------------------
(***************************************************************************)
(* What the carousel holds.  A set shows rings whose masks fit, a selected *)
(* ring and selected points that exist, and a mode out of some modes; its  *)
(* neighbours, the staging area and the selections have their types.       *)
(***************************************************************************)
ShownRings == {ring \in RingType : MaskFits(ring)}

ShownSet(modes) ==
  {set \in [rings : Seq(ShownRings), points : Seq(Nat), selected : Nat, slotSelected : Nat,
            ringCount : Nat, mode : modes, playing : BOOLEAN] :
     /\ Len(set.points) = Len(set.rings)
     /\ set.selected < Len(set.rings) \/ set.rings = << >>
     /\ \A i \in 1 .. Len(set.rings) : InRange(set.points[i], set.rings[i])}

CarouselSound(modes) ==
  /\ staged \in Seq(RingType)
  /\ sets \in Seq(ShownSet(modes))
  /\ currentSet \in Nat
  /\ sets # << >> => currentSet < Len(sets)
  /\ pendingRing \in Nat \cup {NoRing}
  /\ isAnimating \in BOOLEAN
  /\ carouselMode \in modes
  /\ is_playing \in BOOLEAN

LEMMA SoundIsConsistent ==
  ASSUME NEW modes, CarouselSound(modes)
  PROVE  SetsConsistent
<1>1. ASSUME NEW s \in DOMAIN sets
      PROVE  sets[s] \in ShownSet(modes)
    BY DEF CarouselSound
<1>2. ASSUME NEW set \in ShownSet(modes)
      PROVE  /\ Len(set.points) = Len(set.rings)
             /\ set.selected < Len(set.rings) \/ set.rings = << >>
             /\ \A i \in DOMAIN set.rings :
                  MaskFits(set.rings[i]) /\ InRange(set.points[i], set.rings[i])
  <2>1. set.rings \in Seq(ShownRings) /\ \A i \in 1 .. Len(set.rings) : InRange(set.points[i], set.rings[i])
      BY DEF ShownSet
  <2>2. ASSUME NEW i \in DOMAIN set.rings
        PROVE  MaskFits(set.rings[i]) /\ InRange(set.points[i], set.rings[i])
    <3>1. set.rings[i] \in ShownRings /\ i \in 1 .. Len(set.rings)
        BY <2>1
    <3> QED BY <2>1, <3>1 DEF ShownRings
  <2> QED BY <2>2 DEF ShownSet
<1> QED BY <1>1, <1>2 DEF SetsConsistent, CarouselSound

LEMMA RingNumbers ==
  ASSUME NEW r \in Nat
  PROVE  SetOf(r) \in Nat /\ LocalOf(r) \in Nat /\ FirstRing(r) \in Nat
BY CarouselAssumption DEF SetOf, LocalOf, FirstRing

(* Each of the sets that the rings need has a ring of its own.             *)
LEMMA NeededSets ==
  ASSUME NEW n \in Nat, NEW s \in Nat, s < (n + RingsPerSet - 1) \div RingsPerSet
  PROVE  FirstRing(s) < n
<1> DEFINE R == RingsPerSet
           q == (n + R - 1) \div R
<1>1. R \in Nat /\ R > 0
    BY CarouselAssumption
<1>2. q \in Int /\ R * q <= n + R - 1
    BY <1>1
<1>3. R * (q - (s + 1)) >= 0 /\ R * (q - (s + 1)) = R * q - R * s - R
  <2>1. q - (s + 1) \in Nat
      BY <1>2
  <2> HIDE DEF q, R
  <2> QED BY <1>1, <1>2, <2>1
<1>4. R * s = s * R /\ R * s \in Nat /\ R * q \in Int
    BY <1>1, <1>2
<1> HIDE DEF q, R
<1>5. s * R < n
    BY <1>1, <1>2, <1>3, <1>4
<1> QED BY <1>5 DEF R, FirstRing

LEMMA ClampedIsShown ==
  ASSUME NEW ring \in RingType, NEW point \in Nat
  PROVE  Clamped(point, ring) \in Nat /\ InRange(Clamped(point, ring), ring)
<1>1. PointCount(ring) \in Nat
    BY TimelineIsFinite DEF RingType, PointCount
<1> QED BY <1>1 DEF Clamped, InRange

LEMMA ToggledIsShown ==
  ASSUME NEW ring \in ShownRings, NEW point \in Nat
  PROVE  PointToggled(ring, point) \in ShownRings /\ PointCount(PointToggled(ring, point)) = PointCount(ring)
<1> DEFINE mask == [ring.active EXCEPT ![point + 1] = ~ @]
<1>1. ring \in RingType /\ MaskFits(ring) /\ ring.active \in Seq(BOOLEAN)
    BY DEF ShownRings, RingType
<1>2. CASE point < Len(ring.active)
  <2>1. mask \in Seq(BOOLEAN) /\ Len(mask) = Len(ring.active)
    <3>1. \A b \in BOOLEAN : (~ b) \in BOOLEAN
        OBVIOUS
    <3> QED BY <1>1, <1>2, <3>1
  <2>2. PointToggled(ring, point) = [ring EXCEPT !.active = mask]
      BY <1>1, <1>2 DEF PointToggled, RingType
  <2> HIDE DEF mask
  <2> QED BY <1>1, <2>1, <2>2 DEF ShownRings, RingType, MaskFits, PointCount
<1>3. CASE ~ point < Len(ring.active)
    BY <1>3 DEF PointToggled
<1> QED BY <1>2, <1>3

LEMMA ShownRingIsShown ==
  ASSUME NEW ring \in RingType
  PROVE  ShownRing(ring) \in ShownRings
<1> DEFINE mask == Resized(ring.active, PointCount(ring))
<1>1. PointCount(ring) \in Nat /\ ring.active \in Seq(BOOLEAN)
    BY TimelineIsFinite DEF RingType, PointCount
<1>2. mask \in Seq(BOOLEAN) /\ Len(mask) = PointCount(ring)
    BY <1>1, ResizedType
<1> HIDE DEF mask
<1>3. ShownRing(ring) = [ring EXCEPT !.active = mask]
    BY DEF ShownRing, mask, RingType
<1> QED BY <1>2, <1>3 DEF ShownRings, RingType, MaskFits, PointCount

-----------------------------------------------------------------------------
(* Each operation on a set leaves one that can be shown.                   *)

LEMMA SlotChanges ==
  ASSUME NEW modes, NEW set \in ShownSet(modes), NEW n \in Nat, NEW b \in BOOLEAN
  PROVE  /\ [set EXCEPT !.slotSelected = n] \in ShownSet(modes)
         /\ [set EXCEPT !.ringCount = n] \in ShownSet(modes)
         /\ [set EXCEPT !.playing = b] \in ShownSet(modes)
         /\ \A ms, mode : mode \in ms => [set EXCEPT !.mode = mode] \in ShownSet(ms)
<1>1. [set EXCEPT !.slotSelected = n] \in ShownSet(modes)
    BY DEF ShownSet
<1>2. [set EXCEPT !.ringCount = n] \in ShownSet(modes)
    BY DEF ShownSet
<1>3. [set EXCEPT !.playing = b] \in ShownSet(modes)
    BY DEF ShownSet
<1>4. ASSUME NEW ms, NEW mode \in ms
      PROVE  [set EXCEPT !.mode = mode] \in ShownSet(ms)
    BY DEF ShownSet
<1> QED BY <1>1, <1>2, <1>3, <1>4

LEMMA RingOfSet ==
  ASSUME NEW modes, NEW set \in ShownSet(modes), NEW i \in Nat, i < Len(set.rings)
  PROVE  /\ set.rings[i + 1] \in ShownRings /\ set.rings[i + 1] \in RingType
         /\ set.points[i + 1] \in Nat
         /\ InRange(set.points[i + 1], set.rings[i + 1])
BY DEF ShownSet, ShownRings

LEMMA OneRingShown ==
  ASSUME NEW modes, NEW set \in ShownSet(modes), NEW i \in Nat, i < Len(set.rings),
         NEW ring \in ShownRings, InRange(set.points[i + 1], ring)
  PROVE  [set EXCEPT !.rings = [set.rings EXCEPT ![i + 1] = ring]] \in ShownSet(modes)
<1> DEFINE rs == [set.rings EXCEPT ![i + 1] = ring]
<1>1. /\ set.rings \in Seq(ShownRings) /\ Len(set.rings) \in Nat /\ i + 1 \in 1 .. Len(set.rings)
      /\ \A j \in 1 .. Len(set.rings) : InRange(set.points[j], set.rings[j])
    BY DEF ShownSet
<1>0. set.selected < Len(set.rings) /\ Len(set.points) = Len(set.rings)
    BY <1>1 DEF ShownSet
<1>2. /\ rs \in Seq(ShownRings) /\ Len(rs) = Len(set.rings)
      /\ \A j \in 1 .. Len(set.rings) : rs[j] = IF j = i + 1 THEN ring ELSE set.rings[j]
    BY <1>1
<1> HIDE DEF rs
<1>3. \A j \in 1 .. Len(set.rings) : InRange(set.points[j], rs[j])
    BY <1>1, <1>2
<1>4. [set EXCEPT !.rings = rs] \in ShownSet(modes)
    BY <1>0, <1>1, <1>2, <1>3 DEF ShownSet
<1> QED BY <1>4 DEF rs

LEMMA OnePointShown ==
  ASSUME NEW modes, NEW set \in ShownSet(modes), NEW i \in Nat, i < Len(set.rings),
         NEW point \in Nat, InRange(point, set.rings[i + 1])
  PROVE  [set EXCEPT !.points = [set.points EXCEPT ![i + 1] = point]] \in ShownSet(modes)
<1> DEFINE ps == [set.points EXCEPT ![i + 1] = point]
<1>1. /\ set.points \in Seq(Nat) /\ Len(set.rings) \in Nat /\ i + 1 \in 1 .. Len(set.rings)
      /\ Len(set.points) = Len(set.rings)
      /\ \A j \in 1 .. Len(set.rings) : InRange(set.points[j], set.rings[j])
    BY DEF ShownSet
<1>2. /\ ps \in Seq(Nat) /\ Len(ps) = Len(set.rings)
      /\ \A j \in 1 .. Len(set.rings) : ps[j] = IF j = i + 1 THEN point ELSE set.points[j]
    BY <1>1
<1> HIDE DEF ps
<1>3. \A j \in 1 .. Len(set.rings) : InRange(ps[j], set.rings[j])
    BY <1>1, <1>2
<1>4. [set EXCEPT !.points = ps] \in ShownSet(modes)
    BY <1>2, <1>3 DEF ShownSet
<1> QED BY <1>4 DEF ps

LEMMA UiSelectRingShown ==
  ASSUME NEW modes, NEW set \in ShownSet(modes), NEW i \in Nat
  PROVE  UiSelectRing(set, i) \in ShownSet(modes)
<1> DEFINE point == Clamped(set.points[i + 1], set.rings[i + 1])
           other == [set EXCEPT !.points = [set.points EXCEPT ![i + 1] = point]]
<1>1. CASE i < Len(set.rings)
  <2>1. point \in Nat /\ InRange(point, set.rings[i + 1])
      BY <1>1, RingOfSet, ClampedIsShown
  <2> HIDE DEF point
  <2>2. other \in ShownSet(modes)
      BY <1>1, <2>1, OnePointShown
  <2>3. UiSelectRing(set, i) = [other EXCEPT !.selected = i] /\ other.rings = set.rings
      BY <1>1 DEF UiSelectRing, ShownSet, point
  <2> HIDE DEF other
  <2> QED BY <1>1, <2>2, <2>3 DEF ShownSet
<1>2. CASE ~ i < Len(set.rings)
    BY <1>2 DEF UiSelectRing
<1> QED BY <1>1, <1>2

LEMMA UiToggleShown ==
  ASSUME NEW modes, NEW set \in ShownSet(modes), NEW i \in Nat, NEW p \in Nat
  PROVE  UiToggle(set, i, p) \in ShownSet(modes)
<1> DEFINE ring == PointToggled(set.rings[i + 1], p)
<1>1. CASE i < Len(set.rings)
  <2>1. ring \in ShownRings /\ InRange(set.points[i + 1], ring)
      BY <1>1, RingOfSet, ToggledIsShown DEF InRange
  <2>2. UiToggle(set, i, p) = [set EXCEPT !.rings = [set.rings EXCEPT ![i + 1] = ring]]
      BY <1>1 DEF UiToggle, ShownSet
  <2> HIDE DEF ring
  <2> QED BY <1>1, <2>1, <2>2, OneRingShown
<1>2. CASE ~ i < Len(set.rings)
    BY <1>2 DEF UiToggle
<1> QED BY <1>1, <1>2

LEMMA UiSelectPointShown ==
  ASSUME NEW modes, NEW set \in ShownSet(modes), NEW i \in Nat, NEW p \in Nat
  PROVE  UiSelectPoint(set, i, p) \in ShownSet(modes)
<1> DEFINE point == Clamped(p, set.rings[i + 1])
<1>1. CASE i < Len(set.rings)
  <2>1. point \in Nat /\ InRange(point, set.rings[i + 1])
      BY <1>1, RingOfSet, ClampedIsShown
  <2>2. UiSelectPoint(set, i, p) = [set EXCEPT !.points = [set.points EXCEPT ![i + 1] = point]]
      BY <1>1 DEF UiSelectPoint, ShownSet
  <2> HIDE DEF point
  <2> QED BY <1>1, <2>1, <2>2, OnePointShown
<1>2. CASE ~ i < Len(set.rings)
    BY <1>2 DEF UiSelectPoint
<1> QED BY <1>1, <1>2

LEMMA PopulatedShown ==
  ASSUME NEW modes, NEW set \in ShownSet(modes), NEW s \in Nat,
         NEW staging \in Seq(RingType), carouselMode \in modes
  PROVE  Populated(set, s, staging) \in ShownSet(modes)
<1> DEFINE first == FirstRing(s)
           n == IF first + set.ringCount <= Len(staging) THEN set.ringCount
                ELSE IF first < Len(staging) THEN Len(staging) - first ELSE 0
           rs == [i \in 1 .. n |-> ShownRing(staging[first + i])]
           ps == [i \in 1 .. n |-> 0]
           selected == IF n > 0 /\ set.selected >= n THEN 0 ELSE set.selected
<1>1. first \in Nat /\ Len(staging) \in Nat /\ set.ringCount \in Nat /\ set.selected \in Nat
  <2>1. set.ringCount \in Nat /\ set.selected \in Nat
      BY DEF ShownSet
  <2>2. first \in Nat
      BY RingNumbers
  <2>3. Len(staging) \in Nat
      OBVIOUS
  <2> QED BY <2>1, <2>2, <2>3
<1>2. n \in Nat /\ (first + n <= Len(staging) \/ n = 0)
  <2> HIDE DEF first
  <2> QED BY <1>1
<1>3. n \in Nat /\ selected \in Nat /\ (selected < n \/ n = 0)
  <2> HIDE DEF first
  <2> QED BY <1>1
<1>4. Populated(set, s, staging)
        = [set EXCEPT !.rings = rs, !.points = ps, !.selected = selected, !.mode = carouselMode]
    BY DEF Populated, ShownSet
<1> HIDE DEF n, selected, first
<1>5. ASSUME NEW i \in 1 .. n
      PROVE  ShownRing(staging[first + i]) \in ShownRings
  <2>1. first + i \in 1 .. Len(staging)
      BY <1>1, <1>2, <1>3
  <2>2. staging[first + i] \in RingType
      BY <2>1
  <2> QED BY <2>2, ShownRingIsShown
<1>6. rs \in Seq(ShownRings) /\ Len(rs) = n
    BY <1>3, <1>5
<1>7. ps \in Seq(Nat) /\ Len(ps) = n /\ \A i \in 1 .. n : ps[i] = 0
    BY <1>3
<1> HIDE DEF rs, ps
<1>8. selected < Len(rs) \/ rs = << >>
    BY <1>3, <1>6
<1>9. \A i \in 1 .. Len(rs) : InRange(ps[i], rs[i])
    BY <1>6, <1>7 DEF InRange
<1> QED BY <1>3, <1>4, <1>6, <1>7, <1>8, <1>9 DEF ShownSet

-----------------------------------------------------------------------------
(***************************************************************************)
(* Each message that the GUI handles, except the mode.                     *)
(***************************************************************************)
LEMMA SeqOfParts ==
  ASSUME NEW S, NEW n \in Nat, NEW f, f = [s \in 1 .. n |-> f[s]], \A s \in 1 .. n : f[s] \in S
  PROVE  f \in Seq(S) /\ Len(f) = n
<1>1. f \in [1 .. n -> S]
    OBVIOUS
<1> QED BY <1>1

LEMMA OneSetChanges ==
  ASSUME NEW modes, CarouselSound(modes), NEW s \in 1 .. Len(sets), NEW set \in ShownSet(modes)
  PROVE  [sets EXCEPT ![s] = set] \in Seq(ShownSet(modes)) /\ Len([sets EXCEPT ![s] = set]) = Len(sets)
<1>1. sets \in Seq(ShownSet(modes))
    BY DEF CarouselSound
<1> QED BY <1>1

(* The set of a ring, if there is one.                                     *)
LEMMA SetOfRing ==
  ASSUME NEW modes, CarouselSound(modes), NEW r \in Nat, SetOf(r) < Len(sets)
  PROVE  /\ SetOf(r) + 1 \in 1 .. Len(sets)
         /\ sets[SetOf(r) + 1] \in ShownSet(modes)
         /\ LocalOf(r) \in Nat
<1>1. sets \in Seq(ShownSet(modes)) /\ SetOf(r) \in Nat /\ LocalOf(r) \in Nat
    BY RingNumbers DEF CarouselSound
<1>2. SetOf(r) + 1 \in 1 .. Len(sets)
    BY <1>1
<1> QED BY <1>1, <1>2

LEMMA PlayStateKeeps ==
  ASSUME NEW modes, CarouselSound(modes), NEW playing \in BOOLEAN,
         sets' = [s \in DOMAIN sets |-> [sets[s] EXCEPT !.playing = playing]],
         is_playing' = playing,
         UNCHANGED <<staged, currentSet, pendingRing, isAnimating, carouselMode>>
  PROVE  CarouselSound(modes)'
<1>1. sets \in Seq(ShownSet(modes)) /\ Len(sets) \in Nat /\ DOMAIN sets = 1 .. Len(sets)
    BY DEF CarouselSound
<1>2. ASSUME NEW s \in 1 .. Len(sets)
      PROVE  sets'[s] \in ShownSet(modes)
  <2>1. sets[s] \in ShownSet(modes) /\ 0 \in Nat
      BY <1>1
  <2>2. [sets[s] EXCEPT !.playing = playing] \in ShownSet(modes)
      BY <2>1, SlotChanges
  <2> QED BY <1>1, <2>2
<1>3. sets' \in Seq(ShownSet(modes)) /\ Len(sets') = Len(sets)
  <2>1. sets' = [s \in 1 .. Len(sets) |-> sets'[s]]
      BY <1>1
  <2> QED BY <1>1, <1>2, <2>1, SeqOfParts
<1> QED BY <1>1, <1>3 DEF CarouselSound

LEMMA HwModeKeeps ==
  ASSUME NEW modes, CarouselSound(modes), NEW ms, NEW mode \in ms, OnHwMode(mode)
  PROVE  CarouselSound(ms)'
<1>1. sets \in Seq(ShownSet(modes)) /\ Len(sets) \in Nat /\ DOMAIN sets = 1 .. Len(sets)
    BY DEF CarouselSound
<1>2. ASSUME NEW s \in 1 .. Len(sets)
      PROVE  sets'[s] \in ShownSet(ms)
  <2>1. sets[s] \in ShownSet(modes) /\ 0 \in Nat /\ TRUE \in BOOLEAN
      BY <1>1
  <2>2. [sets[s] EXCEPT !.mode = mode] \in ShownSet(ms)
      BY <2>1, SlotChanges
  <2> QED BY <1>1, <2>2 DEF OnHwMode
<1>3. sets' \in Seq(ShownSet(ms)) /\ Len(sets') = Len(sets)
  <2>1. sets' = [s \in 1 .. Len(sets) |-> sets'[s]]
      BY <1>1 DEF OnHwMode
  <2> QED BY <1>1, <1>2, <2>1, SeqOfParts
<1> QED BY <1>1, <1>3 DEF CarouselSound, OnHwMode

LEMMA StagesKeeps ==
  ASSUME NEW modes, CarouselSound(modes), NEW staging \in Seq(RingType), Stages(staging)
  PROVE  CarouselSound(modes)'
BY DEF CarouselSound, Stages

LEMMA StagingKeeps ==
  ASSUME NEW modes, CarouselSound(modes), NEW r \in Nat, NEW shape \in Shape,
         NEW timeline \in SUBSET Instant, NEW active \in Seq(BOOLEAN),
         OnRebuild \/ OnRing \/ OnRingShape(r, shape) \/ OnRingTimeline(r, timeline)
           \/ OnRingActive(r, active)
  PROVE  CarouselSound(modes)'
<1>1. staged \in Seq(RingType) /\ Len(staged) \in Nat
    BY DEF CarouselSound
<1>2. ASSUME NEW ring \in RingType, r < Len(staged)
      PROVE  [staged EXCEPT ![r + 1] = ring] \in Seq(RingType)
    BY <1>1, <1>2
<1>3. ASSUME r < Len(staged)
      PROVE  staged[r + 1] \in RingType
    BY <1>1, <1>3
<1>4. CASE OnRebuild
  <2>1. << >> \in Seq(RingType)
      OBVIOUS
  <2> QED BY <1>4, <2>1, StagesKeeps DEF OnRebuild
<1>5. CASE OnRing
  <2>1. [shapes |-> << >>, timeline |-> {}, active |-> << >>] \in RingType
      BY DEF RingType
  <2>2. Append(staged, [shapes |-> << >>, timeline |-> {}, active |-> << >>]) \in Seq(RingType)
      BY <1>1, <2>1
  <2> QED BY <1>5, <2>2, StagesKeeps DEF OnRing
<1>6. CASE OnRingShape(r, shape)
  <2> DEFINE shapes == Append(staged[r + 1].shapes, shape)
             ring == [staged[r + 1] EXCEPT !.shapes = shapes]
  <2>1. CASE r < Len(staged)
    <3>1. staged[r + 1] \in RingType
        BY <1>3, <2>1
    <3>2. shapes \in Seq(Shape)
      <4>1. staged[r + 1].shapes \in Seq(Shape)
          BY <3>1 DEF RingType
      <4> QED BY <4>1
    <3>3. ring \in RingType
      <4> HIDE DEF shapes
      <4> QED BY <3>1, <3>2 DEF RingType
    <3>4. Stages([staged EXCEPT ![r + 1] = ring])
        BY <1>6, <2>1 DEF OnRingShape
    <3> HIDE DEF ring
    <3> QED BY <1>2, <2>1, <3>3, <3>4, StagesKeeps
  <2>2. CASE ~ r < Len(staged)
      BY <1>1, <1>6, <2>2, StagesKeeps DEF OnRingShape
  <2> QED BY <2>1, <2>2
<1>7. CASE OnRingTimeline(r, timeline)
  <2> DEFINE ring == [staged[r + 1] EXCEPT !.timeline = timeline]
  <2>1. CASE r < Len(staged)
    <3>1. staged[r + 1] \in RingType
        BY <1>3, <2>1
    <3>2. ring \in RingType
        BY <3>1 DEF RingType
    <3>3. Stages([staged EXCEPT ![r + 1] = ring])
        BY <1>7, <2>1 DEF OnRingTimeline
    <3> HIDE DEF ring
    <3> QED BY <1>2, <2>1, <3>2, <3>3, StagesKeeps
  <2>2. CASE ~ r < Len(staged)
      BY <1>1, <1>7, <2>2, StagesKeeps DEF OnRingTimeline
  <2> QED BY <2>1, <2>2
<1>8. CASE OnRingActive(r, active)
  <2> DEFINE ring == [staged[r + 1] EXCEPT !.active = active]
  <2>1. CASE r < Len(staged)
    <3>1. staged[r + 1] \in RingType
        BY <1>3, <2>1
    <3>2. ring \in RingType
        BY <3>1 DEF RingType
    <3>3. Stages([staged EXCEPT ![r + 1] = ring])
        BY <1>8, <2>1 DEF OnRingActive
    <3> HIDE DEF ring
    <3> QED BY <1>2, <2>1, <3>2, <3>3, StagesKeeps
  <2>2. CASE ~ r < Len(staged)
      BY <1>1, <1>8, <2>2, StagesKeeps DEF OnRingActive
  <2> QED BY <2>1, <2>2
<1> QED BY <1>4, <1>5, <1>6, <1>7, <1>8

LEMMA ToggleKeepsShown ==
  ASSUME NEW modes, CarouselSound(modes), NEW r \in Nat, NEW p \in Nat,
         OnToggle(r, p) \/ OnSelectedPoint(r, p)
  PROVE  CarouselSound(modes)'
<1>1. CASE SetOf(r) < Len(sets)
  <2> DEFINE set == sets[SetOf(r) + 1]
             toggled == UiSelectPoint(UiToggle(set, LocalOf(r), p), LocalOf(r), p)
             pointed == UiSelectPoint(set, LocalOf(r), p)
  <2>1. /\ SetOf(r) + 1 \in 1 .. Len(sets)
        /\ set \in ShownSet(modes) /\ LocalOf(r) \in Nat
      BY <1>1, SetOfRing
  <2>2. toggled \in ShownSet(modes) /\ pointed \in ShownSet(modes)
    <3>1. UiToggle(set, LocalOf(r), p) \in ShownSet(modes)
        BY <2>1, UiToggleShown
    <3> QED BY <2>1, <3>1, UiSelectPointShown
  <2>3. \/ sets' = [sets EXCEPT ![SetOf(r) + 1] = toggled]
        \/ sets' = [sets EXCEPT ![SetOf(r) + 1] = pointed]
      BY <1>1 DEF OnToggle, OnSelectedPoint
  <2> HIDE DEF set, toggled, pointed
  <2>4. sets' \in Seq(ShownSet(modes)) /\ Len(sets') = Len(sets)
      BY <2>1, <2>2, <2>3, OneSetChanges
  <2>5. sets' # << >> => sets # << >>
      BY <2>4 DEF CarouselSound
  <2> QED BY <2>4, <2>5 DEF CarouselSound, OnToggle, OnSelectedPoint
<1>2. CASE ~ SetOf(r) < Len(sets)
    BY <1>2 DEF CarouselSound, OnToggle, OnSelectedPoint
<1> QED BY <1>1, <1>2

LEMMA SelectKeeps ==
  ASSUME NEW modes, CarouselSound(modes), NEW r \in Nat, OnSelect(r)
  PROVE  CarouselSound(modes)'
<1>1. CASE SetOf(r) < Len(sets)
  <2> DEFINE set == sets[SetOf(r) + 1]
             selected == UiSelectRing(set, LocalOf(r))
             slotted == [selected EXCEPT !.slotSelected = LocalOf(r)]
  <2>1. /\ SetOf(r) + 1 \in 1 .. Len(sets)
        /\ set \in ShownSet(modes) /\ LocalOf(r) \in Nat
      BY <1>1, SetOfRing
  <2>2. slotted \in ShownSet(modes)
    <3>1. selected \in ShownSet(modes) /\ TRUE \in BOOLEAN
        BY <2>1, UiSelectRingShown
    <3> HIDE DEF selected
    <3> QED BY <2>1, <3>1, SlotChanges
  <2>3. sets' = [sets EXCEPT ![SetOf(r) + 1] = slotted]
      BY <1>1 DEF OnSelect
  <2> HIDE DEF set, slotted
  <2>4. sets' \in Seq(ShownSet(modes)) /\ Len(sets') = Len(sets)
      BY <2>1, <2>2, <2>3, OneSetChanges
  <2>5. SetOf(r) \in Nat
      BY RingNumbers
  <2>6. currentSet' = SetOf(r)
      BY <1>1 DEF OnSelect
  <2> QED BY <1>1, <2>4, <2>5, <2>6 DEF CarouselSound, OnSelect
<1>2. CASE ~ SetOf(r) < Len(sets)
    BY <1>2 DEF CarouselSound, OnSelect
<1> QED BY <1>1, <1>2

(* POLY_READY makes as many sets as are needed, and fills each.            *)
LEMMA ReadyKeeps ==
  ASSUME NEW modes, CarouselSound(modes), OnReady
  PROVE  CarouselSound(modes)'
<1> DEFINE kept(s) == IF s <= Len(sets) THEN sets[s] ELSE EmptySet
           left(s) == Len(staged) - FirstRing(s - 1)
           count(s) == IF left(s) < RingsPerSet THEN left(s) ELSE RingsPerSet
           slot(s) == Populated([kept(s) EXCEPT !.ringCount = count(s)], s - 1, staged)
           filled == [s \in 1 .. NumSets |-> slot(s)]
           restores == /\ pendingRing # NoRing
                       /\ SetOf(pendingRing) < NumSets
                       /\ LocalOf(pendingRing) < filled[SetOf(pendingRing) + 1].ringCount
           slotSelected(s) == IF restores /\ SetOf(pendingRing) = s - 1
                              THEN LocalOf(pendingRing) ELSE filled[s].slotSelected
           last(s) == filled[s].ringCount - 1
           ring(s) == IF slotSelected(s) > last(s) THEN last(s) ELSE slotSelected(s)
           chosen(s) == UiSelectRing([filled[s] EXCEPT !.slotSelected = ring(s)], ring(s))
           all == [s \in 1 .. NumSets |-> chosen(s)]
           centre == IF restores THEN SetOf(pendingRing)
                     ELSE IF currentSet >= NumSets /\ NumSets > 0 THEN 0 ELSE currentSet
<1>1. /\ currentSet' = centre
      /\ sets' = IF NumSets = 0 THEN << >> ELSE LaidOut(all, centre)
      /\ UNCHANGED <<staged, pendingRing, isAnimating, carouselMode, is_playing>>
    BY DEF OnReady
<1>2. /\ staged \in Seq(RingType) /\ Len(staged) \in Nat
      /\ sets \in Seq(ShownSet(modes)) /\ Len(sets) \in Nat
      /\ currentSet \in Nat /\ carouselMode \in modes
      /\ pendingRing # NoRing => pendingRing \in Nat
      /\ RingsPerSet \in Nat /\ RingsPerSet > 0 /\ MaxSets \in Nat
    BY CarouselAssumption DEF CarouselSound
<1>3. NumSets \in Nat /\ NumSets <= (Len(staged) + RingsPerSet - 1) \div RingsPerSet
  <2> DEFINE q == (Len(staged) + RingsPerSet - 1) \div RingsPerSet
  <2>1. q \in Nat
      BY <1>2
  <2>2. NumSets = IF q <= MaxSets THEN q ELSE MaxSets
      BY DEF NumSets
  <2> HIDE DEF q
  <2>3. NumSets \in Nat /\ NumSets <= q
      BY <1>2, <2>1, <2>2
  <2> QED BY <2>3 DEF q
<1> HIDE DEF filled, all, centre, ring, last, slotSelected, restores, chosen, slot, kept, left, count
<1>4. ASSUME NEW s \in 1 .. NumSets
      PROVE  /\ count(s) \in Nat /\ count(s) > 0
             /\ [kept(s) EXCEPT !.ringCount = count(s)] \in ShownSet(HardwareMode \cup modes)
             /\ [kept(s) EXCEPT !.ringCount = count(s)].ringCount = count(s)
  <2>1. s - 1 \in Nat /\ s - 1 < (Len(staged) + RingsPerSet - 1) \div RingsPerSet
    <3> DEFINE q == (Len(staged) + RingsPerSet - 1) \div RingsPerSet
    <3>1. q \in Int /\ NumSets <= q
        BY <1>2, <1>3
    <3> HIDE DEF q
    <3>2. s - 1 \in Nat /\ s - 1 < q
        BY <1>3, <3>1
    <3> QED BY <3>2 DEF q
  <2>2. FirstRing(s - 1) < Len(staged) /\ FirstRing(s - 1) \in Nat
      BY <1>2, <2>1, NeededSets, RingNumbers
  <2>3. count(s) \in Nat /\ count(s) > 0
      BY <1>2, <2>2 DEF count, left
  <2>4. kept(s) \in ShownSet(HardwareMode \cup modes)
    <3>1. CASE s <= Len(sets)
      <4>1. sets[s] \in ShownSet(modes)
          BY <1>2, <3>1
      <4>2. sets[s] \in ShownSet(HardwareMode \cup modes)
          BY <4>1 DEF ShownSet
      <4> QED BY <3>1, <4>2 DEF kept
    <3>2. CASE ~ s <= Len(sets)
      <4>1. EmptySet \in ShownSet(HardwareMode \cup modes)
        <5>1. /\ << >> \in Seq(ShownRings) /\ << >> \in Seq(Nat) /\ Len(<< >>) = 0
              /\ "rotate" \in HardwareMode
            BY DEF HardwareMode
        <5> QED BY <5>1 DEF ShownSet, EmptySet
      <4> QED BY <3>2, <4>1 DEF kept
    <3> QED BY <3>1, <3>2
  <2>5. [kept(s) EXCEPT !.ringCount = count(s)] \in ShownSet(HardwareMode \cup modes)
      BY <2>3, <2>4, SlotChanges
  <2>6. [kept(s) EXCEPT !.ringCount = count(s)].ringCount = count(s)
      BY <2>4 DEF ShownSet
  <2> QED BY <2>3, <2>5, <2>6
<1>5. ASSUME NEW s \in 1 .. NumSets
      PROVE  filled[s] \in ShownSet(modes) /\ filled[s].ringCount = count(s)
  <2> DEFINE old == [kept(s) EXCEPT !.ringCount = count(s)]
  <2>1. old \in ShownSet(HardwareMode \cup modes) /\ old.ringCount = count(s)
      BY <1>4
  <2> HIDE DEF old
  <2>2. [old EXCEPT !.mode = carouselMode] \in ShownSet(modes)
      BY <1>2, <2>1 DEF ShownSet
  <2>3. Populated(old, s - 1, staged) = Populated([old EXCEPT !.mode = carouselMode], s - 1, staged)
      BY <2>1 DEF Populated, ShownSet
  <2>4. s - 1 \in Nat
      BY <1>3
  <2>5. Populated(old, s - 1, staged) \in ShownSet(modes)
      BY <1>2, <2>2, <2>3, <2>4, PopulatedShown
  <2>6. Populated(old, s - 1, staged).ringCount = old.ringCount
      BY <2>1 DEF Populated, ShownSet
  <2>7. filled[s] = Populated(old, s - 1, staged)
      BY DEF filled, slot, old
  <2> QED BY <2>1, <2>5, <2>6, <2>7
<1>6. ASSUME NEW s \in 1 .. NumSets
      PROVE  all[s] \in ShownSet(modes)
  <2>1. /\ filled[s] \in ShownSet(modes) /\ filled[s].ringCount = count(s)
        /\ count(s) \in Nat /\ count(s) > 0
      BY <1>4, <1>5
  <2>2. slotSelected(s) \in Nat
    <3>1. filled[s].slotSelected \in Nat
        BY <2>1 DEF ShownSet
    <3>2. restores => LocalOf(pendingRing) \in Nat
        BY <1>2, RingNumbers DEF restores
    <3> QED BY <3>1, <3>2 DEF slotSelected
  <2>3. ring(s) \in Nat
      BY <2>1, <2>2 DEF ring, last
  <2>4. [filled[s] EXCEPT !.slotSelected = ring(s)] \in ShownSet(modes)
      BY <2>1, <2>3, SlotChanges
  <2>5. chosen(s) \in ShownSet(modes)
      BY <2>3, <2>4, UiSelectRingShown DEF chosen
  <2> QED BY <2>5 DEF all
<1>7. all \in Seq(ShownSet(modes)) /\ Len(all) = NumSets
  <2>1. all = [s \in 1 .. NumSets |-> all[s]]
      BY DEF all
  <2> QED BY <1>3, <1>6, <2>1, SeqOfParts
<1>8. centre \in Nat /\ (NumSets > 0 => centre < NumSets)
  <2>1. restores => SetOf(pendingRing) \in Nat /\ SetOf(pendingRing) < NumSets
      BY <1>2, RingNumbers DEF restores
  <2> QED BY <1>2, <1>3, <2>1 DEF centre
<1>9. sets' \in Seq(ShownSet(modes)) /\ (sets' # << >> => centre < Len(sets'))
  <2>1. CASE NumSets = 0
      BY <1>1, <2>1
  <2>2. CASE NumSets > 0
    <3> DEFINE set == [all[centre + 1] EXCEPT !.slotSelected = all[centre + 1].selected]
    <3>1. centre + 1 \in 1 .. NumSets
        BY <1>3, <1>8, <2>2
    <3>2. all[centre + 1] \in ShownSet(modes) /\ all[centre + 1].selected \in Nat
        BY <1>6, <3>1 DEF ShownSet
    <3>3. set \in ShownSet(modes)
        BY <3>2, SlotChanges
    <3>4. sets' = [all EXCEPT ![centre + 1] = set]
        BY <1>1, <2>2, <3>1 DEF LaidOut
    <3> HIDE DEF set
    <3>5. sets' \in Seq(ShownSet(modes)) /\ Len(sets') = NumSets
        BY <1>3, <1>7, <3>1, <3>3, <3>4
    <3> QED BY <1>8, <2>2, <3>5
  <2> QED BY <1>3, <2>1, <2>2
<1> QED BY <1>1, <1>8, <1>9 DEF CarouselSound

(* What the navigation writes back are masks that a set shows.             *)
LEMMA SyncedType ==
  ASSUME NEW modes, CarouselSound(modes), NEW s \in Nat, s < Len(sets),
         NEW staging \in Seq(RingType)
  PROVE  Synced(staging, s) \in Seq(RingType)
<1> DEFINE inSet(i) == SetOf(i - 1) = s /\ LocalOf(i - 1) < sets[s + 1].ringCount
           mask(i) == IF LocalOf(i - 1) < Len(sets[s + 1].rings)
                      THEN sets[s + 1].rings[LocalOf(i - 1) + 1].active ELSE << >>
           ring(i) == IF inSet(i) THEN [staging[i] EXCEPT !.active = mask(i)] ELSE staging[i]
<1>1. sets[s + 1] \in ShownSet(modes)
  <2>1. sets \in Seq(ShownSet(modes)) /\ s + 1 \in 1 .. Len(sets)
      BY DEF CarouselSound
  <2> QED BY <2>1
<1>2. Len(staging) \in Nat /\ DOMAIN staging = 1 .. Len(staging)
    OBVIOUS
<1>3. ASSUME NEW i \in 1 .. Len(staging)
      PROVE  ring(i) \in RingType
  <2>1. LocalOf(i - 1) \in Nat
    <3>1. i - 1 \in Nat
        OBVIOUS
    <3> QED BY <3>1, RingNumbers
  <2>2. mask(i) \in Seq(BOOLEAN)
    <3>1. CASE LocalOf(i - 1) < Len(sets[s + 1].rings)
      <4>1. sets[s + 1].rings[LocalOf(i - 1) + 1] \in RingType
          BY <1>1, <2>1, <3>1, RingOfSet
      <4> QED BY <3>1, <4>1 DEF RingType
    <3>2. CASE ~ LocalOf(i - 1) < Len(sets[s + 1].rings)
        BY <3>2
    <3> QED BY <3>1, <3>2
  <2>3. staging[i] \in RingType
      OBVIOUS
  <2> HIDE DEF mask, inSet
  <2> QED BY <2>2, <2>3 DEF RingType
<1>4. Synced(staging, s) = [i \in 1 .. Len(staging) |-> ring(i)]
    BY <1>2 DEF Synced
<1> HIDE DEF ring
<1>5. [i \in 1 .. Len(staging) |-> ring(i)] \in Seq(RingType)
    BY <1>2, <1>3
<1> QED BY <1>4, <1>5

(* The last message of the queue to the engine, if there is a new one.     *)
Asked ==
  \/ UNCHANGED toAudio
  \/ \E m \in Command : /\ m.type \notin {"PLAY", "PAUSE", "POLY_HW_MODE"}
                        /\ SendsToAudio(m)

LEMMA NavigateKeeps ==
  ASSUME NEW modes, CarouselSound(modes), NEW n \in Int, NavigateBy(n)
  PROVE  CarouselSound(modes)' /\ Asked
<1>1. CASE isAnimating \/ Len(sets) <= 1
    BY <1>1 DEF NavigateBy, guiVars, CarouselSound, Asked
<1>2. CASE ~ (isAnimating \/ Len(sets) <= 1)
  <2> DEFINE centre == (currentSet + n) % Len(sets)
             staging == Synced(Synced(staged, currentSet), centre)
             laidOut == LaidOut(sets, centre)
             refilled == [s \in DOMAIN sets |->
                            IF s - 1 \in {currentSet, centre}
                            THEN Populated(laidOut[s], s - 1, staging) ELSE laidOut[s]]
             ring == laidOut[centre + 1].slotSelected
             message == [type |-> "POLY_SET_SELECTED_RING", ring |-> FirstRing(centre) + ring]
  <2>1. /\ staged' = staging
        /\ currentSet' = centre
        /\ sets' = [refilled EXCEPT ![centre + 1] = UiSelectRing(refilled[centre + 1], ring)]
        /\ isAnimating' = TRUE
        /\ SendsToAudio(message)
        /\ UNCHANGED <<pendingRing, carouselMode, is_playing>>
    <3>1. NavigateTo(centre)
        BY <1>2 DEF NavigateBy
    <3>2. sets' = [refilled EXCEPT ![centre + 1] = UiSelectRing(@, ring)]
        BY <3>1 DEF NavigateTo
    <3> QED BY <3>1, <3>2 DEF NavigateTo
  <2>2. /\ sets \in Seq(ShownSet(modes)) /\ Len(sets) \in Nat /\ Len(sets) > 1
        /\ DOMAIN sets = 1 .. Len(sets)
        /\ currentSet \in Nat /\ currentSet < Len(sets) /\ carouselMode \in modes
        /\ staged \in Seq(RingType) /\ pendingRing \in Nat \cup {NoRing} /\ is_playing \in BOOLEAN
      BY <1>2 DEF CarouselSound
  <2>3. centre \in Nat /\ centre < Len(sets) /\ centre + 1 \in 1 .. Len(sets)
    <3>1. currentSet + n \in Int
        BY <2>2
    <3>2. centre \in 0 .. Len(sets) - 1
        BY <2>2, <3>1, ModRange
    <3> HIDE DEF centre
    <3> QED BY <2>2, <3>2
  <2> HIDE DEF centre
  <2>4. staging \in Seq(RingType)
    <3>1. Synced(staged, currentSet) \in Seq(RingType)
        BY <2>2, SyncedType
    <3> QED BY <2>3, <3>1, SyncedType
  <2>5. laidOut \in Seq(ShownSet(modes)) /\ Len(laidOut) = Len(sets)
    <3> DEFINE set == [sets[centre + 1] EXCEPT !.slotSelected = sets[centre + 1].selected]
    <3>1. sets[centre + 1] \in ShownSet(modes)
        BY <2>2, <2>3
    <3>2. sets[centre + 1].selected \in Nat /\ TRUE \in BOOLEAN
        BY <3>1 DEF ShownSet
    <3>3. set \in ShownSet(modes)
        BY <3>1, <3>2, SlotChanges
    <3>4. laidOut = [sets EXCEPT ![centre + 1] = set]
        BY <2>2, <2>3 DEF LaidOut
    <3> HIDE DEF set, laidOut
    <3> QED BY <2>3, <3>3, <3>4, OneSetChanges
  <2> HIDE DEF staging, laidOut
  <2>6. refilled \in Seq(ShownSet(modes)) /\ Len(refilled) = Len(sets)
    <3>1. ASSUME NEW s \in 1 .. Len(sets)
          PROVE  refilled[s] \in ShownSet(modes)
      <4>1. laidOut[s] \in ShownSet(modes) /\ s - 1 \in Nat
          BY <2>2, <2>5
      <4>2. Populated(laidOut[s], s - 1, staging) \in ShownSet(modes)
          BY <2>2, <2>4, <4>1, PopulatedShown
      <4> QED BY <2>2, <4>1, <4>2
    <3>2. refilled = [s \in 1 .. Len(sets) |-> refilled[s]]
        BY <2>2
    <3> HIDE DEF refilled
    <3> QED BY <2>2, <3>1, <3>2, SeqOfParts
  <2>7. ring \in Nat
    <3>1. laidOut[centre + 1] \in ShownSet(modes)
        BY <2>2, <2>3, <2>5
    <3> QED BY <3>1 DEF ShownSet
  <2> HIDE DEF refilled, ring
  <2>8. sets' \in Seq(ShownSet(modes)) /\ Len(sets') = Len(sets)
    <3> DEFINE set == UiSelectRing(refilled[centre + 1], ring)
    <3>1. refilled[centre + 1] \in ShownSet(modes)
        BY <2>2, <2>3, <2>6
    <3>2. set \in ShownSet(modes) /\ sets' = [refilled EXCEPT ![centre + 1] = set]
        BY <2>1, <2>7, <3>1, UiSelectRingShown
    <3> HIDE DEF set
    <3> QED BY <2>2, <2>3, <2>6, <3>2
  <2>9. CarouselSound(modes)'
      BY <2>1, <2>2, <2>3, <2>4, <2>8 DEF CarouselSound
  <2>10. FirstRing(centre) + ring \in Nat
    <3>1. FirstRing(centre) \in Nat
        BY <2>3, RingNumbers
    <3> QED BY <2>7, <3>1
  <2>11. message \in Command /\ message.type \notin {"PLAY", "PAUSE", "POLY_HW_MODE"}
      BY <2>10 DEF Command
  <2> QED BY <2>1, <2>9, <2>11 DEF Asked
<1> QED BY <1>1, <1>2

LEMMA MessageFields ==
  ASSUME NEW m \in GuiMessage
  PROVE  /\ m.type = "PLAY_STATE" => m.playing \in BOOLEAN
         /\ m.type \in {"POLY_RING", "POLY_RING_SHAPE", "POLY_RING_TIMELINE", "POLY_RING_ACTIVE",
                        "POLY_SELECT", "POLY_TOGGLE", "POLY_SELECTED_POINT"} => m.ring \in Nat
         /\ m.type = "POLY_RING_SHAPE" => m.shape \in Shape
         /\ m.type = "POLY_RING_TIMELINE" => m.timeline \in SUBSET Instant
         /\ m.type = "POLY_RING_ACTIVE" => m.active \in Seq(BOOLEAN)
         /\ m.type \in {"POLY_TOGGLE", "POLY_SELECTED_POINT"} => m.point \in Nat
         /\ m.type = "POLY_HW_MODE" => m.mode \in HardwareMode
BY DEF GuiMessage

LEMMA HandleGuiKeeps ==
  ASSUME NEW modes, CarouselSound(modes), NEW m \in GuiMessage, m.type # "POLY_HW_MODE", HandleGui(m)
  PROVE  CarouselSound(modes)' /\ Asked
<1>0. 0 \in Nat /\ << >> \in Seq(BOOLEAN) /\ {} \in SUBSET Instant /\ \E shape \in Shape : TRUE
  <2>1. [subdivision |-> 0, offset |-> 0] \in Shape
      BY EngineAssumption DEF Shape
  <2> QED BY <2>1
<1>1. CASE m.type = "PLAY_STATE" /\ OnPlayState(m.playing)
    BY <1>1, MessageFields, PlayStateKeeps DEF OnPlayState, Asked
<1>2. CASE OnPlayhead
    BY <1>2, PlayStateKeeps DEF OnPlayhead, OnPlayState, guiVars, Asked, CarouselSound
<1>3. CASE OnRebuild \/ OnRing
    BY <1>0, <1>3, StagingKeeps DEF OnRebuild, OnRing, Stages, Asked
<1>4. CASE m.type = "POLY_RING_SHAPE" /\ OnRingShape(m.ring, m.shape)
    BY <1>0, <1>4, MessageFields, StagingKeeps DEF OnRingShape, Stages, Asked
<1>5. CASE m.type = "POLY_RING_TIMELINE" /\ OnRingTimeline(m.ring, m.timeline)
    BY <1>0, <1>5, MessageFields, StagingKeeps DEF OnRingTimeline, Stages, Asked
<1>6. CASE m.type = "POLY_RING_ACTIVE" /\ OnRingActive(m.ring, m.active)
    BY <1>0, <1>6, MessageFields, StagingKeeps DEF OnRingActive, Stages, Asked
<1>7. CASE m.type = "POLY_TOGGLE" /\ OnToggle(m.ring, m.point)
    BY <1>7, MessageFields, ToggleKeepsShown DEF OnToggle, Asked
<1>8. CASE m.type = "POLY_SELECTED_POINT" /\ OnSelectedPoint(m.ring, m.point)
    BY <1>8, MessageFields, ToggleKeepsShown DEF OnSelectedPoint, Asked
<1>9. CASE NavigateLeft \/ NavigateRight
  <2>1. -1 \in Int /\ 1 \in Int
      OBVIOUS
  <2> QED BY <1>9, <2>1, NavigateKeeps DEF NavigateLeft, NavigateRight
<1>10. CASE m.type = "POLY_SELECT" /\ OnSelect(m.ring)
    BY <1>10, MessageFields, SelectKeeps DEF OnSelect, Asked
<1>11. CASE OnReady
    BY <1>11, ReadyKeeps DEF OnReady, Asked
<1> QED BY <1>1, <1>2, <1>3, <1>4, <1>5, <1>6, <1>7, <1>8, <1>9, <1>10, <1>11 DEF HandleGui

-----------------------------------------------------------------------------
(***************************************************************************)
(* Touches and keys, except those that change the mode or the play state.  *)
(***************************************************************************)
LEMMA CentreIsShown ==
  ASSUME NEW modes, CarouselSound(modes), sets # << >>
  PROVE  Centre \in ShownSet(modes) /\ currentSet + 1 \in 1 .. Len(sets)
<1>1. /\ sets \in Seq(ShownSet(modes)) /\ Len(sets) \in Nat /\ currentSet \in Nat
      /\ currentSet < Len(sets)
    BY DEF CarouselSound
<1>2. currentSet + 1 \in 1 .. Len(sets)
    BY <1>1
<1> QED BY <1>1, <1>2 DEF Centre

LEMMA CentreChanges ==
  ASSUME NEW modes, CarouselSound(modes), sets # << >>, NEW set \in ShownSet(modes),
         sets' = [sets EXCEPT ![currentSet + 1] = set],
         UNCHANGED <<staged, currentSet, pendingRing, isAnimating, carouselMode, is_playing>>
  PROVE  CarouselSound(modes)'
<1>1. currentSet + 1 \in 1 .. Len(sets)
    BY CentreIsShown
<1>2. sets' \in Seq(ShownSet(modes)) /\ Len(sets') = Len(sets)
    BY <1>1, OneSetChanges
<1> QED BY <1>2 DEF CarouselSound

LEMMA GlobalOfType ==
  ASSUME NEW modes, CarouselSound(modes), NEW i \in Nat
  PROVE  GlobalOf(i) \in Nat
<1>1. FirstRing(currentSet) \in Nat
    BY RingNumbers DEF CarouselSound
<1> QED BY <1>1 DEF GlobalOf

LEMMA TouchDotKeeps ==
  ASSUME NEW modes, CarouselSound(modes), sets # << >>, NEW i \in Nat, NEW p \in Nat, TouchDot(i, p)
  PROVE  CarouselSound(modes)' /\ Asked
<1> DEFINE set == UiToggle(UiSelectPoint(Centre, i, p), i, p)
           message == [type |-> "POLY_TOGGLE", ring |-> GlobalOf(i), point |-> p]
<1>1. set \in ShownSet(modes)
  <2>1. UiSelectPoint(Centre, i, p) \in ShownSet(modes)
      BY CentreIsShown, UiSelectPointShown
  <2> QED BY <2>1, UiToggleShown
<1>2. sets' = [sets EXCEPT ![currentSet + 1] = set]
    BY DEF TouchDot, Centre
<1> HIDE DEF set
<1>3. CarouselSound(modes)'
    BY <1>1, <1>2, CentreChanges DEF TouchDot
<1>4. message \in Command /\ message.type \notin {"PLAY", "PAUSE", "POLY_HW_MODE"}
    BY GlobalOfType DEF Command
<1>5. SendsToAudio(message)
    BY DEF TouchDot
<1> QED BY <1>3, <1>4, <1>5 DEF Asked

LEMMA TouchRingLabelKeeps ==
  ASSUME NEW modes, CarouselSound(modes), sets # << >>, NEW i \in Nat, TouchRingLabel(i)
  PROVE  CarouselSound(modes)' /\ Asked
<1> DEFINE selected == UiSelectRing(Centre, i)
           set == [selected EXCEPT !.slotSelected = i]
           message == [type |-> "POLY_SET_SELECTED_RING", ring |-> GlobalOf(i)]
<1>1. set \in ShownSet(modes)
  <2>1. selected \in ShownSet(modes)
      BY CentreIsShown, UiSelectRingShown
  <2> HIDE DEF selected
  <2> QED BY <2>1, SlotChanges
<1>2. sets' = [sets EXCEPT ![currentSet + 1] = set]
    BY DEF TouchRingLabel, Centre
<1> HIDE DEF set
<1>3. CarouselSound(modes)'
    BY <1>1, <1>2, CentreChanges DEF TouchRingLabel
<1>4. message \in Command /\ message.type \notin {"PLAY", "PAUSE", "POLY_HW_MODE"}
    BY GlobalOfType DEF Command
<1>5. SendsToAudio(message)
    BY DEF TouchRingLabel
<1> QED BY <1>3, <1>4, <1>5 DEF Asked

LEMMA AsksKeeps ==
  ASSUME NEW modes, CarouselSound(modes), NEW m \in Command,
         m.type \notin {"PLAY", "PAUSE", "POLY_HW_MODE"}, Asks(m)
  PROVE  CarouselSound(modes)' /\ Asked
BY DEF CarouselSound, Asks, Asked, guiState

LEMMA PanelKeeps ==
  ASSUME NEW modes, CarouselSound(modes), sets # << >>, NEW index \in Nat, NEW amount \in Int,
         \/ TouchAddShape \/ TouchRemoveShape(index) \/ TouchRotate(amount)
         \/ TouchSubdivision(index, 1, MaxSubdivision) \/ TouchSubdivision(index, -1, 2)
  PROVE  CarouselSound(modes)' /\ Asked
<1> DEFINE r == GlobalOf(Centre.selected)
<1>1. r \in Nat
  <2>1. Centre.selected \in Nat
      BY CentreIsShown DEF ShownSet
  <2> QED BY <2>1, GlobalOfType
<1> HIDE DEF r
<1>2. CASE TouchAddShape
  <2> DEFINE m == [type |-> "POLY_ADD_SHAPE", ring |-> r, subdivision |-> 4, offset |-> 0]
  <2>1. m \in Command /\ m.type \notin {"PLAY", "PAUSE", "POLY_HW_MODE"}
      BY <1>1, EngineAssumption DEF Command
  <2> QED BY <1>2, <2>1, AsksKeeps DEF TouchAddShape, r
<1>3. CASE TouchRemoveShape(index)
  <2> DEFINE m == [type |-> "POLY_REMOVE_SHAPE", ring |-> r, index |-> index]
  <2>1. m \in Command /\ m.type \notin {"PLAY", "PAUSE", "POLY_HW_MODE"}
      BY <1>1 DEF Command
  <2> QED BY <1>3, <2>1, AsksKeeps DEF TouchRemoveShape, r
<1>4. CASE TouchRotate(amount)
  <2> DEFINE m == [type |-> "POLY_ROTATE", ring |-> r, amount |-> amount]
  <2>1. m \in Command /\ m.type \notin {"PLAY", "PAUSE", "POLY_HW_MODE"}
      BY <1>1 DEF Command
  <2> QED BY <1>4, <2>1, AsksKeeps DEF TouchRotate, r
<1>5. ASSUME NEW step \in {1, -1}, NEW cap \in Nat, step = 1 \/ cap = 2,
             TouchSubdivision(index, step, cap)
      PROVE  CarouselSound(modes)' /\ Asked
  <2> DEFINE shape == PanelShapes[index + 1]
             next == shape.subdivision + step
             subdivision == IF step * next > step * cap THEN cap ELSE next
             m == [type |-> "POLY_MOD_SHAPE", ring |-> r, index |-> index,
                   subdivision |-> subdivision, offset |-> shape.offset]
  <2>1. PanelShapes \in Seq(Shape)
    <3>1. CASE Centre.selected < Len(Centre.rings)
      <4>1. Centre.selected \in Nat
          BY CentreIsShown DEF ShownSet
      <4>2. Centre.rings[Centre.selected + 1] \in RingType
          BY <3>1, <4>1, CentreIsShown, RingOfSet
      <4> QED BY <3>1, <4>2 DEF PanelShapes, RingType
    <3>2. CASE ~ Centre.selected < Len(Centre.rings)
        BY <3>2 DEF PanelShapes
    <3> QED BY <3>1, <3>2
  <2>2. shape \in Shape
    <3>1. index < Len(PanelShapes)
        BY <1>5 DEF TouchSubdivision
    <3> QED BY <2>1, <3>1
  <2>3. shape.subdivision \in Nat /\ shape.offset \in Offsets
      BY <2>2 DEF Shape
  <2> HIDE DEF shape
  <2>4. subdivision \in Nat
    <3>1. CASE step = 1
        BY <1>5, <2>3, <3>1
    <3>2. CASE step = -1 /\ cap = 2
      <4>1. -1 * next = -next /\ -1 * 2 = -2
          BY <2>3, <3>2
      <4> QED BY <2>3, <3>2, <4>1
    <3> QED BY <1>5, <3>1, <3>2
  <2>5. Asks(m)
      BY <1>5 DEF TouchSubdivision, r, shape
  <2> HIDE DEF subdivision
  <2>6. m \in Command /\ m.type \notin {"PLAY", "PAUSE", "POLY_HW_MODE"}
      BY <1>1, <2>3, <2>4 DEF Command
  <2> HIDE DEF m
  <2> QED BY <2>5, <2>6, AsksKeeps
<1>6. MaxSubdivision \in Nat /\ 2 \in Nat
    BY EngineAssumption
<1> QED BY <1>2, <1>3, <1>4, <1>5, <1>6

LEMMA TouchKeeps ==
  ASSUME NEW modes, CarouselSound(modes), sets # << >>, NEW kind, kind # "mode", Touch(kind)
  PROVE  CarouselSound(modes)' /\ Asked
<1>0. /\ \A i \in 0 .. RingsPerSet - 1 : i \in Nat
      /\ \A p \in 0 .. 1 : p \in Nat
      /\ \A index \in 0 .. MaxShapes : index \in Nat
      /\ \A amount \in {1, -1} : amount \in Int
      /\ 0 \in Nat /\ 0 \in Int
    OBVIOUS
<1>1. ASSUME NEW i \in 0 .. RingsPerSet - 1, NEW p \in 0 .. 1, TouchDot(i, p)
      PROVE  CarouselSound(modes)' /\ Asked
    BY <1>0, <1>1, TouchDotKeeps
<1>2. ASSUME NEW i \in 0 .. RingsPerSet - 1, TouchRingLabel(i)
      PROVE  CarouselSound(modes)' /\ Asked
    BY <1>0, <1>2, TouchRingLabelKeeps
<1>3. CASE TouchAddShape
    BY <1>0, <1>3, PanelKeeps
<1>4. ASSUME NEW index \in 0 .. MaxShapes,
             \/ TouchRemoveShape(index)
             \/ TouchSubdivision(index, 1, MaxSubdivision) \/ TouchSubdivision(index, -1, 2)
      PROVE  CarouselSound(modes)' /\ Asked
    BY <1>0, <1>4, PanelKeeps
<1>5. ASSUME NEW amount \in {1, -1}, TouchRotate(amount)
      PROVE  CarouselSound(modes)' /\ Asked
    BY <1>0, <1>5, PanelKeeps
<1> QED BY <1>1, <1>2, <1>3, <1>4, <1>5 DEF Touch

-----------------------------------------------------------------------------
(***************************************************************************)
(* The whole system keeps its types: the engine receives the commands it   *)
(* knows and the GUI the messages it knows, so that neither end can bring  *)
(* the other into a state it does not expect.                              *)
(***************************************************************************)
SystemSound ==
  /\ Sound
  /\ toGui \in Seq(GuiMessage)
  /\ toAudio \in Seq(Command)
  /\ CarouselSound(HardwareMode)

LEMMA SystemInitSound == SystemInit => SystemSound
<1> SUFFICES ASSUME SystemInit PROVE SystemSound
    OBVIOUS
<1>1. Sound
    BY InitIsSound DEF SystemInit
<1>2. toGui = << >> /\ toAudio = << >>
    BY DEF SystemInit, EngineInit
<1>3. CarouselSound(HardwareMode)
  <2>1. << >> \in Seq(RingType) /\ << >> \in Seq(ShownSet(HardwareMode)) /\ "rotate" \in HardwareMode
      BY DEF HardwareMode
  <2> QED BY <2>1 DEF SystemInit, CarouselInit, CarouselSound
<1> QED BY <1>1, <1>2, <1>3 DEF SystemSound

LEMMA CarouselUnchanged ==
  ASSUME NEW modes, CarouselSound(modes), UNCHANGED guiState
  PROVE  CarouselSound(modes)'
BY DEF CarouselSound, guiState

LEMMA EngineUnchanged ==
  ASSUME Sound, UNCHANGED engineState
  PROVE  Sound'
BY NothingChanges DEF Keeps

LEMMA AudioQueueType ==
  ASSUME toAudio \in Seq(Command), Asked \/ \E m \in Command : SendsToAudio(m)
  PROVE  toAudio' \in Seq(Command)
BY DEF Asked, SendsToAudio

LEMMA GuiQueueType ==
  ASSUME toGui \in Seq(GuiMessage), Answers
  PROVE  toGui' \in Seq(GuiMessage)
<1>1. PICK b \in Seq(Answer(isPlaying', hardwareMode')) : toGui' = toGui \o b
    BY DEF Answers
<1>2. b \in Seq(GuiMessage)
    BY DEF Answer
<1> QED BY <1>1, <1>2

LEMMA PlayheadSent ==
  ASSUME EnginePlays
  PROVE  toGui' = toGui \o <<[type |-> "POLY_PLAYHEAD"]>>
BY DEF EnginePlays, SendsToGui

LEMMA SystemStepSound == SystemSound /\ [SystemNext]_systemVars => SystemSound'
<1> SUFFICES ASSUME SystemSound, [SystemNext]_systemVars PROVE SystemSound'
    OBVIOUS
<1>0. /\ Sound /\ toGui \in Seq(GuiMessage) /\ toAudio \in Seq(Command)
      /\ CarouselSound(HardwareMode)
    BY DEF SystemSound
<1>u. ASSUME UNCHANGED engineVars
      PROVE  Sound' /\ UNCHANGED <<engineState, toGui>>
  <2>1. UNCHANGED engineState /\ UNCHANGED toGui
      BY <1>u DEF engineVars, engineState
  <2> QED BY <1>0, <2>1, EngineUnchanged
<1>1. CASE GuiStarts
  <2>1. [type |-> "GET_INITIAL_SETUP"] \in Command
      BY DEF Command
  <2>2. toAudio' \in Seq(Command)
      BY <1>0, <1>1, <2>1, AudioQueueType DEF GuiStarts
  <2>3. UNCHANGED engineVars /\ UNCHANGED guiState
      BY <1>1 DEF GuiStarts
  <2> QED BY <1>0, <1>u, <2>2, <2>3, CarouselUnchanged DEF SystemSound
<1>2. CASE GuiHandles
  <2> DEFINE m == Head(toGui)
  <2>1. /\ m \in GuiMessage /\ HandleGui(m)
        /\ toGui' \in Seq(GuiMessage) /\ UNCHANGED engineState
      BY <1>0, <1>2 DEF GuiHandles
  <2>2. CASE m.type # "POLY_HW_MODE"
    <3>1. CarouselSound(HardwareMode)' /\ Asked
        BY <1>0, <2>1, <2>2, HandleGuiKeeps
    <3> QED BY <1>0, <2>1, <3>1, AudioQueueType, EngineUnchanged DEF SystemSound
  <2>3. CASE m.type = "POLY_HW_MODE"
    <3>1. OnHwMode(m.mode) /\ m.mode \in HardwareMode
        BY <2>1, <2>3, MessageFields DEF HandleGui
    <3>2. CarouselSound(HardwareMode)'
        BY <1>0, <3>1, HwModeKeeps
    <3>3. UNCHANGED toAudio
        BY <3>1 DEF OnHwMode
    <3> QED BY <1>0, <2>1, <3>2, <3>3, EngineUnchanged DEF SystemSound
  <2> QED BY <2>2, <2>3
<1>3. CASE EngineHandles
  <2> DEFINE m == Head(toAudio)
  <2>1. m \in Command /\ Handle(m) /\ toAudio' \in Seq(Command) /\ UNCHANGED guiState
      BY <1>0, <1>3 DEF EngineHandles
  <2>2. Sound' /\ Answers
      BY <1>0, <2>1, HandleAnswers
  <2> QED BY <1>0, <2>1, <2>2, GuiQueueType, CarouselUnchanged DEF SystemSound
<1>4. CASE EnginePlays
  <2>1. /\ UNCHANGED engineState /\ UNCHANGED guiState /\ UNCHANGED toAudio
      BY <1>4 DEF EnginePlays, guiVars, guiState
  <2>2. [type |-> "POLY_PLAYHEAD"] \in GuiMessage
      BY DEF GuiMessage
  <2>3. toGui' \in Seq(GuiMessage)
      BY <1>0, <1>4, <2>2, PlayheadSent
  <2> QED BY <1>0, <2>1, <2>3, EngineUnchanged, CarouselUnchanged DEF SystemSound
<1>5. ASSUME NEW kind \in Touches, UserActs(kind)
      PROVE  SystemSound'
  <2>1. UNCHANGED engineVars /\ ((sets # << >> /\ Touch(kind)) \/ Key(kind))
      BY <1>5 DEF UserActs
  <2>2. CASE sets # << >> /\ Touch(kind) /\ kind # "mode"
    <3>1. CarouselSound(HardwareMode)' /\ Asked
        BY <1>0, <2>2, TouchKeeps
    <3> QED BY <1>0, <1>u, <2>1, <3>1, AudioQueueType DEF SystemSound
  <2>3. ASSUME NEW mode \in HardwareMode, sets # << >>, TouchMode(mode)
        PROVE  SystemSound'
    <3> DEFINE set == [Centre EXCEPT !.mode = mode]
               message == [type |-> "POLY_HW_MODE", mode |-> mode]
    <3>1. Centre \in ShownSet(HardwareMode) /\ 0 \in Nat /\ TRUE \in BOOLEAN
        BY <1>0, <2>3, CentreIsShown
    <3>2. set \in ShownSet(HardwareMode)
        BY <3>1, SlotChanges
    <3>3. sets' = [sets EXCEPT ![currentSet + 1] = set]
        BY <2>3 DEF TouchMode, Centre
    <3> HIDE DEF set
    <3>4. CarouselSound(HardwareMode)'
        BY <1>0, <2>3, <3>2, <3>3, CentreChanges DEF TouchMode
    <3>5. message \in Command
        BY DEF Command, HardwareMode
    <3>6. SendsToAudio(message)
        BY <2>3 DEF TouchMode
    <3> QED BY <1>0, <1>u, <2>1, <3>4, <3>5, <3>6, AudioQueueType DEF SystemSound
  <2>4. CASE NavigateLeft \/ NavigateRight
    <3>1. -1 \in Int /\ 1 \in Int
        OBVIOUS
    <3>2. CarouselSound(HardwareMode)' /\ Asked
        BY <1>0, <2>4, <3>1, NavigateKeeps DEF NavigateLeft, NavigateRight
    <3> QED BY <1>0, <1>u, <2>1, <3>2, AudioQueueType DEF SystemSound
  <2>5. CASE KeyPlay
    <3>1. is_playing \in BOOLEAN /\ is_playing' = ~ is_playing /\ is_playing' \in BOOLEAN
        BY <1>0, <2>5 DEF CarouselSound, KeyPlay
    <3>2. CarouselSound(HardwareMode)'
        BY <1>0, <2>5, <3>1, PlayStateKeeps DEF KeyPlay
    <3>3. [type |-> IF is_playing' THEN "PLAY" ELSE "PAUSE"] \in Command
        BY DEF Command
    <3>4. SendsToAudio([type |-> IF is_playing' THEN "PLAY" ELSE "PAUSE"])
        BY <2>5 DEF KeyPlay
    <3> QED BY <1>0, <1>u, <2>1, <3>2, <3>3, <3>4, AudioQueueType DEF SystemSound
  <2> QED BY <2>1, <2>2, <2>3, <2>4, <2>5 DEF Touch, Key
<1>6. ASSUME NEW m \in Commands, HardwareSends(m)
      PROVE  SystemSound'
  <2>1. m \in Command /\ SendsToAudio(m) /\ UNCHANGED engineVars /\ UNCHANGED guiState
      BY <1>6, SystemAssumption DEF HardwareSends
  <2> QED BY <1>0, <1>u, <2>1, AudioQueueType, CarouselUnchanged DEF SystemSound
<1>7. CASE AnimationPasses
  <2>1. UNCHANGED engineVars /\ UNCHANGED toAudio
      BY <1>7 DEF AnimationPasses, AnimationEnds
  <2>2. CarouselSound(HardwareMode)'
      BY <1>0, <1>7 DEF AnimationPasses, AnimationEnds, CarouselSound
  <2> QED BY <1>0, <1>u, <2>1, <2>2 DEF SystemSound
<1>8. CASE UNCHANGED systemVars
  <2>1. UNCHANGED engineVars /\ UNCHANGED guiState /\ UNCHANGED toAudio
      BY <1>8 DEF systemVars, guiVars, guiState
  <2> QED BY <1>0, <1>u, <2>1, CarouselUnchanged DEF SystemSound
<1> QED BY <1>1, <1>2, <1>3, <1>4, <1>5, <1>6, <1>7, <1>8 DEF SystemNext

LEMMA SystemAlwaysSound == SystemSpec => []SystemSound
BY SystemInitSound, SystemStepSound, PTL DEF SystemSpec

(***************************************************************************)
(* Whatever part of a rebuild has arrived, and however touches, keys and   *)
(* messages interleave, the drawing code finds every ring, point and mask  *)
(* that it indexes: for any number of rings, sets and messages.            *)
(***************************************************************************)
THEOREM CarouselIsConsistent == SystemSpec => []SetsConsistent
<1>1. SystemSound => SetsConsistent
    BY SoundIsConsistent DEF SystemSound
<1> QED BY <1>1, SystemAlwaysSound, PTL

-----------------------------------------------------------------------------
(***************************************************************************)
(* What the steps do to the queues, and which of them touch the play state *)
(* of the GUI.                                                             *)
(***************************************************************************)
Silent(queue, types) == \A i \in 1 .. Len(queue) : queue[i].type \notin types

(* No later message of that type waits for the GUI.                        *)
IsLast(i, type) == \A j \in i + 1 .. Len(toGui) : toGui[j].type # type

LEMMA StillSilent ==
  ASSUME toAudio \in Seq(Command), Asked \/ \E m \in Command : SendsToAudio(m),
         NEW types, Silent(toAudio', types)
  PROVE  Silent(toAudio, types)
<1>1. CASE UNCHANGED toAudio
    BY <1>1
<1>2. ASSUME NEW m \in Command, toAudio' = Append(toAudio, m)
      PROVE  Silent(toAudio, types)
  <2>1. /\ Len(toAudio) \in Nat /\ Len(toAudio') = Len(toAudio) + 1
        /\ \A i \in 1 .. Len(toAudio) : toAudio'[i] = toAudio[i]
      BY <1>2
  <2>2. \A i \in 1 .. Len(toAudio) : i \in 1 .. Len(toAudio')
      BY <2>1
  <2> QED BY <2>1, <2>2 DEF Silent
<1> QED BY <1>1, <1>2 DEF Asked, SendsToAudio

(* The last message to the engine speaks.                                  *)
LEMMA SentIsHeard ==
  ASSUME toAudio \in Seq(Command), NEW m \in Command, SendsToAudio(m), NEW types, m.type \in types
  PROVE  ~ Silent(toAudio', types)
<1>1. /\ Len(toAudio) + 1 \in 1 .. Len(toAudio')
      /\ toAudio'[Len(toAudio) + 1] = m
    BY DEF SendsToAudio
<1> QED BY <1>1 DEF Silent

LEMMA HeadTaken ==
  ASSUME NEW S, NEW queue \in Seq(S), queue # << >>
  PROVE  /\ Head(queue) = queue[1] /\ 1 \in 1 .. Len(queue) /\ Len(queue) \in Nat
         /\ Len(Tail(queue)) = Len(queue) - 1
         /\ \A i \in 1 .. Len(Tail(queue)) : Tail(queue)[i] = queue[i + 1] /\ i + 1 \in 1 .. Len(queue)
OBVIOUS

LEMMA TailSilent ==
  ASSUME NEW S, NEW queue \in Seq(S), queue # << >>, NEW types,
         Silent(Tail(queue), types), Head(queue).type \notin types
  PROVE  Silent(queue, types)
<1>1. ASSUME NEW i \in 1 .. Len(queue)
      PROVE  queue[i].type \notin types
  <2>1. CASE i = 1
      BY <2>1, HeadTaken
  <2>2. CASE i # 1
    <3>1. i - 1 \in 1 .. Len(Tail(queue)) /\ (i - 1) + 1 = i
        BY <2>2, HeadTaken
    <3>2. Tail(queue)[i - 1] = queue[i]
        BY <3>1, HeadTaken
    <3> QED BY <3>1, <3>2 DEF Silent
  <2> QED BY <2>1, <2>2
<1> QED BY <1>1 DEF Silent

LEMMA LongerQueue ==
  ASSUME NEW S, NEW queue \in Seq(S), NEW b \in Seq(S), NEW longer, longer = queue \o b
  PROVE  /\ Len(queue) \in Nat /\ Len(b) \in Nat /\ Len(longer) = Len(queue) + Len(b)
         /\ \A i \in 1 .. Len(queue) : longer[i] = queue[i] /\ i \in 1 .. Len(longer)
         /\ \A i \in 1 .. Len(longer) :
              i \in 1 .. Len(queue)
                \/ (i > Len(queue) /\ i - Len(queue) \in 1 .. Len(b) /\ longer[i] = b[i - Len(queue)])
<1>1. /\ Len(queue) \in Nat /\ Len(b) \in Nat /\ Len(queue \o b) = Len(queue) + Len(b)
      /\ \A i \in 1 .. Len(queue) + Len(b) :
           (queue \o b)[i] = IF i <= Len(queue) THEN queue[i] ELSE b[i - Len(queue)]
    OBVIOUS
<1> DEFINE n == Len(queue)
           k == Len(b)
<1>2. /\ n \in Nat /\ k \in Nat /\ Len(longer) = n + k
      /\ \A i \in 1 .. n + k : longer[i] = IF i <= n THEN queue[i] ELSE b[i - n]
    BY <1>1
<1> HIDE DEF n, k
<1>3. \A i \in 1 .. n : i \in 1 .. n + k /\ i <= n
    BY <1>2
<1>4. ASSUME NEW i \in 1 .. n + k
      PROVE  i \in 1 .. n \/ (i > n /\ i - n \in 1 .. k /\ ~ (i <= n))
  <2>1. n \in Nat /\ k \in Nat
      BY <1>2
  <2> QED BY <2>1
<1>5. \A i \in 1 .. n : longer[i] = queue[i] /\ i \in 1 .. Len(longer)
    BY <1>2, <1>3
<1>6. ASSUME NEW i \in 1 .. Len(longer)
      PROVE  i \in 1 .. n \/ (i > n /\ i - n \in 1 .. k /\ longer[i] = b[i - n])
  <2>1. i \in 1 .. n + k
      BY <1>2
  <2> QED BY <1>2, <1>4, <2>1
<1> QED BY <1>2, <1>5, <1>6 DEF n, k

LEMMA HandleGuiPlays ==
  ASSUME NEW m, HandleGui(m)
  PROVE  /\ m.type = "PLAY_STATE" => is_playing' = m.playing
         /\ m.type = "POLY_PLAYHEAD" => (is_playing' = is_playing /\ is_playing) \/ is_playing' = TRUE
         /\ m.type \notin {"PLAY_STATE", "POLY_PLAYHEAD"} => is_playing' = is_playing
<1>1. OnReady => is_playing' = is_playing
    BY DEF OnReady
<1>2. NavigateLeft \/ NavigateRight => is_playing' = is_playing
    BY DEF NavigateLeft, NavigateRight, NavigateBy, NavigateTo, guiVars
<1>3. m.type = "PLAY_STATE" => is_playing' = m.playing
    BY DEF HandleGui, OnPlayState
<1>4. m.type = "POLY_PLAYHEAD" => (is_playing' = is_playing /\ is_playing) \/ is_playing' = TRUE
    BY DEF HandleGui, OnPlayhead, OnPlayState, guiVars
<1>5. m.type \notin {"PLAY_STATE", "POLY_PLAYHEAD"} => is_playing' = is_playing
    BY <1>1, <1>2 DEF HandleGui, OnRebuild, OnRing, OnRingShape, OnRingTimeline, OnRingActive, Stages,
       OnToggle, OnSelectedPoint, OnHwMode, OnSelect
<1> QED BY <1>3, <1>4, <1>5

LEMMA TouchesDoNotPlay ==
  ASSUME NEW kind, Touch(kind) \/ NavigateLeft \/ NavigateRight
  PROVE  is_playing' = is_playing
<1>1. NavigateLeft \/ NavigateRight => is_playing' = is_playing
    BY DEF NavigateLeft, NavigateRight, NavigateBy, NavigateTo, guiVars
<1>2. ASSUME NEW m, Asks(m)
      PROVE  is_playing' = is_playing
    BY <1>2 DEF Asks, guiState
<1>3. Touch(kind) => is_playing' = is_playing
    BY <1>2 DEF Touch, TouchDot, TouchRingLabel, TouchAddShape, TouchRemoveShape, TouchSubdivision,
       TouchRotate, TouchMode
<1> QED BY <1>1, <1>3

(***************************************************************************)
(* The last PLAY_STATE under way to the GUI tells what the engine does, a  *)
(* playhead behind it was sent by an engine that plays, and when neither a *)
(* PLAY_STATE nor a PLAY or PAUSE is under way both ends agree already.    *)
(***************************************************************************)
PlayTold ==
  \A i \in 1 .. Len(toGui) :
    IsLast(i, "PLAY_STATE") => /\ toGui[i].type = "PLAY_STATE" => toGui[i].playing = isPlaying
                               /\ toGui[i].type = "POLY_PLAYHEAD" => isPlaying

PlayKnown ==
  Silent(toGui, {"PLAY_STATE"}) /\ Silent(toAudio, {"PLAY", "PAUSE"}) => is_playing = isPlaying

PlayInv == SystemSound /\ PlayTold /\ PlayKnown

(* A step of the user or of the hardware service.                          *)
LEMMA AskingKeepsPlay ==
  ASSUME PlayInv, UNCHANGED engineVars, UNCHANGED is_playing,
         Asked \/ \E m \in Command : SendsToAudio(m)
  PROVE  PlayTold' /\ PlayKnown'
<1>1. isPlaying' = isPlaying /\ toGui' = toGui
    BY DEF engineVars
<1>2. Silent(toAudio', {"PLAY", "PAUSE"}) => Silent(toAudio, {"PLAY", "PAUSE"})
    BY StillSilent DEF PlayInv, SystemSound
<1> QED BY <1>1, <1>2 DEF PlayInv, PlayTold, PlayKnown, IsLast, Silent

(* The engine sends b: what was the last of its type is so no more, unless *)
(* b has none.                                                             *)
LEMMA BehindTheLast ==
  ASSUME toGui \in Seq(GuiMessage), NEW b \in Seq(GuiMessage), toGui' = toGui \o b,
         NEW type, NEW i \in 1 .. Len(toGui'), IsLast(i, type)'
  PROVE  \/ /\ i \in 1 .. Len(toGui) /\ IsLast(i, type) /\ toGui'[i] = toGui[i]
            /\ \A k \in 1 .. Len(b) : b[k].type # type
         \/ i - Len(toGui) \in 1 .. Len(b) /\ toGui'[i] = b[i - Len(toGui)]
<1> DEFINE n == Len(toGui)
<1>1. /\ n \in Nat /\ Len(b) \in Nat /\ Len(toGui') = n + Len(b)
      /\ \A j \in 1 .. n : toGui'[j] = toGui[j] /\ j \in 1 .. Len(toGui')
      /\ \A j \in 1 .. Len(toGui') :
           j \in 1 .. n \/ (j > n /\ j - n \in 1 .. Len(b) /\ toGui'[j] = b[j - n])
    BY LongerQueue
<1>2. CASE i \in 1 .. n
  <2>1. \A j \in i + 1 .. Len(toGui') : toGui'[j].type # type
      BY DEF IsLast
  <2>2. ASSUME NEW k \in 1 .. Len(b)
        PROVE  b[k].type # type
    <3>1. n + k \in i + 1 .. Len(toGui') /\ n + k \in 1 .. Len(toGui') /\ ~ (n + k \in 1 .. n)
          /\ (n + k) - n = k
        BY <1>1, <1>2
    <3> HIDE DEF n
    <3>2. toGui'[n + k] = b[k]
        BY <1>1, <3>1
    <3> QED BY <2>1, <3>1, <3>2
  <2>3. ASSUME NEW j \in i + 1 .. Len(toGui)
        PROVE  toGui[j].type # type
    <3>1. j \in 1 .. n /\ j \in i + 1 .. Len(toGui')
        BY <1>1, <1>2
    <3> QED BY <1>1, <2>1, <3>1
  <2>4. IsLast(i, type)
      BY <2>3 DEF IsLast
  <2> QED BY <1>1, <1>2, <2>2, <2>4
<1>3. CASE ~ i \in 1 .. n
    BY <1>1, <1>3
<1> QED BY <1>2, <1>3

LEMMA SendingKeepsPlayTold ==
  ASSUME PlayInv, NEW b \in Seq(GuiMessage), toGui' = toGui \o b,
         \A k \in 1 .. Len(b) : /\ b[k].type = "PLAY_STATE" => b[k].playing = isPlaying'
                                /\ b[k].type = "POLY_PLAYHEAD" => isPlaying',
         isPlaying' = isPlaying \/ \E k \in 1 .. Len(b) : b[k].type = "PLAY_STATE"
  PROVE  PlayTold'
<1> SUFFICES ASSUME NEW i \in 1 .. Len(toGui'), IsLast(i, "PLAY_STATE")'
             PROVE  /\ toGui'[i].type = "PLAY_STATE" => toGui'[i].playing = isPlaying'
                    /\ toGui'[i].type = "POLY_PLAYHEAD" => isPlaying'
    BY DEF PlayTold
<1>1. toGui \in Seq(GuiMessage) /\ PlayTold
    BY DEF PlayInv, SystemSound
<1>2. \/ /\ i \in 1 .. Len(toGui) /\ IsLast(i, "PLAY_STATE") /\ toGui'[i] = toGui[i]
         /\ \A k \in 1 .. Len(b) : b[k].type # "PLAY_STATE"
      \/ i - Len(toGui) \in 1 .. Len(b) /\ toGui'[i] = b[i - Len(toGui)]
    BY <1>1, BehindTheLast
<1> QED BY <1>1, <1>2 DEF PlayTold

LEMMA LongerStillSilent ==
  ASSUME toGui \in Seq(GuiMessage), NEW b \in Seq(GuiMessage), toGui' = toGui \o b,
         NEW types, Silent(toGui', types)
  PROVE  Silent(toGui, types) /\ Silent(b, types)
<1> DEFINE n == Len(toGui)
<1>1. n \in Nat /\ Len(b) \in Nat
    OBVIOUS
<1>2. ASSUME NEW i \in 1 .. n
      PROVE  toGui[i].type \notin types
  <2>1. toGui'[i] = toGui[i] /\ i \in 1 .. Len(toGui')
      BY LongerQueue
  <2> QED BY <2>1 DEF Silent
<1>3. ASSUME NEW k \in 1 .. Len(b)
      PROVE  b[k].type \notin types
  <2>1. n + k \in 1 .. Len(toGui') /\ toGui'[n + k] = b[k]
      OBVIOUS
  <2> QED BY <2>1 DEF Silent
<1> QED BY <1>2, <1>3 DEF Silent

LEMMA TakingKeepsLast ==
  ASSUME toGui \in Seq(GuiMessage), toGui # << >>, toGui' = Tail(toGui),
         NEW i \in 0 .. Len(toGui'), NEW type, IsLast(i, type)'
  PROVE  IsLast(i + 1, type)
<1>1. ASSUME NEW j \in i + 1 + 1 .. Len(toGui)
      PROVE  toGui[j].type # type
  <2>1. j - 1 \in i + 1 .. Len(toGui') /\ j - 1 \in 1 .. Len(toGui') /\ (j - 1) + 1 = j
      BY HeadTaken
  <2>2. toGui'[j - 1] = toGui[j]
      BY <2>1, HeadTaken
  <2> QED BY <2>1, <2>2 DEF IsLast
<1> QED BY <1>1 DEF IsLast

LEMMA GuiAsks ==
  ASSUME SystemSound, GuiHandles
  PROVE  Asked
<1> DEFINE m == Head(toGui)
<1>1. m \in GuiMessage /\ HandleGui(m) /\ CarouselSound(HardwareMode)
    BY DEF SystemSound, GuiHandles
<1>2. m.type # "POLY_HW_MODE" => Asked
    BY <1>1, HandleGuiKeeps
<1>3. m.type = "POLY_HW_MODE" => Asked
    BY <1>1 DEF HandleGui, OnHwMode, Asked
<1> QED BY <1>2, <1>3

LEMMA TakingKeepsPlay ==
  ASSUME PlayInv, GuiHandles
  PROVE  PlayTold' /\ PlayKnown'
<1> DEFINE m == Head(toGui)
<1>1. /\ toGui \in Seq(GuiMessage) /\ toGui # << >> /\ toGui' = Tail(toGui)
      /\ toAudio \in Seq(Command) /\ isPlaying \in BOOLEAN
      /\ m = toGui[1] /\ 1 \in 1 .. Len(toGui) /\ 0 \in 0 .. Len(toGui')
      /\ HandleGui(m) /\ isPlaying' = isPlaying
  <2>1. toGui \in Seq(GuiMessage) /\ toAudio \in Seq(Command) /\ isPlaying \in BOOLEAN
      BY DEF PlayInv, SystemSound, Sound
  <2>2. toGui # << >> /\ toGui' = Tail(toGui) /\ HandleGui(m) /\ isPlaying' = isPlaying
      BY DEF GuiHandles, engineState
  <2> QED BY <2>1, <2>2
<1>2. Asked
    BY GuiAsks DEF PlayInv
<1> HIDE DEF m
<1>3. PlayTold'
  <2> SUFFICES ASSUME NEW i \in 1 .. Len(toGui'), IsLast(i, "PLAY_STATE")'
               PROVE  /\ toGui'[i].type = "PLAY_STATE" => toGui'[i].playing = isPlaying
                      /\ toGui'[i].type = "POLY_PLAYHEAD" => isPlaying
      BY <1>1 DEF PlayTold
  <2>1. i \in 0 .. Len(toGui') /\ i + 1 \in 1 .. Len(toGui) /\ toGui'[i] = toGui[i + 1]
      BY <1>1, HeadTaken
  <2>2. IsLast(i + 1, "PLAY_STATE")
      BY <1>1, <2>1, TakingKeepsLast
  <2> QED BY <2>1, <2>2 DEF PlayInv, PlayTold
<1>4. PlayKnown'
  <2> SUFFICES ASSUME Silent(toGui', {"PLAY_STATE"}), Silent(toAudio', {"PLAY", "PAUSE"})
               PROVE  is_playing' = isPlaying
      BY <1>1 DEF PlayKnown
  <2>1. IsLast(0 + 1, "PLAY_STATE")
    <3>1. IsLast(0, "PLAY_STATE")'
        BY <1>1 DEF Silent, IsLast
    <3> QED BY <1>1, <3>1, TakingKeepsLast
  <2>2. /\ m.type = "PLAY_STATE" => m.playing = isPlaying
        /\ m.type = "POLY_PLAYHEAD" => isPlaying
      BY <1>1, <2>1 DEF PlayInv, PlayTold
  <2>3. CASE m.type \in {"PLAY_STATE", "POLY_PLAYHEAD"}
    <3>1. m.type = "POLY_PLAYHEAD" => is_playing' = TRUE
        BY <1>1, HandleGuiPlays
    <3> QED BY <1>1, <2>2, <2>3, <3>1, HandleGuiPlays
  <2>4. CASE m.type \notin {"PLAY_STATE", "POLY_PLAYHEAD"}
    <3>1. Silent(toGui, {"PLAY_STATE"})
        BY <1>1, <2>4, TailSilent DEF m
    <3>2. Silent(toAudio, {"PLAY", "PAUSE"})
        BY <1>1, <1>2, StillSilent
    <3> QED BY <1>1, <2>4, <3>1, <3>2, HandleGuiPlays DEF PlayInv, PlayKnown
  <2> QED BY <2>3, <2>4
<1> QED BY <1>3, <1>4

LEMMA HandlingKeepsPlay ==
  ASSUME PlayInv, EngineHandles
  PROVE  PlayTold' /\ PlayKnown'
<1> DEFINE m == Head(toAudio)
<1>1. /\ toGui \in Seq(GuiMessage) /\ toAudio \in Seq(Command) /\ Sound
      /\ toAudio # << >> /\ toAudio' = Tail(toAudio) /\ m \in Command
      /\ Handle(m) /\ is_playing' = is_playing
    BY DEF PlayInv, SystemSound, EngineHandles, guiState
<1> HIDE DEF m
<1>2. Answers
    BY <1>1, HandleAnswers
<1>3. CASE m.type \in {"PLAY", "PAUSE"}
  <2> DEFINE b == <<PlayStateMsg(isPlaying')>>
  <2>1. toGui' = toGui \o b /\ isPlaying' \in BOOLEAN
      BY <1>1, <1>3, HandlePlays, HandleAnswers DEF Sound
  <2>2. PlayStateMsg(isPlaying') \in GuiMessage
      BY <2>1 DEF PlayStateMsg, GuiMessage
  <2>3. b \in Seq(GuiMessage) /\ Len(b) = 1 /\ b[1] = PlayStateMsg(isPlaying') /\ 1 \in 1 .. Len(b)
      BY <2>2
  <2>4. b[1].type = "PLAY_STATE" /\ b[1].playing = isPlaying'
      BY <2>3 DEF PlayStateMsg
  <2> HIDE DEF b
  <2>5. \A k \in 1 .. Len(b) : k = 1
      BY <2>3
  <2>6. PlayTold'
      BY <2>1, <2>3, <2>4, <2>5, SendingKeepsPlayTold
  <2>7. ~ Silent(toGui', {"PLAY_STATE"})
      BY <1>1, <2>1, <2>3, <2>4, LongerStillSilent DEF Silent
  <2> QED BY <2>6, <2>7 DEF PlayKnown
<1>4. CASE m.type \notin {"PLAY", "PAUSE"}
  <2>1. isPlaying' = isPlaying
      BY <1>1, <1>4, HandlePlays
  <2>2. PICK b \in Seq(Answer(isPlaying', hardwareMode')) : toGui' = toGui \o b
      BY <1>2 DEF Answers
  <2>3. b \in Seq(GuiMessage)
      BY <2>2 DEF Answer
  <2>4. ASSUME NEW k \in 1 .. Len(b)
        PROVE  /\ b[k].type = "PLAY_STATE" => b[k].playing = isPlaying'
               /\ b[k].type = "POLY_PLAYHEAD" => isPlaying'
    <3>1. b[k] \in Answer(isPlaying', hardwareMode')
        BY <2>2
    <3> QED BY <3>1 DEF Answer
  <2>5. PlayTold'
      BY <2>1, <2>2, <2>3, <2>4, SendingKeepsPlayTold
  <2>6. Silent(toGui', {"PLAY_STATE"}) => Silent(toGui, {"PLAY_STATE"})
      BY <1>1, <2>2, <2>3, LongerStillSilent
  <2>7. Silent(toAudio', {"PLAY", "PAUSE"}) => Silent(toAudio, {"PLAY", "PAUSE"})
      BY <1>1, <1>4, TailSilent DEF m
  <2> QED BY <1>1, <2>1, <2>5, <2>6, <2>7 DEF PlayInv, PlayKnown
<1> QED BY <1>3, <1>4

LEMMA PlayingKeepsPlay ==
  ASSUME PlayInv, EnginePlays
  PROVE  PlayTold' /\ PlayKnown'
<1> DEFINE b == <<[type |-> "POLY_PLAYHEAD"]>>
<1>1. /\ toGui \in Seq(GuiMessage) /\ isPlaying' = isPlaying /\ isPlaying
      /\ is_playing' = is_playing /\ toAudio' = toAudio
    BY DEF PlayInv, SystemSound, EnginePlays, engineState, guiVars
<1>2. toGui' = toGui \o b
    BY PlayheadSent
<1>3. [type |-> "POLY_PLAYHEAD"] \in GuiMessage
    BY DEF GuiMessage
<1>4. b \in Seq(GuiMessage) /\ \A k \in 1 .. Len(b) : b[k].type = "POLY_PLAYHEAD"
    BY <1>3
<1> HIDE DEF b
<1>5. PlayTold'
    BY <1>1, <1>2, <1>4, SendingKeepsPlayTold
<1>6. Silent(toGui', {"PLAY_STATE"}) => Silent(toGui, {"PLAY_STATE"})
    BY <1>1, <1>2, <1>4, LongerStillSilent
<1> QED BY <1>1, <1>5, <1>6 DEF PlayInv, PlayKnown

LEMMA PlayStep == PlayInv /\ [SystemNext]_systemVars => PlayInv'
<1> SUFFICES ASSUME PlayInv, [SystemNext]_systemVars PROVE PlayTold' /\ PlayKnown'
    BY SystemStepSound DEF PlayInv
<1>0. toAudio \in Seq(Command) /\ CarouselSound(HardwareMode) /\ SystemSound
    BY DEF PlayInv, SystemSound
<1>1. CASE GuiStarts
  <2>1. [type |-> "GET_INITIAL_SETUP"] \in Command
      BY DEF Command
  <2> QED BY <1>1, <2>1, AskingKeepsPlay DEF GuiStarts, guiState
<1>2. CASE GuiHandles
    BY <1>2, TakingKeepsPlay
<1>3. CASE EngineHandles
    BY <1>3, HandlingKeepsPlay
<1>4. CASE EnginePlays
    BY <1>4, PlayingKeepsPlay
<1>5. ASSUME NEW kind \in Touches, UserActs(kind)
      PROVE  PlayTold' /\ PlayKnown'
  <2>1. UNCHANGED engineVars /\ ((sets # << >> /\ Touch(kind)) \/ Key(kind))
      BY <1>5 DEF UserActs
  <2>2. CASE Touch(kind) /\ sets # << >>
    <3>1. is_playing' = is_playing
        BY <2>2, TouchesDoNotPlay
    <3>2. kind # "mode" => Asked
        BY <1>0, <2>2, TouchKeeps
    <3>3. ASSUME NEW mode \in HardwareMode, TouchMode(mode)
          PROVE  \E m \in Command : SendsToAudio(m)
      <4>1. [type |-> "POLY_HW_MODE", mode |-> mode] \in Command
          BY DEF Command, HardwareMode
      <4> QED BY <3>3, <4>1 DEF TouchMode
    <3>4. kind = "mode" => \E m \in Command : SendsToAudio(m)
        BY <2>2, <3>3 DEF Touch
    <3> QED BY <2>1, <3>1, <3>2, <3>4, AskingKeepsPlay
  <2>3. CASE NavigateLeft \/ NavigateRight
    <3>1. is_playing' = is_playing
        BY <2>3, TouchesDoNotPlay
    <3>2. -1 \in Int /\ 1 \in Int
        OBVIOUS
    <3>3. Asked
        BY <1>0, <2>3, <3>2, NavigateKeeps DEF NavigateLeft, NavigateRight
    <3> QED BY <2>1, <3>1, <3>3, AskingKeepsPlay
  <2>4. CASE KeyPlay
    <3> DEFINE m == [type |-> IF is_playing' THEN "PLAY" ELSE "PAUSE"]
    <3>1. m \in Command /\ m.type \in {"PLAY", "PAUSE"}
        BY DEF Command
    <3>2. SendsToAudio(m)
        BY <2>4 DEF KeyPlay
    <3> HIDE DEF m
    <3>3. ~ Silent(toAudio', {"PLAY", "PAUSE"})
        BY <1>0, <3>1, <3>2, SentIsHeard
    <3>4. toGui' = toGui /\ isPlaying' = isPlaying
        BY <2>1 DEF engineVars
    <3> QED BY <3>3, <3>4 DEF PlayInv, PlayTold, PlayKnown, IsLast
  <2> QED BY <2>1, <2>2, <2>3, <2>4 DEF Key
<1>6. ASSUME NEW m \in Commands, HardwareSends(m)
      PROVE  PlayTold' /\ PlayKnown'
    BY <1>6, SystemAssumption, AskingKeepsPlay DEF HardwareSends, guiState
<1>7. CASE AnimationPasses
    BY <1>7, AskingKeepsPlay DEF AnimationPasses, AnimationEnds, Asked
<1>8. CASE UNCHANGED systemVars
  <2>1. UNCHANGED engineVars /\ UNCHANGED is_playing /\ UNCHANGED toAudio
      BY <1>8 DEF systemVars, guiVars
  <2> QED BY <2>1, AskingKeepsPlay DEF Asked
<1> QED BY <1>1, <1>2, <1>3, <1>4, <1>5, <1>6, <1>7, <1>8 DEF SystemNext

LEMMA PlayInit == SystemInit => PlayInv
<1> SUFFICES ASSUME SystemInit PROVE PlayTold /\ PlayKnown
    BY SystemInitSound DEF PlayInv
<1>1. toGui = << >> /\ is_playing = isPlaying
    BY DEF SystemInit, EngineInit, CarouselInit
<1> QED BY <1>1 DEF PlayTold, PlayKnown

(***************************************************************************)
(* However PLAY, PAUSE, PLAY_STATE and the playheads cross, from a key, the *)
(* hardware or the engine: once nothing is under way the GUI believes what *)
(* the engine does.                                                        *)
(***************************************************************************)
THEOREM PlayStatesMeet == SystemSpec => []PlayStateAgrees
<1>1. PlayInv => PlayStateAgrees
    BY DEF PlayInv, PlayKnown, PlayStateAgrees, Settled, UnderWay, Silent
<1> QED BY <1>1, PlayInit, PlayStep, PTL DEF SystemSpec

-----------------------------------------------------------------------------
(***************************************************************************)
(* The last POLY_HW_MODE under way to the GUI names the mode of the        *)
(* engine, and when none is under way, in either direction, the carousel   *)
(* and all of its sets are in that mode.                                   *)
(***************************************************************************)
ModeTold ==
  \A i \in 1 .. Len(toGui) :
    toGui[i].type = "POLY_HW_MODE" /\ IsLast(i, "POLY_HW_MODE") => toGui[i].mode = hardwareMode

ModeKnown ==
  Silent(toGui, {"POLY_HW_MODE"}) /\ Silent(toAudio, {"POLY_HW_MODE"}) => CarouselSound({hardwareMode})

ModeInv == SystemSound /\ ModeTold /\ ModeKnown

LEMMA SameMode ==
  ASSUME NEW mode, hardwareMode' = mode, CarouselSound({mode})'
  PROVE  CarouselSound({hardwareMode})'
BY DEF CarouselSound

LEMMA AskingKeepsModes ==
  ASSUME ModeInv, UNCHANGED engineVars, NEW mode, mode = hardwareMode,
         CarouselSound({mode}) => CarouselSound({mode})',
         Asked \/ \E m \in Command : SendsToAudio(m)
  PROVE  ModeTold' /\ ModeKnown'
<1>1. hardwareMode' = mode /\ toGui' = toGui
    BY DEF engineVars
<1>2. ModeTold'
    BY <1>1 DEF ModeInv, ModeTold, IsLast
<1>3. ModeKnown'
  <2> SUFFICES ASSUME Silent(toGui', {"POLY_HW_MODE"}), Silent(toAudio', {"POLY_HW_MODE"})
               PROVE  CarouselSound({hardwareMode})'
      BY DEF ModeKnown
  <2>1. Silent(toGui, {"POLY_HW_MODE"})
      BY <1>1
  <2>2. Silent(toAudio, {"POLY_HW_MODE"})
      BY StillSilent DEF ModeInv, SystemSound
  <2>3. CarouselSound({mode})'
      BY <2>1, <2>2 DEF ModeInv, ModeKnown
  <2> QED BY <1>1, <2>3, SameMode
<1> QED BY <1>2, <1>3

LEMMA SendingKeepsModeTold ==
  ASSUME ModeInv, NEW b \in Seq(GuiMessage), toGui' = toGui \o b,
         \A k \in 1 .. Len(b) : b[k].type = "POLY_HW_MODE" => b[k].mode = hardwareMode',
         hardwareMode' = hardwareMode \/ \E k \in 1 .. Len(b) : b[k].type = "POLY_HW_MODE"
  PROVE  ModeTold'
<1> SUFFICES ASSUME NEW i \in 1 .. Len(toGui'), IsLast(i, "POLY_HW_MODE")',
                    toGui'[i].type = "POLY_HW_MODE"
             PROVE  toGui'[i].mode = hardwareMode'
    BY DEF ModeTold
<1>1. toGui \in Seq(GuiMessage) /\ ModeTold
    BY DEF ModeInv, SystemSound
<1>2. \/ /\ i \in 1 .. Len(toGui) /\ IsLast(i, "POLY_HW_MODE") /\ toGui'[i] = toGui[i]
         /\ \A k \in 1 .. Len(b) : b[k].type # "POLY_HW_MODE"
      \/ i - Len(toGui) \in 1 .. Len(b) /\ toGui'[i] = b[i - Len(toGui)]
    BY <1>1, BehindTheLast
<1> QED BY <1>1, <1>2 DEF ModeTold

LEMMA TakingKeepsModes ==
  ASSUME ModeInv, GuiHandles
  PROVE  ModeTold' /\ ModeKnown'
<1> DEFINE m == Head(toGui)
<1>1. /\ toGui \in Seq(GuiMessage) /\ toGui # << >> /\ toGui' = Tail(toGui)
      /\ toAudio \in Seq(Command) /\ CarouselSound(HardwareMode)
      /\ m = toGui[1] /\ m \in GuiMessage /\ 1 \in 1 .. Len(toGui) /\ 0 \in 0 .. Len(toGui')
      /\ HandleGui(m) /\ hardwareMode' = hardwareMode
  <2>1. toGui \in Seq(GuiMessage) /\ toAudio \in Seq(Command) /\ CarouselSound(HardwareMode)
      BY DEF ModeInv, SystemSound
  <2>2. toGui # << >> /\ toGui' = Tail(toGui) /\ HandleGui(m) /\ hardwareMode' = hardwareMode
      BY DEF GuiHandles, engineState
  <2> QED BY <2>1, <2>2
<1>2. Asked
    BY GuiAsks DEF ModeInv
<1> HIDE DEF m
<1>3. ModeTold'
  <2> SUFFICES ASSUME NEW i \in 1 .. Len(toGui'), IsLast(i, "POLY_HW_MODE")',
                      toGui'[i].type = "POLY_HW_MODE"
               PROVE  toGui'[i].mode = hardwareMode
      BY <1>1 DEF ModeTold
  <2>1. i \in 0 .. Len(toGui') /\ i + 1 \in 1 .. Len(toGui) /\ toGui'[i] = toGui[i + 1]
      BY <1>1, HeadTaken
  <2>2. IsLast(i + 1, "POLY_HW_MODE")
      BY <1>1, <2>1, TakingKeepsLast
  <2> QED BY <2>1, <2>2 DEF ModeInv, ModeTold
<1>4. ModeKnown'
  <2> SUFFICES ASSUME Silent(toGui', {"POLY_HW_MODE"}), Silent(toAudio', {"POLY_HW_MODE"})
               PROVE  CarouselSound({hardwareMode})'
      BY DEF ModeKnown
  <2>1. PICK mode : mode = hardwareMode
      OBVIOUS
  <2>2. CASE m.type = "POLY_HW_MODE"
    <3>1. IsLast(0 + 1, "POLY_HW_MODE")
      <4>1. IsLast(0, "POLY_HW_MODE")'
          BY <1>1 DEF Silent, IsLast
      <4> QED BY <1>1, <4>1, TakingKeepsLast
    <3>2. m.mode \in {mode}
        BY <1>1, <2>1, <2>2, <3>1 DEF ModeInv, ModeTold
    <3>3. OnHwMode(m.mode)
        BY <1>1, <2>2 DEF HandleGui
    <3>4. CarouselSound({mode})'
        BY <1>1, <3>2, <3>3, HwModeKeeps
    <3> QED BY <1>1, <2>1, <3>4, SameMode
  <2>3. CASE m.type # "POLY_HW_MODE"
    <3>1. Silent(toGui, {"POLY_HW_MODE"})
        BY <1>1, <2>3, TailSilent DEF m
    <3>2. Silent(toAudio, {"POLY_HW_MODE"})
        BY <1>1, <1>2, StillSilent
    <3>3. CarouselSound({mode})
        BY <2>1, <3>1, <3>2 DEF ModeInv, ModeKnown
    <3>4. CarouselSound({mode})'
        BY <1>1, <2>3, <3>3, HandleGuiKeeps
    <3> QED BY <1>1, <2>1, <3>4, SameMode
  <2> QED BY <2>2, <2>3
<1> QED BY <1>3, <1>4

LEMMA HandlingKeepsModes ==
  ASSUME ModeInv, EngineHandles
  PROVE  ModeTold' /\ ModeKnown'
<1> DEFINE m == Head(toAudio)
<1>1. /\ toGui \in Seq(GuiMessage) /\ toAudio \in Seq(Command) /\ Sound
      /\ toAudio # << >> /\ toAudio' = Tail(toAudio) /\ m \in Command
      /\ Handle(m) /\ UNCHANGED guiState
    BY DEF ModeInv, SystemSound, EngineHandles
<1> HIDE DEF m
<1>2. Sound' /\ Answers
    BY <1>1, HandleAnswers
<1>3. CASE m.type = "POLY_HW_MODE"
  <2> DEFINE b == <<HwModeMsg(hardwareMode')>>
  <2>1. toGui' = toGui \o b /\ hardwareMode' \in HardwareMode
      BY <1>1, <1>2, <1>3, HandleModes DEF Sound
  <2>2. HwModeMsg(hardwareMode') \in GuiMessage
      BY <2>1 DEF HwModeMsg, GuiMessage
  <2>3. b \in Seq(GuiMessage) /\ Len(b) = 1 /\ b[1] = HwModeMsg(hardwareMode') /\ 1 \in 1 .. Len(b)
      BY <2>2
  <2>4. b[1].type = "POLY_HW_MODE" /\ b[1].mode = hardwareMode'
      BY <2>3 DEF HwModeMsg
  <2> HIDE DEF b
  <2>5. \A k \in 1 .. Len(b) : k = 1
      BY <2>3
  <2>6. ModeTold'
      BY <2>1, <2>3, <2>4, <2>5, SendingKeepsModeTold
  <2>7. ~ Silent(toGui', {"POLY_HW_MODE"})
      BY <1>1, <2>1, <2>3, <2>4, LongerStillSilent DEF Silent
  <2> QED BY <2>6, <2>7 DEF ModeKnown
<1>4. CASE m.type # "POLY_HW_MODE"
  <2>1. hardwareMode' = hardwareMode
      BY <1>1, <1>4, HandleModes
  <2>2. PICK b \in Seq(Answer(isPlaying', hardwareMode')) : toGui' = toGui \o b
      BY <1>2 DEF Answers
  <2>3. b \in Seq(GuiMessage)
      BY <2>2 DEF Answer
  <2>4. ASSUME NEW k \in 1 .. Len(b), b[k].type = "POLY_HW_MODE"
        PROVE  b[k].mode = hardwareMode'
    <3>1. b[k] \in Answer(isPlaying', hardwareMode')
        BY <2>2
    <3> QED BY <2>4, <3>1 DEF Answer
  <2>5. ModeTold'
      BY <2>1, <2>2, <2>3, <2>4, SendingKeepsModeTold
  <2>6. ModeKnown'
    <3> SUFFICES ASSUME Silent(toGui', {"POLY_HW_MODE"}), Silent(toAudio', {"POLY_HW_MODE"})
                 PROVE  CarouselSound({hardwareMode})'
        BY DEF ModeKnown
    <3>1. PICK mode : mode = hardwareMode
        OBVIOUS
    <3>2. Silent(toGui, {"POLY_HW_MODE"})
        BY <1>1, <2>2, <2>3, LongerStillSilent
    <3>3. Silent(toAudio, {"POLY_HW_MODE"})
        BY <1>1, <1>4, TailSilent DEF m
    <3>4. CarouselSound({mode})
        BY <3>1, <3>2, <3>3 DEF ModeInv, ModeKnown
    <3>5. CarouselSound({mode})'
        BY <1>1, <3>4, CarouselUnchanged
    <3> QED BY <2>1, <3>1, <3>5, SameMode
  <2> QED BY <2>5, <2>6
<1> QED BY <1>3, <1>4

LEMMA PlayingKeepsModes ==
  ASSUME ModeInv, EnginePlays
  PROVE  ModeTold' /\ ModeKnown'
<1> DEFINE b == <<[type |-> "POLY_PLAYHEAD"]>>
<1>1. /\ toGui \in Seq(GuiMessage) /\ hardwareMode' = hardwareMode
      /\ UNCHANGED guiState /\ toAudio' = toAudio
    BY DEF ModeInv, SystemSound, EnginePlays, engineState, guiVars, guiState
<1>2. toGui' = toGui \o b
    BY PlayheadSent
<1>3. [type |-> "POLY_PLAYHEAD"] \in GuiMessage
    BY DEF GuiMessage
<1>4. b \in Seq(GuiMessage) /\ \A k \in 1 .. Len(b) : b[k].type = "POLY_PLAYHEAD"
    BY <1>3
<1> HIDE DEF b
<1>5. ModeTold'
    BY <1>1, <1>2, <1>4, SendingKeepsModeTold
<1>6. ModeKnown'
  <2> SUFFICES ASSUME Silent(toGui', {"POLY_HW_MODE"}), Silent(toAudio', {"POLY_HW_MODE"})
               PROVE  CarouselSound({hardwareMode})'
      BY DEF ModeKnown
  <2>1. PICK mode : mode = hardwareMode
      OBVIOUS
  <2>2. Silent(toGui, {"POLY_HW_MODE"}) /\ Silent(toAudio, {"POLY_HW_MODE"})
      BY <1>1, <1>2, <1>4, LongerStillSilent
  <2>3. CarouselSound({mode})
      BY <2>1, <2>2 DEF ModeInv, ModeKnown
  <2>4. CarouselSound({mode})'
      BY <1>1, <2>3, CarouselUnchanged
  <2> QED BY <1>1, <2>1, <2>4, SameMode
<1> QED BY <1>5, <1>6

LEMMA ModeStep == ModeInv /\ [SystemNext]_systemVars => ModeInv'
<1> SUFFICES ASSUME ModeInv, [SystemNext]_systemVars PROVE ModeTold' /\ ModeKnown'
    BY SystemStepSound DEF ModeInv
<1>0. toAudio \in Seq(Command) /\ CarouselSound(HardwareMode)
    BY DEF ModeInv, SystemSound
<1> PICK mode : mode = hardwareMode
    OBVIOUS
<1>1. CASE GuiStarts
  <2>1. [type |-> "GET_INITIAL_SETUP"] \in Command
      BY DEF Command
  <2> QED BY <1>1, <2>1, AskingKeepsModes, CarouselUnchanged DEF GuiStarts
<1>2. CASE GuiHandles
    BY <1>2, TakingKeepsModes
<1>3. CASE EngineHandles
    BY <1>3, HandlingKeepsModes
<1>4. CASE EnginePlays
    BY <1>4, PlayingKeepsModes
<1>5. ASSUME NEW kind \in Touches, UserActs(kind)
      PROVE  ModeTold' /\ ModeKnown'
  <2>1. UNCHANGED engineVars /\ ((sets # << >> /\ Touch(kind)) \/ Key(kind))
      BY <1>5 DEF UserActs
  <2>2. CASE Touch(kind) /\ sets # << >> /\ kind # "mode"
    <3>1. Asked
        BY <1>0, <2>2, TouchKeeps
    <3>2. CarouselSound({mode}) => CarouselSound({mode})'
        BY <2>2, TouchKeeps
    <3> QED BY <2>1, <3>1, <3>2, AskingKeepsModes
  <2>3. ASSUME NEW chosen \in HardwareMode, TouchMode(chosen)
        PROVE  ModeTold' /\ ModeKnown'
    <3> DEFINE m == [type |-> "POLY_HW_MODE", mode |-> chosen]
    <3>1. m \in Command /\ m.type \in {"POLY_HW_MODE"}
        BY DEF Command, HardwareMode
    <3>2. SendsToAudio(m)
        BY <2>3 DEF TouchMode
    <3> HIDE DEF m
    <3>3. ~ Silent(toAudio', {"POLY_HW_MODE"})
        BY <1>0, <3>1, <3>2, SentIsHeard
    <3>4. toGui' = toGui /\ hardwareMode' = hardwareMode
        BY <2>1 DEF engineVars
    <3> QED BY <3>3, <3>4 DEF ModeInv, ModeTold, ModeKnown, IsLast
  <2>4. CASE NavigateLeft \/ NavigateRight
    <3>1. -1 \in Int /\ 1 \in Int
        OBVIOUS
    <3>2. Asked
        BY <1>0, <2>4, <3>1, NavigateKeeps DEF NavigateLeft, NavigateRight
    <3>3. CarouselSound({mode}) => CarouselSound({mode})'
        BY <2>4, <3>1, NavigateKeeps DEF NavigateLeft, NavigateRight
    <3> QED BY <2>1, <3>2, <3>3, AskingKeepsModes
  <2>5. CASE KeyPlay
    <3>1. is_playing' = ~ is_playing /\ is_playing' \in BOOLEAN
        BY <1>0, <2>5 DEF CarouselSound, KeyPlay
    <3>2. CarouselSound({mode}) => CarouselSound({mode})'
        BY <2>5, <3>1, PlayStateKeeps DEF KeyPlay
    <3>3. [type |-> IF is_playing' THEN "PLAY" ELSE "PAUSE"] \in Command
        BY DEF Command
    <3>4. SendsToAudio([type |-> IF is_playing' THEN "PLAY" ELSE "PAUSE"])
        BY <2>5 DEF KeyPlay
    <3> QED BY <2>1, <3>2, <3>3, <3>4, AskingKeepsModes
  <2> QED BY <2>1, <2>2, <2>3, <2>4, <2>5 DEF Touch, Key
<1>6. ASSUME NEW m \in Commands, HardwareSends(m)
      PROVE  ModeTold' /\ ModeKnown'
    BY <1>6, SystemAssumption, AskingKeepsModes, CarouselUnchanged DEF HardwareSends
<1>7. CASE AnimationPasses
  <2>1. CarouselSound({mode}) => CarouselSound({mode})'
      BY <1>7 DEF AnimationPasses, AnimationEnds, CarouselSound
  <2> QED BY <1>7, <2>1, AskingKeepsModes DEF AnimationPasses, AnimationEnds, Asked
<1>8. CASE UNCHANGED systemVars
  <2>1. UNCHANGED engineVars /\ UNCHANGED guiState /\ UNCHANGED toAudio
      BY <1>8 DEF systemVars, guiVars, guiState
  <2> QED BY <2>1, AskingKeepsModes, CarouselUnchanged DEF Asked
<1> QED BY <1>1, <1>2, <1>3, <1>4, <1>5, <1>6, <1>7, <1>8 DEF SystemNext

LEMMA ModeInit == SystemInit => ModeInv
<1> SUFFICES ASSUME SystemInit PROVE ModeTold /\ ModeKnown
    BY SystemInitSound DEF ModeInv
<1>1. toGui = << >> /\ carouselMode = hardwareMode /\ sets = << >>
    BY DEF SystemInit, EngineInit, CarouselInit
<1>2. CarouselSound(HardwareMode)
    BY SystemInitSound DEF SystemSound
<1>3. CarouselSound({hardwareMode})
  <2>1. << >> \in Seq(ShownSet({hardwareMode}))
      OBVIOUS
  <2> QED BY <1>1, <1>2, <2>1 DEF CarouselSound
<1> QED BY <1>1, <1>3 DEF ModeTold, ModeKnown

(***************************************************************************)
(* However mode buttons, hardware commands and rebuilds cross: once        *)
(* nothing is under way, every set shows the mode the encoder acts in.     *)
(***************************************************************************)
THEOREM ModesMeet == SystemSpec => []ModesAgree
<1>1. ModeInv => ModesAgree
  <2> SUFFICES ASSUME ModeInv, Settled, NEW s \in DOMAIN sets
               PROVE  sets[s].mode = hardwareMode
      BY DEF ModesAgree
  <2>1. CarouselSound({hardwareMode})
      BY DEF ModeInv, ModeKnown, Settled, UnderWay, Silent
  <2>2. sets[s] \in ShownSet({hardwareMode})
      BY <2>1 DEF CarouselSound
  <2> QED BY <2>2 DEF ShownSet
<1> QED BY <1>1, ModeInit, ModeStep, PTL DEF SystemSpec

-----------------------------------------------------------------------------
(***************************************************************************)
(* The engine and the GUI agree on what is shown and selected.             *)
(*                                                                         *)
(* Everything under way counts: after each of its steps the system is such *)
(* that the GUI, were it to handle all that is in its queue, would show    *)
(* what the engine plays.  A rebuild is a sequence of messages that fill   *)
(* the staging area; what they lead to is the relation Leads.              *)
(***************************************************************************)
Closing == {"POLY_SELECT", "POLY_SELECTED_POINT", "PLAY_STATE", "POLY_HW_MODE"}
Rebuilding == Filling \cup {"POLY_REBUILD", "POLY_READY"}

Blank == [shapes |-> << >>, timeline |-> {}, active |-> << >>]
Shaped(shapes) == [shapes |-> shapes, timeline |-> {}, active |-> << >>]

(* Rings with their masks or, as far as shapes matter, without.            *)
Bare(masks, ring) ==
  [shapes |-> ring.shapes, timeline |-> ring.timeline,
   active |-> IF masks THEN ring.active ELSE << >>]

Seen(masks, a) == [i \in 1 .. Len(a) |-> Bare(masks, a[i])]

After(masks, a, m) ==
  IF m.type = "POLY_RING" THEN Append(a, Blank)
  ELSE IF m.type = "POLY_RING_SHAPE" /\ m.ring < Len(a)
       THEN [a EXCEPT ![m.ring + 1].shapes = Append(@, m.shape)]
  ELSE IF m.type = "POLY_RING_TIMELINE" /\ m.ring < Len(a)
       THEN [a EXCEPT ![m.ring + 1].timeline = m.timeline]
  ELSE IF m.type = "POLY_RING_ACTIVE" /\ masks /\ m.ring < Len(a)
       THEN [a EXCEPT ![m.ring + 1].active = m.active]
  ELSE a

Staging == Seq(RingType)

Fill(masks) == {x \in Staging \X GuiMessage \X Staging :
                  x[2].type \in Filling \cup Closing /\ x[3] = After(masks, x[1], x[2])}

Fills(masks, a, q, b) == Leads(Fill(masks), Staging, a, q, b)

(* What a rebuild says of a ring: a timeline or a mask that is too long is *)
(* not sent.                                                               *)
Copy(masks, ring) ==
  [shapes   |-> ring.shapes,
   timeline |-> IF Cardinality(ring.timeline) <= MaxTimelinePoints THEN ring.timeline ELSE {},
   active   |-> IF masks /\ Len(ring.active) <= MaxActivePoints THEN ring.active ELSE << >>]

Copies(masks, rs) == [i \in 1 .. NumRings |-> Copy(masks, rs[i - 1])]

LEMMA CopyType ==
  ASSUME NEW masks \in BOOLEAN, NEW ring \in RingType
  PROVE  Copy(masks, ring) \in RingType
<1>1. /\ ring.shapes \in Seq(Shape) /\ ring.timeline \in SUBSET Instant
      /\ ring.active \in Seq(BOOLEAN) /\ {} \in SUBSET Instant /\ << >> \in Seq(BOOLEAN)
    BY DEF RingType
<1> QED BY <1>1 DEF Copy, RingType

LEMMA BlankType == Blank \in RingType
BY DEF Blank, RingType

LEMMA ShapedAgain ==
  ASSUME NEW shapes, NEW more
  PROVE  [Shaped(shapes) EXCEPT !.shapes = more] = Shaped(more)
BY Z3 DEF Shaped

LEMMA FillsOne ==
  ASSUME NEW masks, NEW a \in Staging, NEW m \in GuiMessage, m.type \in Filling \cup Closing,
         NEW b \in Staging, b = After(masks, a, m)
  PROVE  Fills(masks, a, <<m>>, b)
<1>1. <<a, m, b>> \in Fill(masks)
    BY DEF Fill
<1> QED BY <1>1, LeadsOne DEF Fills

LEMMA LastReplaced ==
  ASSUME NEW S, NEW a \in Seq(S), NEW x \in S, NEW y \in S
  PROVE  [Append(a, x) EXCEPT ![Len(a) + 1] = y] = Append(a, y)
<1> DEFINE b == Append(a, x)
           c == Append(a, y)
           n == Len(a) + 1
<1>1. /\ n \in Nat /\ DOMAIN b = 1 .. n /\ DOMAIN c = 1 .. n /\ b \in Seq(S) /\ c \in Seq(S)
      /\ \A i \in 1 .. n : b[i] = (IF i = n THEN x ELSE a[i])
      /\ \A i \in 1 .. n : c[i] = (IF i = n THEN y ELSE a[i])
    OBVIOUS
<1> HIDE DEF b, c, n
<1>2. c = [i \in 1 .. n |-> c[i]]
    BY <1>1
<1>3. [b EXCEPT ![n] = y] = [i \in 1 .. n |-> IF i = n THEN y ELSE b[i]]
    BY <1>1
<1>4. \A i \in 1 .. n : c[i] = IF i = n THEN y ELSE b[i]
    BY <1>1
<1>5. [b EXCEPT ![n] = y] = c
    BY <1>2, <1>3, <1>4
<1> QED BY <1>5 DEF b, c, n

LEMMA FillsOn ==
  ASSUME NEW masks, NEW p \in Seq(GuiMessage), NEW q \in Seq(GuiMessage), NEW a, NEW b, NEW c,
         Fills(masks, a, p, b), Fills(masks, b, q, c)
  PROVE  Fills(masks, a, p \o q, c)
BY LeadsOn DEF Fills

(***************************************************************************)
(* The messages of sendRingData add a copy of the ring.                    *)
(***************************************************************************)
LEMMA ShapesFill ==
  ASSUME NEW masks, NEW a \in Staging, NEW r \in Nat, Len(a) = r, NEW shapes \in Seq(Shape)
  PROVE  LET msgs == [i \in DOMAIN shapes |->
                        [type |-> "POLY_RING_SHAPE", ring |-> r, shape |-> shapes[i]]]
         IN  /\ msgs \in Seq(GuiMessage)
             /\ Fills(masks, Append(a, Blank), msgs, Append(a, Shaped(shapes)))
<1> DEFINE n == Len(shapes)
           msg(i) == [type |-> "POLY_RING_SHAPE", ring |-> r, shape |-> shapes[i]]
           msgs == [i \in 1 .. n |-> msg(i)]
           ring(i) == Shaped(SubSeq(shapes, 1, i))
           f == [i \in 0 .. n |-> Append(a, ring(i))]
<1>1. n \in Nat /\ DOMAIN shapes = 1 .. n
    OBVIOUS
<1>2. \A i \in 1 .. n : msg(i) \in GuiMessage
    BY DEF GuiMessage
<1>3. msgs \in Seq(GuiMessage) /\ Len(msgs) = n /\ \A i \in 1 .. n : msgs[i] = msg(i)
    BY <1>1, <1>2
<1>4. ASSUME NEW i \in 0 .. n
      PROVE  /\ ring(i) \in RingType /\ ring(i).shapes = SubSeq(shapes, 1, i)
             /\ Append(a, ring(i)) \in Staging /\ Append(a, ring(i))[r + 1] = ring(i)
             /\ Len(Append(a, ring(i))) = r + 1
  <2>1. SubSeq(shapes, 1, i) \in Seq(Shape)
      BY <1>1
  <2>2. ring(i) \in RingType /\ ring(i).shapes = SubSeq(shapes, 1, i)
      BY <2>1 DEF Shaped, RingType
  <2> HIDE DEF ring
  <2>3. Append(a, ring(i)) \in Staging
      BY <2>2 DEF Staging
  <2>4. Append(a, ring(i))[r + 1] = ring(i) /\ Len(Append(a, ring(i))) = r + 1
      BY DEF Staging
  <2> QED BY <2>2, <2>3, <2>4
<1>5. ASSUME NEW i \in 1 .. n
      PROVE  After(masks, Append(a, ring(i - 1)), msg(i)) = Append(a, ring(i))
  <2>1. i - 1 \in 0 .. n /\ i \in 0 .. n /\ r < r + 1 /\ i \in Nat
      BY <1>1
  <2> DEFINE b == Append(a, ring(i - 1))
             shorter == SubSeq(shapes, 1, i - 1)
  <2>2. /\ b \in Staging /\ b[r + 1] = ring(i - 1) /\ Len(b) = r + 1
        /\ ring(i - 1).shapes = shorter /\ ring(i - 1) \in RingType
      BY <1>4, <2>1
  <2>3. Append(shorter, shapes[i]) = SubSeq(shapes, 1, i)
      BY <1>1
  <2>4. After(masks, b, msg(i)) = [b EXCEPT ![r + 1].shapes = Append(@, shapes[i])]
    <3> HIDE DEF b
    <3> QED BY <2>1, <2>2 DEF After
  <2>5. [b EXCEPT ![r + 1].shapes = Append(@, shapes[i])]
          = [b EXCEPT ![r + 1] = [b[r + 1] EXCEPT !.shapes = Append(shorter, shapes[i])]]
    <3> HIDE DEF b, ring
    <3> QED BY <2>2 DEF Staging
  <2>6. [b[r + 1] EXCEPT !.shapes = Append(shorter, shapes[i])] = ring(i)
    <3>1. b[r + 1] = Shaped(shorter) /\ ring(i) = Shaped(Append(shorter, shapes[i]))
        BY <2>2, <2>3
    <3>2. [Shaped(shorter) EXCEPT !.shapes = Append(shorter, shapes[i])]
            = Shaped(Append(shorter, shapes[i]))
        BY ShapedAgain
    <3> HIDE DEF b, ring, shorter
    <3> QED BY <3>1, <3>2, Zenon
  <2>7. [b EXCEPT ![r + 1] = ring(i)] = Append(a, ring(i))
    <3>1. ring(i - 1) \in RingType /\ ring(i) \in RingType
        BY <1>4, <2>1
    <3> HIDE DEF ring
    <3> QED BY <3>1, LastReplaced DEF Staging
  <2> QED BY <2>4, <2>5, <2>6, <2>7
<1>6. f \in [0 .. n -> Staging] /\ \A i \in 0 .. n : f[i] = Append(a, ring(i))
    BY <1>4
<1>7. ring(0) = Blank /\ ring(n) = Shaped(shapes)
  <2>1. SubSeq(shapes, 1, 0) = << >> /\ SubSeq(shapes, 1, n) = shapes
      BY <1>1
  <2> QED BY <2>1 DEF Blank, Shaped
<1> HIDE DEF ring, f, msgs
<1>8. ASSUME NEW i \in 1 .. n
      PROVE  <<f[i - 1], msgs[i], f[i]>> \in Fill(masks)
  <2>1. i - 1 \in 0 .. n /\ i \in 0 .. n
      BY <1>1
  <2>2. f[i - 1] \in Staging /\ f[i] \in Staging
      BY <1>6, <2>1
  <2>3. f[i - 1] = Append(a, ring(i - 1)) /\ f[i] = Append(a, ring(i))
      BY <1>6, <2>1
  <2>4. f[i] = After(masks, f[i - 1], msg(i))
      BY <1>5, <2>3
  <2>5. msg(i) \in GuiMessage /\ msg(i).type \in Filling
      BY <1>2 DEF Filling
  <2> HIDE DEF msg
  <2> QED BY <1>3, <2>2, <2>4, <2>5 DEF Fill
<1>9. 0 \in 0 .. n /\ n \in 0 .. n
    BY <1>1
<1>10. f[0] = Append(a, Blank) /\ f[n] = Append(a, Shaped(shapes))
    BY <1>6, <1>7, <1>9
<1>11. Fills(masks, Append(a, Blank), msgs, Append(a, Shaped(shapes)))
    BY <1>3, <1>6, <1>8, <1>10 DEF Fills, Leads
<1> QED BY <1>1, <1>3, <1>11 DEF msgs

LEMMA FillsNothing ==
  ASSUME NEW masks, NEW a \in Staging
  PROVE  Fills(masks, a, << >>, a)
BY LeadsNowhere DEF Fills

(* A message that goes into the last ring.                                 *)
LEMMA LastFilled ==
  ASSUME NEW masks, NEW a \in Staging, NEW ring \in RingType, NEW filled \in RingType,
         NEW m \in GuiMessage, m.type \in Filling \ {"POLY_RING"}, m.ring = Len(a),
         \/ m.type = "POLY_RING_TIMELINE" /\ filled = [ring EXCEPT !.timeline = m.timeline]
         \/ /\ m.type = "POLY_RING_ACTIVE"
            /\ filled = IF masks THEN [ring EXCEPT !.active = m.active] ELSE ring
  PROVE  Fills(masks, Append(a, ring), <<m>>, Append(a, filled))
<1> DEFINE b == Append(a, ring)
           n == Len(a) + 1
<1>1. /\ b \in Staging /\ Append(a, filled) \in Staging /\ Len(b) = n /\ b[n] = ring
      /\ n \in 1 .. Len(b) /\ Len(a) < Len(b)
    BY DEF Staging
<1>2. [b EXCEPT ![n] = filled] = Append(a, filled)
    BY LastReplaced DEF Staging
<1>3. After(masks, b, m) = Append(a, filled)
  <2>1. CASE m.type = "POLY_RING_TIMELINE"
    <3>1. After(masks, b, m) = [b EXCEPT ![n].timeline = m.timeline]
      <4> HIDE DEF b
      <4> QED BY <1>1, <2>1 DEF After
    <3>2. [b EXCEPT ![n].timeline = m.timeline] = [b EXCEPT ![n] = [b[n] EXCEPT !.timeline = m.timeline]]
      <4> HIDE DEF b, n
      <4> QED BY <1>1 DEF Staging
    <3> HIDE DEF b, n
    <3> QED BY <1>1, <1>2, <2>1, <3>1, <3>2
  <2>2. CASE m.type = "POLY_RING_ACTIVE" /\ masks
    <3>1. After(masks, b, m) = [b EXCEPT ![n].active = m.active]
      <4> HIDE DEF b
      <4> QED BY <1>1, <2>2 DEF After
    <3>2. [b EXCEPT ![n].active = m.active] = [b EXCEPT ![n] = [b[n] EXCEPT !.active = m.active]]
      <4> HIDE DEF b, n
      <4> QED BY <1>1 DEF Staging
    <3> HIDE DEF b, n
    <3> QED BY <1>1, <1>2, <2>2, <3>1, <3>2
  <2>3. CASE m.type = "POLY_RING_ACTIVE" /\ ~ masks
    <3>1. After(masks, b, m) = b /\ filled = ring
      <4> HIDE DEF b
      <4> QED BY <2>3 DEF After
    <3> QED BY <3>1
  <2> QED BY <2>1, <2>2, <2>3
<1>4. m.type \in Filling \cup Closing
    OBVIOUS
<1> HIDE DEF b
<1>5. Fills(masks, b, <<m>>, Append(a, filled))
    BY <1>1, <1>3, <1>4, FillsOne
<1> QED BY <1>5 DEF b

LEMMA RingFills ==
  ASSUME NEW masks \in BOOLEAN, NEW a \in Staging, NEW r \in Nat, Len(a) = r, NEW ring \in RingType
  PROVE  /\ RingData(r, ring) \in Seq(GuiMessage)
         /\ Fills(masks, a, RingData(r, ring), Append(a, Copy(masks, ring)))
<1> DEFINE ringMsg == [type |-> "POLY_RING", ring |-> r]
           shapeMsgs == [i \in DOMAIN ring.shapes |->
                           [type |-> "POLY_RING_SHAPE", ring |-> r, shape |-> ring.shapes[i]]]
           timelineMsg == [type |-> "POLY_RING_TIMELINE", ring |-> r, timeline |-> ring.timeline]
           activeMsg == [type |-> "POLY_RING_ACTIVE", ring |-> r, active |-> ring.active]
           copy == Copy(masks, ring)
           shaped == Shaped(ring.shapes)
           timed == [shapes |-> ring.shapes, timeline |-> copy.timeline, active |-> << >>]
<1>1. /\ ring.shapes \in Seq(Shape) /\ ring.timeline \in SUBSET Instant
      /\ ring.active \in Seq(BOOLEAN)
    BY DEF RingType
<1>2. ringMsg \in GuiMessage /\ timelineMsg \in GuiMessage /\ activeMsg \in GuiMessage
    BY <1>1 DEF GuiMessage
<1>3. shaped \in RingType /\ timed \in RingType /\ copy \in RingType
  <2>1. copy \in RingType
      BY CopyType
  <2>2. copy.timeline \in SUBSET Instant
      BY <2>1 DEF RingType
  <2> HIDE DEF copy
  <2>3. shaped \in RingType
      BY <1>1 DEF RingType, Shaped
  <2>4. timed \in RingType
      BY <1>1, <2>2 DEF RingType
  <2> QED BY <2>1, <2>3, <2>4
<1>4. Fills(masks, a, <<ringMsg>>, Append(a, Blank))
  <2>1. Append(a, Blank) \in Staging /\ ringMsg.type \in Filling
      BY BlankType DEF Staging, Filling
  <2>2. After(masks, a, ringMsg) = Append(a, Blank)
      BY DEF After
  <2> HIDE DEF ringMsg
  <2> QED BY <1>2, <2>1, <2>2, FillsOne
<1>5. shapeMsgs \in Seq(GuiMessage) /\ Fills(masks, Append(a, Blank), shapeMsgs, Append(a, shaped))
    BY <1>1, ShapesFill
<1>6. Fills(masks, Append(a, shaped), Accepted(timelineMsg), Append(a, timed))
  <2>1. CASE Cardinality(ring.timeline) <= MaxTimelinePoints
    <3>1. /\ Accepted(timelineMsg) = <<timelineMsg>>
          /\ timed = [shaped EXCEPT !.timeline = timelineMsg.timeline]
        BY <2>1 DEF Accepted, Fits, Copy, Shaped
    <3>2. /\ timelineMsg.type = "POLY_RING_TIMELINE" /\ timelineMsg.ring = Len(a)
          /\ timelineMsg.type \in Filling \ {"POLY_RING"}
        BY DEF Filling
    <3> HIDE DEF timelineMsg, timed, shaped
    <3> QED BY <1>2, <1>3, <3>1, <3>2, LastFilled
  <2>2. CASE ~ Cardinality(ring.timeline) <= MaxTimelinePoints
    <3>1. Accepted(timelineMsg) = << >>
        BY <2>2 DEF Accepted, Fits
    <3>2. timed = shaped
        BY <2>2 DEF Copy, Shaped
    <3>3. Append(a, shaped) \in Staging
      <4> HIDE DEF shaped
      <4> QED BY <1>3 DEF Staging
    <3> QED BY <3>1, <3>2, <3>3, FillsNothing
  <2> QED BY <2>1, <2>2
<1>7. Fills(masks, Append(a, timed), Accepted(activeMsg), Append(a, copy))
  <2>1. CASE Len(ring.active) <= MaxActivePoints
    <3>1. Accepted(activeMsg) = <<activeMsg>>
        BY <2>1 DEF Accepted, Fits
    <3>2. copy = IF masks THEN [timed EXCEPT !.active = activeMsg.active] ELSE timed
        BY <2>1 DEF Copy, Blank
    <3>3. /\ activeMsg.type = "POLY_RING_ACTIVE" /\ activeMsg.ring = Len(a)
          /\ activeMsg.type \in Filling \ {"POLY_RING"}
        BY DEF Filling
    <3> HIDE DEF activeMsg, timed, copy
    <3> QED BY <1>2, <1>3, <3>1, <3>2, <3>3, LastFilled
  <2>2. CASE ~ Len(ring.active) <= MaxActivePoints
    <3>1. Accepted(activeMsg) = << >>
        BY <2>2 DEF Accepted, Fits
    <3>2. copy = timed
        BY <2>2 DEF Copy
    <3>3. Append(a, timed) \in Staging
      <4> HIDE DEF timed
      <4> QED BY <1>3 DEF Staging
    <3> QED BY <3>1, <3>2, <3>3, FillsNothing
  <2> QED BY <2>1, <2>2
<1>8. RingData(r, ring)
        = <<ringMsg>> \o shapeMsgs \o Accepted(timelineMsg) \o Accepted(activeMsg)
    BY DEF RingData
<1>9. /\ <<ringMsg>> \in Seq(GuiMessage) /\ Accepted(timelineMsg) \in Seq(GuiMessage)
      /\ Accepted(activeMsg) \in Seq(GuiMessage)
    BY <1>2 DEF Accepted
<1> HIDE DEF ringMsg, shapeMsgs, timelineMsg, activeMsg, shaped, timed, copy
<1>10. /\ <<ringMsg>> \o shapeMsgs \in Seq(GuiMessage)
       /\ <<ringMsg>> \o shapeMsgs \o Accepted(timelineMsg) \in Seq(GuiMessage)
       /\ <<ringMsg>> \o shapeMsgs \o Accepted(timelineMsg) \o Accepted(activeMsg) \in Seq(GuiMessage)
    BY <1>5, <1>9
<1>11. Fills(masks, a, <<ringMsg>> \o shapeMsgs, Append(a, shaped))
    BY <1>4, <1>5, <1>9, FillsOn
<1>12. Fills(masks, a, <<ringMsg>> \o shapeMsgs \o Accepted(timelineMsg), Append(a, timed))
    BY <1>6, <1>9, <1>10, <1>11, FillsOn
<1>13. Fills(masks, a, <<ringMsg>> \o shapeMsgs \o Accepted(timelineMsg) \o Accepted(activeMsg),
             Append(a, copy))
    BY <1>7, <1>9, <1>10, <1>12, FillsOn
<1> QED BY <1>8, <1>10, <1>13 DEF copy

LEMMA CopiesType ==
  ASSUME NEW masks \in BOOLEAN, NEW rs \in [Ring -> RingType]
  PROVE  /\ Copies(masks, rs) \in Staging /\ Len(Copies(masks, rs)) = NumRings
         /\ \A r \in Ring : r + 1 \in 1 .. NumRings /\ Copies(masks, rs)[r + 1] = Copy(masks, rs[r])
<1> DEFINE c(i) == Copy(masks, rs[i - 1])
<1>1. NumRings \in Nat /\ NumRings > 0
    BY EngineAssumption
<1>2. ASSUME NEW i \in 1 .. NumRings
      PROVE  c(i) \in RingType
  <2>1. i - 1 \in Ring
      BY <1>1 DEF Ring
  <2>2. rs[i - 1] \in RingType
      BY <2>1
  <2> QED BY <2>2, CopyType
<1>3. Copies(masks, rs) = [i \in 1 .. NumRings |-> c(i)]
    BY DEF Copies
<1>4. \A r \in Ring : r + 1 \in 1 .. NumRings /\ (r + 1) - 1 = r
    BY <1>1 DEF Ring
<1>5. \A r \in Ring : c(r + 1) = Copy(masks, rs[r])
    BY <1>4
<1> HIDE DEF c
<1>6. [i \in 1 .. NumRings |-> c(i)] \in Seq(RingType) /\ Len([i \in 1 .. NumRings |-> c(i)]) = NumRings
    BY <1>1, <1>2
<1>7. \A i \in 1 .. NumRings : [j \in 1 .. NumRings |-> c(j)][i] = c(i)
    OBVIOUS
<1> QED BY <1>3, <1>4, <1>5, <1>6, <1>7 DEF Staging

(* All rings, one after the other.                                         *)
LEMMA AllRingsFill ==
  ASSUME NEW masks \in BOOLEAN, rings' \in [Ring -> RingType]
  PROVE  /\ AllRingData \in Seq(GuiMessage)
         /\ Fills(masks, << >>, AllRingData, Copies(masks, rings'))
<1> DEFINE data(i) == RingData(i - 1, rings'[i - 1])
           ss == [i \in 1 .. NumRings |-> data(i)]
           copy(i) == Copy(masks, rings'[i - 1])
           upTo(k) == [i \in 1 .. k |-> copy(i)]
           t == [k \in 0 .. NumRings |-> upTo(k)]
<1>1. NumRings \in Nat
    BY EngineAssumption
<1>2. ASSUME NEW i \in 1 .. NumRings
      PROVE  i - 1 \in Nat /\ rings'[i - 1] \in RingType /\ copy(i) \in RingType
  <2>1. i - 1 \in Nat /\ i - 1 \in Ring
      BY <1>1 DEF Ring
  <2>2. rings'[i - 1] \in RingType
      BY <2>1
  <2> QED BY <2>1, <2>2, CopyType
<1>3. ASSUME NEW k \in 0 .. NumRings
      PROVE  upTo(k) \in Staging /\ Len(upTo(k)) = k
  <2>1. k \in Nat /\ \A i \in 1 .. k : copy(i) \in RingType
      BY <1>1, <1>2
  <2> HIDE DEF copy
  <2> QED BY <2>1 DEF Staging
<1>4. ASSUME NEW k \in 1 .. NumRings
      PROVE  Append(upTo(k - 1), copy(k)) = upTo(k)
  <2>1. k - 1 \in Nat /\ k \in Nat /\ (k - 1) + 1 = k /\ \A i \in 1 .. k : copy(i) \in RingType
      BY <1>1, <1>2
  <2> HIDE DEF copy
  <2>2. upTo(k - 1) \in Seq(RingType) /\ Len(upTo(k - 1)) = k - 1
      BY <2>1
  <2>3. \A i \in 1 .. k - 1 : upTo(k - 1)[i] = copy(i)
      OBVIOUS
  <2>4. upTo(k) \in Seq(RingType) /\ Len(upTo(k)) = k /\ \A i \in 1 .. k : upTo(k)[i] = copy(i)
      BY <2>1
  <2> DEFINE u == upTo(k - 1)
             v == upTo(k)
  <2> HIDE DEF u, v
  <2>5. Append(u, copy(k)) = v
      BY <2>1, <2>2, <2>3, <2>4 DEF u, v
  <2> QED BY <2>5 DEF u, v
<1>5. ASSUME NEW k \in 1 .. NumRings
      PROVE  data(k) \in Seq(GuiMessage) /\ Fills(masks, upTo(k - 1), data(k), upTo(k))
  <2>1. k - 1 \in 0 .. NumRings
      BY <1>1
  <2>2. upTo(k - 1) \in Staging /\ Len(upTo(k - 1)) = k - 1
      BY <1>3, <2>1
  <2> HIDE DEF upTo
  <2>3. data(k) \in Seq(GuiMessage) /\ Fills(masks, upTo(k - 1), data(k), Append(upTo(k - 1), copy(k)))
      BY <1>2, <2>2, RingFills
  <2> QED BY <1>4, <2>3
<1> HIDE DEF data
<1>6. ss \in Seq(Seq(GuiMessage)) /\ Len(ss) = NumRings /\ \A i \in 1 .. NumRings : ss[i] = data(i)
  <2>1. ss = [i \in 1 .. NumRings |-> ss[i]] /\ \A i \in 1 .. NumRings : ss[i] = data(i)
      OBVIOUS
  <2> HIDE DEF ss
  <2>2. \A i \in 1 .. NumRings : ss[i] \in Seq(GuiMessage)
      BY <1>5, <2>1
  <2> QED BY <1>1, <2>1, <2>2, SeqOfParts
<1>7. t \in [0 .. NumRings -> Staging] /\ \A k \in 0 .. NumRings : t[k] = upTo(k)
    BY <1>3
<1>8. upTo(0) = << >> /\ upTo(NumRings) = Copies(masks, rings')
    BY DEF Copies
<1> HIDE DEF ss, t, upTo
<1>9. ASSUME NEW i \in 1 .. Len(ss)
      PROVE  Leads(Fill(masks), Staging, t[i - 1], ss[i], t[i])
  <2>1. i \in 1 .. NumRings /\ i \in 0 .. NumRings /\ i - 1 \in 0 .. NumRings
      BY <1>1, <1>6
  <2>2. t[i - 1] = upTo(i - 1) /\ t[i] = upTo(i) /\ ss[i] = data(i)
      BY <1>6, <1>7, <2>1
  <2> QED BY <1>5, <2>1, <2>2 DEF Fills
<1>10. 0 \in 0 .. NumRings /\ NumRings \in 0 .. NumRings
    BY <1>1
<1>11. Leads(Fill(masks), Staging, t[0], FlattenSeq(ss), t[Len(ss)])
    BY <1>6, <1>7, <1>9, LeadsThrough
<1>12. FlattenSeq(ss) = AllRingData
    BY DEF ss, data, AllRingData
<1>13. FlattenSeq(ss) \in Seq(GuiMessage)
    BY <1>6, FlattenType
<1> QED BY <1>6, <1>7, <1>8, <1>10, <1>11, <1>12, <1>13 DEF Fills

-----------------------------------------------------------------------------
(***************************************************************************)
(* What the engine sends when it handles a message: either nothing of the  *)
(* rings and nothing of theirs changed but masks, or a whole rebuild.  Its *)
(* last POLY_SELECT tells the selected ring; without one the selected ring *)
(* is as before, unless a POLY_TOGGLE took it.                             *)
(***************************************************************************)
SameOutlines ==
  \A r \in Ring : rings'[r].shapes = rings[r].shapes /\ rings'[r].timeline = rings[r].timeline

Selects(b) ==
  \E x, y \in Seq(GuiMessage) : /\ b = x \o <<SelectMsg(selectedRing')>> \o y
                                /\ Silent(x, {"POLY_SELECT"})
                                /\ Silent(y, {"POLY_SELECT"})

Rebuilds(b) ==
  \E rest \in Seq(GuiMessage) :
    /\ b = <<RebuildMsg>> \o (AllRingData \o (<<SelectMsg(selectedRing')>> \o rest)) \o <<ReadyMsg>>
    /\ \A i \in 1 .. Len(rest) : rest[i].type \in Closing \ {"POLY_SELECT"}

Speaks(m, b) ==
  \/ /\ Silent(b, Rebuilding \cup {"POLY_SELECT"})
     /\ SameOutlines
     /\ m.type # "POLY_SET_SELECTED_RING"
     /\ selectedRing' = selectedRing \/ m.type = "POLY_TOGGLE"
  \/ Silent(b, Rebuilding) /\ SameOutlines /\ Selects(b)
  \/ Rebuilds(b)

LEMMA BothSilent ==
  ASSUME NEW S, NEW s \in Seq(S), NEW t \in Seq(S), NEW types
  PROVE  Silent(s \o t, types) <=> Silent(s, types) /\ Silent(t, types)
<1> DEFINE u == s \o t
           n == Len(s)
<1>1. /\ n \in Nat /\ Len(t) \in Nat /\ Len(u) = n + Len(t)
      /\ \A i \in 1 .. n : u[i] = s[i]
      /\ \A i \in 1 .. Len(t) : u[n + i] = t[i]
    BY BehindAnother
<1> HIDE DEF u, n
<1>2. ASSUME Silent(u, types)
      PROVE  Silent(s, types) /\ Silent(t, types)
  <2>1. ASSUME NEW i \in 1 .. Len(s) PROVE s[i].type \notin types
    <3>1. i \in 1 .. n /\ i \in 1 .. Len(u)
        BY <1>1 DEF n
    <3> QED BY <1>1, <1>2, <3>1 DEF Silent
  <2>2. ASSUME NEW i \in 1 .. Len(t) PROVE t[i].type \notin types
    <3>1. n + i \in 1 .. Len(u)
        BY <1>1
    <3> QED BY <1>1, <1>2, <3>1 DEF Silent
  <2> QED BY <2>1, <2>2 DEF Silent
<1>3. ASSUME Silent(s, types), Silent(t, types)
      PROVE  Silent(u, types)
  <2> SUFFICES ASSUME NEW i \in 1 .. Len(u) PROVE u[i].type \notin types
      BY DEF Silent
  <2>1. CASE i <= n
    <3>1. i \in 1 .. n /\ i \in 1 .. Len(s)
        BY <1>1, <2>1 DEF n
    <3> QED BY <1>1, <1>3, <3>1 DEF Silent
  <2>2. CASE ~ i <= n
    <3>1. i - n \in 1 .. Len(t) /\ n + (i - n) = i
        BY <1>1, <2>2
    <3> QED BY <1>1, <1>3, <3>1 DEF Silent
  <2> QED BY <2>1, <2>2
<1> QED BY <1>2, <1>3 DEF u

LEMMA OneSilent ==
  ASSUME NEW m, NEW types
  PROVE  Silent(<<m>>, types) <=> m.type \notin types
<1>1. Len(<<m>>) = 1 /\ <<m>>[1] = m /\ \A i \in 1 .. 1 : i = 1
    OBVIOUS
<1> QED BY <1>1 DEF Silent

LEMMA NothingSilent ==
  ASSUME NEW types
  PROVE  Silent(<< >>, types)
BY DEF Silent

LEMMA StaysSilent ==
  ASSUME NEW S, NEW q \in Seq(S), q # << >>, NEW types, Silent(q, types)
  PROVE  Silent(Tail(q), types)
<1>1. /\ Len(Tail(q)) = Len(q) - 1 /\ Len(q) \in Nat
      /\ \A i \in 1 .. Len(q) - 1 : Tail(q)[i] = q[i + 1] /\ i + 1 \in 1 .. Len(q)
    OBVIOUS
<1> QED BY <1>1 DEF Silent

LEMMA RingsAreSilent ==
  ASSUME rings' \in [Ring -> RingType], NEW types, types \cap Filling = {}
  PROVE  AllRingData \in Seq(GuiMessage) /\ Silent(AllRingData, types)
<1>1. AllRingData \in Seq(RingMessage)
    BY AllRingDataType
<1>2. AllRingData \in Seq(GuiMessage)
    BY <1>1 DEF RingMessage
<1>3. ASSUME NEW i \in 1 .. Len(AllRingData)
      PROVE  AllRingData[i].type \notin types
  <2>1. AllRingData[i] \in RingMessage
      BY <1>1
  <2> QED BY <2>1 DEF RingMessage
<1> QED BY <1>2, <1>3 DEF Silent

LEMMA MessagesSent ==
  /\ RebuildMsg \in GuiMessage /\ RebuildMsg.type = "POLY_REBUILD"
  /\ ReadyMsg \in GuiMessage /\ ReadyMsg.type = "POLY_READY"
  /\ \A r \in Nat : SelectMsg(r) \in GuiMessage /\ SelectMsg(r).type = "POLY_SELECT"
                      /\ SelectMsg(r).ring = r
  /\ \A r, p \in Nat : /\ SelectedPointMsg(r, p) \in GuiMessage
                       /\ SelectedPointMsg(r, p).type = "POLY_SELECTED_POINT"
                       /\ ToggleMsg(r, p) \in GuiMessage /\ ToggleMsg(r, p).type = "POLY_TOGGLE"
  /\ \A mode \in HardwareMode : /\ HwModeMsg(mode) \in GuiMessage
                                /\ HwModeMsg(mode).type = "POLY_HW_MODE"
  /\ \A x \in BOOLEAN : PlayStateMsg(x) \in GuiMessage /\ PlayStateMsg(x).type = "PLAY_STATE"
BY DEF GuiMessage, RebuildMsg, ReadyMsg, SelectMsg, SelectedPointMsg, ToggleMsg, HwModeMsg,
       PlayStateMsg

LEMMA Regrouped ==
  ASSUME NEW s \in Seq(GuiMessage), NEW t \in Seq(GuiMessage), NEW u \in Seq(GuiMessage)
  PROVE  s \o t \in Seq(GuiMessage) /\ (s \o t) \o u = s \o (t \o u)
BY ConcatAssociative, ConcatProperties

LEMMA RegroupedAll ==
  \A s \in Seq(GuiMessage), t \in Seq(GuiMessage), u \in Seq(GuiMessage) :
    (s \o t) \o u = s \o (t \o u)
BY Regrouped

LEMMA RebuildRegrouped ==
  ASSUME rings' \in [Ring -> RingType], NEW rest \in Seq(GuiMessage), selectedRing' \in Nat,
         \A i \in 1 .. Len(rest) : rest[i].type \in Closing \ {"POLY_SELECT"},
         NEW b, b = <<RebuildMsg>> \o AllRingData \o (<<SelectMsg(selectedRing')>> \o rest \o <<ReadyMsg>>)
  PROVE  b \in Seq(GuiMessage) /\ Rebuilds(b)
<1> DEFINE x == <<RebuildMsg>>
           d == AllRingData
           c == <<SelectMsg(selectedRing')>> \o rest
           z == <<ReadyMsg>>
<1>1. x \in Seq(GuiMessage) /\ z \in Seq(GuiMessage) /\ <<SelectMsg(selectedRing')>> \in Seq(GuiMessage)
    BY MessagesSent
<1>2. d \in Seq(GuiMessage)
  <2>1. AllRingData \in Seq(RingMessage)
      BY AllRingDataType
  <2> QED BY <2>1 DEF RingMessage
<1>3. c \in Seq(GuiMessage)
    BY <1>1
<1>4. b = (x \o d) \o (c \o z)
    OBVIOUS
<1> HIDE DEF x, d, c, z
<1>5. ASSUME NEW q \in Seq(GuiMessage)
      PROVE  (q \o c) \o z = q \o (c \o z) /\ q \o z \in Seq(GuiMessage)
  <2>1. \A t \in Seq(GuiMessage), u \in Seq(GuiMessage) : (q \o t) \o u = q \o (t \o u)
      BY RegroupedAll, Zenon
  <2>2. \A u \in Seq(GuiMessage) : (q \o c) \o u = q \o (c \o u)
      BY <1>3, <2>1, Zenon
  <2>3. (q \o c) \o z = q \o (c \o z)
      BY <1>1, <2>2, Zenon
  <2>4. q \o z \in Seq(GuiMessage)
      BY <1>1
  <2> QED BY <2>3, <2>4
<1>6. x \o d \in Seq(GuiMessage) /\ x \o (d \o c) \in Seq(GuiMessage)
    BY <1>1, <1>2, <1>3
<1>7. (x \o d) \o c = x \o (d \o c)
    BY <1>1, <1>2, <1>3, Regrouped, SMTT(20)
<1>8. ((x \o d) \o c) \o z = (x \o d) \o (c \o z) /\ (x \o (d \o c)) \o z \in Seq(GuiMessage)
    BY <1>5, <1>6, Zenon
<1>9. b = (x \o (d \o c)) \o z /\ b \in Seq(GuiMessage)
    BY <1>4, <1>7, <1>8, Zenon
<1> QED BY <1>9 DEF Rebuilds, x, d, c, z

(* The one POLY_SELECT of a rebuild.                                       *)
LEMMA RebuildSelects ==
  ASSUME rings' \in [Ring -> RingType], selectedRing' \in Nat, NEW b, Rebuilds(b)
  PROVE  Selects(b)
<1> DEFINE p == <<RebuildMsg>>
           d == AllRingData
           s == <<SelectMsg(selectedRing')>>
           z == <<ReadyMsg>>
           S == {"POLY_SELECT"}
<1>1. PICK rest \in Seq(GuiMessage) :
        b = p \o (d \o (s \o rest)) \o z
          /\ \A i \in 1 .. Len(rest) : rest[i].type \in Closing \ S
    BY DEF Rebuilds
<1>2. p \in Seq(GuiMessage) /\ z \in Seq(GuiMessage) /\ s \in Seq(GuiMessage)
    BY MessagesSent
<1>3. d \in Seq(GuiMessage) /\ Silent(d, S)
    BY RingsAreSilent DEF Filling
<1>4. Silent(p, S) /\ Silent(z, S) /\ Silent(rest, S)
  <2>1. Silent(p, S) /\ Silent(z, S)
      BY OneSilent, MessagesSent
  <2>2. Silent(rest, S)
      BY <1>1 DEF Silent
  <2> QED BY <2>1, <2>2
<1> HIDE DEF p, d, s, z, S
<1>5. p \o (d \o (s \o rest)) \o z = (p \o d) \o s \o (rest \o z)
  <2>0. p \in Seq(GuiMessage) /\ d \in Seq(GuiMessage)
      BY <1>2, <1>3
  <2>1. ASSUME NEW q \in Seq(GuiMessage)
        PROVE  (p \o d) \o q = p \o (d \o q)
      BY <2>0, Regrouped
  <2>2. ASSUME NEW q \in Seq(GuiMessage)
        PROVE  (q \o s) \o rest = q \o (s \o rest) /\ q \o s \in Seq(GuiMessage)
      BY <1>1, <1>2, Regrouped, SMTT(20)
  <2>3. ASSUME NEW q \in Seq(GuiMessage)
        PROVE  (q \o rest) \o z = q \o (rest \o z)
      BY <1>1, <1>2, Regrouped, SMTT(20)
  <2>4. s \o rest \in Seq(GuiMessage) /\ p \o d \in Seq(GuiMessage)
      BY <1>1, <1>2, <1>3, Regrouped
  <2>5. p \o (d \o (s \o rest)) = (p \o d) \o (s \o rest)
      BY <2>1, <2>4, Zenon
  <2>6. /\ (p \o d) \o (s \o rest) = ((p \o d) \o s) \o rest
        /\ (p \o d) \o s \in Seq(GuiMessage)
      BY <2>2, <2>4, Zenon
  <2>7. (((p \o d) \o s) \o rest) \o z = ((p \o d) \o s) \o (rest \o z)
      BY <2>3, <2>6, Zenon
  <2> QED BY <2>5, <2>6, <2>7, Zenon
<1>6. /\ p \o d \in Seq(GuiMessage) /\ rest \o z \in Seq(GuiMessage)
      /\ Silent(p \o d, S) /\ Silent(rest \o z, S)
    BY <1>2, <1>3, <1>4, BothSilent
<1> QED BY <1>1, <1>5, <1>6 DEF Selects, s, S

Tells(m) == \E b \in Seq(GuiMessage) : toGui' = toGui \o b /\ Speaks(m, b)

LEMMA SilenceTells ==
  ASSUME NEW m, toGui \in Seq(GuiMessage), UNCHANGED <<rings, selectedRing, toGui>>,
         m.type # "POLY_SET_SELECTED_RING"
  PROVE  Tells(m)
<1>1. << >> \in Seq(GuiMessage) /\ toGui' = toGui \o << >>
    OBVIOUS
<1>2. SameOutlines /\ selectedRing' = selectedRing
    BY DEF SameOutlines
<1> QED BY <1>1, <1>2, NothingSilent DEF Tells, Speaks

LEMMA OneTells ==
  ASSUME NEW m, NEW msg \in GuiMessage, msg.type \notin Rebuilding \cup {"POLY_SELECT"},
         SendsToGui(<<msg>>), SameOutlines, m.type # "POLY_SET_SELECTED_RING",
         selectedRing' = selectedRing \/ m.type = "POLY_TOGGLE"
  PROVE  Tells(m)
<1>1. <<msg>> \in Seq(GuiMessage) /\ toGui' = toGui \o <<msg>>
    BY DEF SendsToGui
<1> QED BY <1>1, OneSilent DEF Tells, Speaks

(* A short answer that begins with the selected ring.                      *)
LEMMA SelectTells ==
  ASSUME NEW m, selectedRing' \in Nat, NEW rest \in Seq(GuiMessage),
         Silent(rest, Rebuilding \cup {"POLY_SELECT"}),
         toGui' = toGui \o (<<SelectMsg(selectedRing')>> \o rest), SameOutlines
  PROVE  Tells(m)
<1> DEFINE s == <<SelectMsg(selectedRing')>>
           S == {"POLY_SELECT"}
<1>1. SelectMsg(selectedRing') \in GuiMessage /\ SelectMsg(selectedRing').type = "POLY_SELECT"
    BY MessagesSent
<1>2. s \in Seq(GuiMessage) /\ s \o rest \in Seq(GuiMessage) /\ << >> \o s \o rest = s \o rest
    BY <1>1
<1>3. "POLY_SELECT" \notin Rebuilding
    BY DEF Rebuilding, Filling
<1>4. Silent(s, Rebuilding)
    BY <1>1, <1>3, OneSilent
<1>5. Silent(rest, Rebuilding) /\ Silent(rest, S)
    BY DEF Silent
<1> HIDE DEF s
<1>6. Silent(s \o rest, Rebuilding)
    BY <1>2, <1>4, <1>5, BothSilent
<1>7. Selects(s \o rest)
  <2>1. << >> \in Seq(GuiMessage) /\ Silent(<< >>, S)
      BY NothingSilent
  <2> QED BY <1>2, <1>5, <2>1 DEF Selects, s
<1> QED BY <1>2, <1>6, <1>7 DEF Tells, Speaks, s

(* A handler that ends in sendFullRebuild, or GET_INITIAL_SETUP.           *)
RebuildsAll == \E b \in Seq(GuiMessage) : toGui' = toGui \o b /\ Rebuilds(b)

LEMMA RebuildIsSent ==
  ASSUME Sound, Sound', NEW r \in Ring, SendFullRebuild(r), UNCHANGED hardwareMode
  PROVE  RebuildsAll
<1> DEFINE sel == SelectMsg(selectedRing')
           point == SelectedPointMsg(selectedRing', selectedPoints'[selectedRing'])
           mode == HwModeMsg(hardwareMode)
           rest == <<point, mode>>
           b == <<RebuildMsg>> \o AllRingData \o (<<sel>> \o rest \o <<ReadyMsg>>)
<1>1. /\ selectedRing' \in Nat /\ selectedPoints'[selectedRing'] \in Nat
      /\ hardwareMode \in HardwareMode /\ rings' \in [Ring -> RingType]
    BY EngineAssumption DEF Sound, Ring
<1>2. /\ point \in GuiMessage /\ mode \in GuiMessage
      /\ point.type = "POLY_SELECTED_POINT" /\ mode.type = "POLY_HW_MODE"
    BY <1>1, MessagesSent
<1>3. toGui' = toGui \o (<<RebuildMsg>> \o AllRingData \o <<sel, point, mode, ReadyMsg>>)
    BY DEF SendFullRebuild, SendsToGui
<1> HIDE DEF point, mode, sel
<1>4. rest \in Seq(GuiMessage) /\ \A i \in 1 .. Len(rest) : rest[i].type \in Closing \ {"POLY_SELECT"}
    BY <1>2 DEF Closing
<1>5. <<sel, point, mode, ReadyMsg>> = <<sel>> \o rest \o <<ReadyMsg>>
    OBVIOUS
<1>6. toGui' = toGui \o b
    BY <1>3, <1>5
<1> HIDE DEF rest
<1>7. b \in Seq(GuiMessage) /\ Rebuilds(b)
    BY <1>1, <1>4, RebuildRegrouped DEF sel
<1> QED BY <1>6, <1>7 DEF RebuildsAll

LEMMA SetupIsSent ==
  ASSUME Sound, Sound', GetInitialSetup
  PROVE  RebuildsAll
<1> DEFINE sel == SelectMsg(selectedRing')
           point == SelectedPointMsg(selectedRing, selectedPoints'[selectedRing])
           play == PlayStateMsg(isPlaying)
           mode == HwModeMsg(hardwareMode)
           rest == <<point, play, mode>>
           b == <<RebuildMsg>> \o AllRingData \o (<<sel>> \o rest \o <<ReadyMsg>>)
<1>1. /\ selectedRing \in Nat /\ selectedPoints'[selectedRing] \in Nat /\ isPlaying \in BOOLEAN
      /\ hardwareMode \in HardwareMode /\ rings' \in [Ring -> RingType]
      /\ selectedRing' = selectedRing
    BY EngineAssumption DEF Sound, Ring, GetInitialSetup
<1>2. /\ point \in GuiMessage /\ mode \in GuiMessage /\ play \in GuiMessage
      /\ point.type = "POLY_SELECTED_POINT" /\ mode.type = "POLY_HW_MODE" /\ play.type = "PLAY_STATE"
    BY <1>1, MessagesSent
<1>3. toGui' = toGui \o (<<RebuildMsg>> \o AllRingData \o <<sel, point, play, mode, ReadyMsg>>)
    BY <1>1 DEF GetInitialSetup, SendsToGui
<1> HIDE DEF point, mode, sel, play
<1>4. rest \in Seq(GuiMessage) /\ \A i \in 1 .. Len(rest) : rest[i].type \in Closing \ {"POLY_SELECT"}
    BY <1>2 DEF Closing
<1>5. <<sel, point, play, mode, ReadyMsg>> = <<sel>> \o rest \o <<ReadyMsg>>
    OBVIOUS
<1>6. toGui' = toGui \o b
    BY <1>3, <1>5
<1> HIDE DEF rest
<1>7. b \in Seq(GuiMessage) /\ Rebuilds(b)
    BY <1>1, <1>4, RebuildRegrouped DEF sel
<1> QED BY <1>6, <1>7 DEF RebuildsAll

LEMMA RebuildTells ==
  ASSUME NEW m, RebuildsAll
  PROVE  Tells(m)
BY DEF RebuildsAll, Tells, Speaks

LEMMA SetSelectedRingTells ==
  ASSUME NEW m, Sound', NEW r, SetSelectedRing(r)
  PROVE  Tells(m)
<1> DEFINE point == SelectedPointMsg(selectedRing', selectedPoints'[selectedRing'])
<1>1. selectedRing' \in Nat /\ selectedPoints'[selectedRing'] \in Nat
    BY EngineAssumption DEF Sound, Ring
<1>2. point \in GuiMessage /\ point.type = "POLY_SELECTED_POINT"
    BY <1>1, MessagesSent
<1>3. toGui' = toGui \o <<SelectMsg(selectedRing'), point>> /\ SameOutlines
    BY DEF SetSelectedRing, SendsToGui, SameOutlines
<1> HIDE DEF point
<1>4. <<point>> \in Seq(GuiMessage) /\ Silent(<<point>>, Rebuilding \cup {"POLY_SELECT"})
  <2>1. point.type \notin Rebuilding \cup {"POLY_SELECT"}
      BY <1>2 DEF Rebuilding, Filling
  <2> QED BY <1>2, <2>1, OneSilent
<1>5. <<SelectMsg(selectedRing'), point>> = <<SelectMsg(selectedRing')>> \o <<point>>
    OBVIOUS
<1> QED BY <1>1, <1>3, <1>4, <1>5, SelectTells

LEMMA ToggledOutlines ==
  ASSUME Sound, NEW r \in Ring, NEW p, rings' = [rings EXCEPT ![r] = PointToggled(@, p)]
  PROVE  SameOutlines
<1>1. rings \in [Ring -> RingType]
    BY DEF Sound
<1>2. /\ PointToggled(rings[r], p).shapes = rings[r].shapes
      /\ PointToggled(rings[r], p).timeline = rings[r].timeline
    BY <1>1 DEF PointToggled, RingType
<1> QED BY <1>1, <1>2 DEF SameOutlines

LEMMA ToggleSelectedPointTells ==
  ASSUME NEW m, Sound, Sound', ToggleSelectedPoint
  PROVE  Tells(m)
<1> DEFINE p == Clamped(selectedPoints[selectedRing], rings[selectedRing])
           toggle == ToggleMsg(selectedRing, p)
           point == SelectedPointMsg(selectedRing, p)
           rest == <<toggle, point>>
<1>1. /\ selectedRing \in Nat /\ selectedRing \in Ring /\ selectedRing' = selectedRing
      /\ p = selectedPoints'[selectedRing] /\ p \in Nat
  <2>1. /\ selectedRing \in Nat /\ selectedRing \in Ring /\ selectedRing' = selectedRing
        /\ p = selectedPoints'[selectedRing]
      BY EngineAssumption DEF Sound, Ring, ToggleSelectedPoint
  <2>2. selectedPoints'[selectedRing] \in Nat
      BY <2>1 DEF Sound
  <2> QED BY <2>1, <2>2
<1>2. /\ toggle \in GuiMessage /\ toggle.type = "POLY_TOGGLE"
      /\ point \in GuiMessage /\ point.type = "POLY_SELECTED_POINT"
  <2> HIDE DEF p
  <2> QED BY <1>1, MessagesSent
<1>3. toGui' = toGui \o <<SelectMsg(selectedRing'), toggle, point>>
    BY <1>1 DEF ToggleSelectedPoint, SendsToGui
<1>4. SameOutlines
    BY <1>1, ToggledOutlines DEF ToggleSelectedPoint
<1> HIDE DEF toggle, point
<1>5. rest \in Seq(GuiMessage) /\ Silent(rest, Rebuilding \cup {"POLY_SELECT"})
  <2>1. /\ toggle.type \notin Rebuilding \cup {"POLY_SELECT"}
        /\ point.type \notin Rebuilding \cup {"POLY_SELECT"}
      BY <1>2 DEF Rebuilding, Filling
  <2>2. Len(rest) = 2 /\ rest[1] = toggle /\ rest[2] = point /\ \A i \in 1 .. 2 : i = 1 \/ i = 2
      OBVIOUS
  <2>3. rest \in Seq(GuiMessage)
      BY <1>2
  <2> HIDE DEF rest
  <2> QED BY <2>1, <2>2, <2>3 DEF Silent
<1>6. <<SelectMsg(selectedRing'), toggle, point>> = <<SelectMsg(selectedRing')>> \o rest
    OBVIOUS
<1> HIDE DEF rest
<1> QED BY <1>1, <1>3, <1>4, <1>5, <1>6, SelectTells

LEMMA SelectPointDeltaTells ==
  ASSUME NEW m, Sound, Sound', toGui \in Seq(GuiMessage), NEW amount, SelectPointDelta(amount),
         m.type # "POLY_SET_SELECTED_RING"
  PROVE  Tells(m)
<1>1. CASE PointCount(rings[selectedRing]) = 0
    BY <1>1, SilenceTells DEF SelectPointDelta
<1>2. CASE PointCount(rings[selectedRing]) # 0
  <2> DEFINE point == SelectedPointMsg(selectedRing, selectedPoints'[selectedRing])
  <2>1. SendsToGui(<<point>>) /\ SameOutlines /\ selectedRing' = selectedRing
      BY <1>2 DEF SelectPointDelta, SameOutlines
  <2>2. selectedRing \in Nat /\ selectedPoints'[selectedRing] \in Nat
      BY EngineAssumption DEF Sound, Ring
  <2>3. point \in GuiMessage /\ point.type = "POLY_SELECTED_POINT"
      BY <2>2, MessagesSent
  <2>4. "POLY_SELECTED_POINT" \notin Rebuilding \cup {"POLY_SELECT"}
      BY DEF Rebuilding, Filling
  <2> HIDE DEF point
  <2> QED BY <2>1, <2>3, <2>4, OneTells
<1> QED BY <1>1, <1>2

LEMMA ToggleTells ==
  ASSUME NEW m, Sound, Sound', NEW r \in Ring, NEW p, Toggle(r, p), m.type = "POLY_TOGGLE"
  PROVE  Tells(m)
<1> DEFINE point == SelectedPointMsg(r, selectedPoints'[r])
<1>1. SendsToGui(<<point>>) /\ SameOutlines
    BY ToggledOutlines DEF Toggle
<1>2. r \in Nat /\ selectedPoints'[r] \in Nat
    BY EngineAssumption DEF Sound, Ring
<1>3. point \in GuiMessage /\ point.type = "POLY_SELECTED_POINT"
    BY <1>2, MessagesSent
<1>4. "POLY_SELECTED_POINT" \notin Rebuilding \cup {"POLY_SELECT"}
    BY DEF Rebuilding, Filling
<1> HIDE DEF point
<1> QED BY <1>1, <1>3, <1>4, OneTells

LEMMA HandleTells ==
  ASSUME NEW m \in Command, Sound, toGui \in Seq(GuiMessage), Handle(m)
  PROVE  Sound' /\ Tells(m)
<1>0. Sound'
    BY HandleKeeps DEF Keeps
<1> SUFFICES Tells(m)
    BY <1>0
<1>u. CASE UNCHANGED engineVars /\ m.type # "POLY_SET_SELECTED_RING"
    BY <1>u, SilenceTells DEF engineVars
<1>q. CASE UNCHANGED <<rings, selectedRing, toGui>> /\ m.type # "POLY_SET_SELECTED_RING"
    BY <1>q, SilenceTells
<1>r. ASSUME NEW r \in Ring, SendFullRebuild(r), UNCHANGED hardwareMode
      PROVE  Tells(m)
    BY <1>0, <1>r, RebuildIsSent, RebuildTells
<1>1. CASE GetInitialSetup
    BY <1>0, <1>1, SetupIsSent, RebuildTells
<1>2. ASSUME NEW playing \in BOOLEAN, SetPlaying(playing), m.type # "POLY_SET_SELECTED_RING"
      PROVE  Tells(m)
  <2>1. /\ SendsToGui(<<PlayStateMsg(playing)>>) /\ SameOutlines /\ selectedRing' = selectedRing
        /\ PlayStateMsg(playing) \in GuiMessage
        /\ PlayStateMsg(playing).type \notin Rebuilding \cup {"POLY_SELECT"}
      BY <1>2, MessagesSent DEF SetPlaying, SameOutlines, Rebuilding, Filling
  <2> QED BY <1>2, <2>1, OneTells
<1>3. CASE m.type \in {"POLY_NAV_LEFT", "POLY_NAV_RIGHT"} /\ Navigate(m.type)
  <2>1. /\ SendsToGui(<<[type |-> m.type]>>) /\ SameOutlines /\ selectedRing' = selectedRing
        /\ [type |-> m.type] \in GuiMessage
        /\ [type |-> m.type].type \notin Rebuilding \cup {"POLY_SELECT"}
        /\ m.type # "POLY_SET_SELECTED_RING"
      BY <1>3 DEF Navigate, engineState, SameOutlines, Rebuilding, Filling, GuiMessage
  <2> QED BY <2>1, OneTells
<1>4. CASE SetSelectedRing(m.ring)
    BY <1>0, <1>4, SetSelectedRingTells
<1>5. CASE m.type = "POLY_HW_MODE" /\ SetHwMode(m.mode)
  <2>1. hardwareMode' \in HardwareMode
      BY <1>0 DEF Sound
  <2>2. /\ SendsToGui(<<HwModeMsg(hardwareMode')>>) /\ SameOutlines /\ selectedRing' = selectedRing
        /\ HwModeMsg(hardwareMode') \in GuiMessage
        /\ HwModeMsg(hardwareMode').type \notin Rebuilding \cup {"POLY_SELECT"}
        /\ m.type # "POLY_SET_SELECTED_RING"
      BY <1>5, <2>1, MessagesSent DEF SetHwMode, SameOutlines, Rebuilding, Filling
  <2> QED BY <2>2, OneTells
<1>6. ASSUME NEW amount, SelectPointDelta(amount), m.type # "POLY_SET_SELECTED_RING"
      PROVE  Tells(m)
    BY <1>0, <1>6, SelectPointDeltaTells
<1>7. ASSUME NEW amount, AdjustPoints(amount) \/ RotateSelected(amount),
             m.type # "POLY_SET_SELECTED_RING"
      PROVE  Tells(m)
  <2>1. selectedRing \in Ring /\ UNCHANGED hardwareMode
      BY <1>7 DEF Sound, AdjustPoints, RotateSelected
  <2>2. SendFullRebuild(selectedRing) \/ UNCHANGED <<rings, selectedRing, toGui>>
      BY <1>7 DEF AdjustPoints, RotateSelected
  <2> QED BY <1>7, <1>q, <1>r, <2>1, <2>2
<1>8. CASE m.type = "POLY_ENCODER_DELTA" /\ EncoderDelta(m.amount)
    BY <1>8, <1>u, <1>6, <1>7 DEF EncoderDelta
<1>9. CASE ToggleSelectedPoint
    BY <1>0, <1>9, ToggleSelectedPointTells
<1>10. CASE m.type = "POLY_ENCODER_CLICK" /\ EncoderClick
    BY <1>10, <1>9, <1>u DEF EncoderClick
<1>11. CASE m.type = "POLY_TOGGLE" /\ ForRing(m.ring, Toggle(m.ring, m.point))
    BY <1>0, <1>11, <1>u, ToggleTells DEF ForRing
<1>13. CASE m.type = "POLY_ADD_SHAPE" /\ ForRing(m.ring, AddShape(m.ring, m.subdivision, m.offset))
    BY <1>13, <1>u, <1>r DEF ForRing, AddShape
<1>14. CASE m.type = "POLY_REMOVE_SHAPE" /\ ForRing(m.ring, RemoveShape(m.ring, m.index))
    BY <1>14, <1>u, <1>r DEF ForRing, RemoveShape
<1>15. CASE /\ m.type = "POLY_MOD_SHAPE"
            /\ ForRing(m.ring, ModShape(m.ring, m.index, m.subdivision, m.offset))
    BY <1>15, <1>u, <1>r DEF ForRing, ModShape
<1>16. CASE m.type = "POLY_ROTATE" /\ ForRing(m.ring, Rotate(m.ring, m.amount))
    BY <1>16, <1>u, <1>r DEF ForRing, Rotate
<1> QED BY <1>1, <1>2, <1>3, <1>4, <1>5, <1>6, <1>7, <1>8, <1>9, <1>10, <1>11, <1>13,
           <1>14, <1>15, <1>16 DEF Handle

-----------------------------------------------------------------------------
(***************************************************************************)
(* What is drawn of a set: its rings but for their masks.                  *)
(***************************************************************************)
Outline(ring) == Bare(FALSE, ring)

Alike(a, b) ==
  /\ a.ringCount = b.ringCount
  /\ Len(a.rings) = Len(b.rings)
  /\ \A i \in 1 .. Len(b.rings) : Outline(a.rings[i]) = Outline(b.rings[i])

LEMMA SlotIsAlike ==
  ASSUME NEW modes, NEW set \in ShownSet(modes), NEW n, NEW mode
  PROVE  /\ Alike(set, set)
         /\ Alike([set EXCEPT !.slotSelected = n], set)
         /\ Alike([set EXCEPT !.playing = n], set)
         /\ Alike([set EXCEPT !.mode = mode], set)
<1>1. /\ [set EXCEPT !.slotSelected = n].rings = set.rings
      /\ [set EXCEPT !.slotSelected = n].ringCount = set.ringCount
      /\ [set EXCEPT !.playing = n].rings = set.rings
      /\ [set EXCEPT !.playing = n].ringCount = set.ringCount
      /\ [set EXCEPT !.mode = mode].rings = set.rings
      /\ [set EXCEPT !.mode = mode].ringCount = set.ringCount
    BY DEF ShownSet
<1> QED BY <1>1 DEF Alike

LEMMA SelectRingIsAlike ==
  ASSUME NEW modes, NEW set \in ShownSet(modes), NEW i
  PROVE  Alike(UiSelectRing(set, i), set)
<1>1. /\ UiSelectRing(set, i).rings = set.rings
      /\ UiSelectRing(set, i).ringCount = set.ringCount
    BY DEF UiSelectRing, ShownSet
<1> HIDE DEF UiSelectRing
<1> QED BY <1>1 DEF Alike

LEMMA SelectPointIsAlike ==
  ASSUME NEW modes, NEW set \in ShownSet(modes), NEW i, NEW p
  PROVE  Alike(UiSelectPoint(set, i, p), set)
<1>1. /\ UiSelectPoint(set, i, p).rings = set.rings
      /\ UiSelectPoint(set, i, p).ringCount = set.ringCount
    BY DEF UiSelectPoint, ShownSet
<1> QED BY <1>1 DEF Alike

LEMMA ToggledOutline ==
  ASSUME NEW ring \in RingType, NEW p
  PROVE  Outline(PointToggled(ring, p)) = Outline(ring)
<1>1. PointToggled(ring, p).shapes = ring.shapes /\ PointToggled(ring, p).timeline = ring.timeline
    BY DEF PointToggled, RingType
<1> QED BY <1>1 DEF Outline, Bare

LEMMA ToggleIsAlike ==
  ASSUME NEW modes, NEW set \in ShownSet(modes), NEW i \in Nat, NEW p
  PROVE  Alike(UiToggle(set, i, p), set)
<1> DEFINE ring == PointToggled(set.rings[i + 1], p)
           rs == set.rings
           toggled == UiToggle(set, i, p)
<1>1. CASE i < Len(rs)
  <2>0. rs[i + 1] \in RingType /\ rs \in Seq(ShownRings)
      BY <1>1, RingOfSet DEF ShownSet
  <2>1. rs[i + 1] \in RingType /\ rs \in Seq(ShownRings) /\ i + 1 \in 1 .. Len(rs)
    <3> HIDE DEF rs
    <3> QED BY <1>1, <2>0
  <2>2. Outline(ring) = Outline(rs[i + 1])
      BY <2>1, ToggledOutline
  <2>3. toggled.rings = [rs EXCEPT ![i + 1] = ring] /\ toggled.ringCount = set.ringCount
      BY <1>1 DEF UiToggle, ShownSet
  <2> HIDE DEF ring, toggled, rs
  <2>4. Len([rs EXCEPT ![i + 1] = ring]) = Len(rs)
      BY <2>1
  <2>5. \A j \in 1 .. Len(rs) : [rs EXCEPT ![i + 1] = ring][j] = IF j = i + 1 THEN ring ELSE rs[j]
      BY <2>1
  <2>6. Len(toggled.rings) = Len(rs)
        /\ \A j \in 1 .. Len(rs) : Outline(toggled.rings[j]) = Outline(rs[j])
      BY <2>2, <2>3, <2>4, <2>5
  <2> QED BY <2>3, <2>6 DEF Alike, rs, toggled
<1>2. CASE ~ i < Len(rs)
    BY <1>2 DEF UiToggle, Alike
<1> QED BY <1>1, <1>2 DEF rs

LEMMA AlikeAgain ==
  ASSUME NEW a, NEW b, NEW c, Alike(a, b), Alike(b, c)
  PROVE  Alike(a, c)
BY DEF Alike

(***************************************************************************)
(* What POLY_READY makes of the rings c: as many sets as they need, each   *)
(* with its share of them.                                                 *)
(***************************************************************************)
SetsNeeded == (NumRings + RingsPerSet - 1) \div RingsPerSet

Held(s) == IF FirstRing(s) + RingsPerSet <= NumRings THEN RingsPerSet ELSE NumRings - FirstRing(s)

SetShows(c, s, set) ==
  /\ set.ringCount = Held(s)
  /\ Len(set.rings) = Held(s)
  /\ \A i \in 1 .. Held(s) : Outline(set.rings[i]) = c[FirstRing(s) + i]

Layout(c) ==
  /\ Len(c) = NumRings
  /\ Seen(FALSE, staged) = c
  /\ Len(sets) = SetsNeeded
  /\ \A s \in 1 .. Len(sets) : SetShows(c, s - 1, sets[s])

SameDrawn ==
  /\ staged' = staged
  /\ Len(sets') = Len(sets)
  /\ \A s \in 1 .. Len(sets) : Alike(sets'[s], sets[s])

(* The staging area and what is drawn of it survive the step.              *)
Undisturbed ==
  /\ Seen(FALSE, staged') = Seen(FALSE, staged)
  /\ sets = << >> => sets' = << >>
  /\ \A c : Layout(c) => Layout(c)'

LEMMA SameDrawnUndisturbed ==
  ASSUME NEW modes, CarouselSound(modes), CarouselSound(modes)', SameDrawn
  PROVE  Undisturbed
<1>0. Len(sets') = Len(sets) /\ sets \in Seq(ShownSet(modes)) /\ sets' \in Seq(ShownSet(modes))
    BY DEF CarouselSound, SameDrawn
<1>1. sets = << >> => sets' = << >>
    BY <1>0
<1>2. ASSUME NEW c, Layout(c)
      PROVE  Layout(c)'
  <2>1. Seen(FALSE, staged)' = c
    <3>1. Seen(FALSE, staged') = Seen(FALSE, staged)
        BY DEF SameDrawn
    <3> QED BY <1>2, <3>1 DEF Layout
  <2>2. Len(sets') = SetsNeeded
      BY <1>2 DEF Layout, SameDrawn
  <2>3. ASSUME NEW s \in 1 .. Len(sets')
        PROVE  SetShows(c, s - 1, sets'[s])
    <3>1. s \in 1 .. Len(sets)
        BY <1>0
    <3>2. SetShows(c, s - 1, sets[s]) /\ Alike(sets'[s], sets[s])
        BY <1>2, <3>1 DEF Layout, SameDrawn
    <3> QED BY <3>2 DEF SetShows, Alike
  <2>4. Len(c) = NumRings
      BY <1>2 DEF Layout
  <2> QED BY <2>1, <2>2, <2>3, <2>4 DEF Layout
<1>3. Seen(FALSE, staged') = Seen(FALSE, staged)
    BY DEF SameDrawn
<1> QED BY <1>1, <1>2, <1>3 DEF Undisturbed

LEMMA NothingDrawn ==
  ASSUME NEW modes, CarouselSound(modes), UNCHANGED <<staged, sets>>
  PROVE  SameDrawn
<1>1. \A s \in 1 .. Len(sets) : sets[s] \in ShownSet(modes)
    BY DEF CarouselSound
<1>2. \A s \in 1 .. Len(sets) : Alike(sets[s], sets[s])
    BY DEF Alike
<1> QED BY <1>2 DEF SameDrawn

LEMMA OneSetDrawn ==
  ASSUME NEW modes, CarouselSound(modes), NEW s \in 1 .. Len(sets), NEW set, Alike(set, sets[s]),
         sets' = [sets EXCEPT ![s] = set], UNCHANGED staged
  PROVE  SameDrawn
<1>1. sets \in Seq(ShownSet(modes))
    BY DEF CarouselSound
<1>2. Len(sets') = Len(sets) /\ \A t \in 1 .. Len(sets) : sets'[t] = IF t = s THEN set ELSE sets[t]
    BY <1>1
<1>3. \A t \in 1 .. Len(sets) : Alike(sets[t], sets[t])
    BY DEF Alike
<1> QED BY <1>2, <1>3 DEF SameDrawn

LEMMA EverySetDrawn ==
  ASSUME NEW modes, CarouselSound(modes), UNCHANGED staged,
         \/ \E playing : sets' = [s \in DOMAIN sets |-> [sets[s] EXCEPT !.playing = playing]]
         \/ \E mode : sets' = [s \in DOMAIN sets |-> [sets[s] EXCEPT !.mode = mode]]
  PROVE  SameDrawn
<1>1. DOMAIN sets = 1 .. Len(sets) /\ Len(sets) \in Nat
      /\ \A s \in 1 .. Len(sets) : sets[s] \in ShownSet(modes)
    BY DEF CarouselSound
<1>2. ASSUME NEW x, NEW s \in 1 .. Len(sets)
      PROVE  Alike([sets[s] EXCEPT !.playing = x], sets[s]) /\ Alike([sets[s] EXCEPT !.mode = x], sets[s])
    BY <1>1, SlotIsAlike
<1>3. \A s \in 1 .. Len(sets) : Alike(sets'[s], sets[s])
  <2>1. ASSUME NEW x, sets' = [s \in 1 .. Len(sets) |-> [sets[s] EXCEPT !.playing = x]],
               NEW s \in 1 .. Len(sets)
        PROVE  Alike(sets'[s], sets[s])
      BY <1>2, <2>1
  <2>2. ASSUME NEW x, sets' = [s \in 1 .. Len(sets) |-> [sets[s] EXCEPT !.mode = x]],
               NEW s \in 1 .. Len(sets)
        PROVE  Alike(sets'[s], sets[s])
      BY <1>2, <2>2
  <2> QED BY <1>1, <2>1, <2>2
<1>4. Len(sets') = Len(sets)
  <2>1. CASE \E x : sets' = [s \in 1 .. Len(sets) |-> [sets[s] EXCEPT !.playing = x]]
      BY <1>1, <2>1
  <2>2. CASE \E x : sets' = [s \in 1 .. Len(sets) |-> [sets[s] EXCEPT !.mode = x]]
      BY <1>1, <2>2
  <2> QED BY <1>1, <2>1, <2>2
<1> QED BY <1>3, <1>4 DEF SameDrawn

(* The messages about the selection, the points, the mode and the playhead. *)
LEMMA MessageDrawn ==
  ASSUME NEW modes, CarouselSound(modes), NEW m \in GuiMessage, HandleGui(m),
         m.type \notin Rebuilding \cup {"POLY_NAV_LEFT", "POLY_NAV_RIGHT"}
  PROVE  SameDrawn
<1>0. m.type \notin {"POLY_RING", "POLY_RING_SHAPE", "POLY_RING_TIMELINE", "POLY_RING_ACTIVE",
                     "POLY_REBUILD", "POLY_READY"}
    BY DEF Rebuilding, Filling
<1>1. ASSUME NEW playing, OnPlayState(playing)
      PROVE  SameDrawn
    BY <1>1, EverySetDrawn DEF OnPlayState
<1>2. CASE m.type = "POLY_PLAYHEAD" /\ OnPlayhead
    BY <1>1, <1>2, NothingDrawn DEF OnPlayhead, guiVars
<1>3. CASE m.type = "POLY_HW_MODE" /\ OnHwMode(m.mode)
    BY <1>3, EverySetDrawn DEF OnHwMode
<1>4. CASE m.type = "POLY_TOGGLE" /\ OnToggle(m.ring, m.point)
  <2> DEFINE r == m.ring
             set == sets[SetOf(r) + 1]
             toggled == UiToggle(set, LocalOf(r), m.point)
             new == UiSelectPoint(toggled, LocalOf(r), m.point)
  <2>1. r \in Nat /\ m.point \in Nat
      BY <1>4, MessageFields
  <2>2. CASE SetOf(r) < Len(sets)
    <3>1. SetOf(r) + 1 \in 1 .. Len(sets) /\ set \in ShownSet(modes) /\ LocalOf(r) \in Nat
        BY <2>1, <2>2, SetOfRing
    <3>2. toggled \in ShownSet(modes) /\ Alike(toggled, set)
        BY <2>1, <3>1, UiToggleShown, ToggleIsAlike
    <3>3. Alike(new, toggled)
        BY <3>2, SelectPointIsAlike
    <3>4. Alike(new, set)
        BY <3>2, <3>3, AlikeAgain
    <3>5. sets' = [sets EXCEPT ![SetOf(r) + 1] = new] /\ UNCHANGED staged
        BY <1>4, <2>2 DEF OnToggle
    <3> HIDE DEF new
    <3> QED BY <3>1, <3>4, <3>5, OneSetDrawn
  <2>3. CASE ~ SetOf(r) < Len(sets)
      BY <1>4, <2>3, NothingDrawn DEF OnToggle
  <2> QED BY <2>2, <2>3
<1>5. CASE m.type = "POLY_SELECTED_POINT" /\ OnSelectedPoint(m.ring, m.point)
  <2> DEFINE r == m.ring
             set == sets[SetOf(r) + 1]
             new == UiSelectPoint(set, LocalOf(r), m.point)
  <2>1. r \in Nat
      BY <1>5, MessageFields
  <2>2. CASE SetOf(r) < Len(sets)
    <3>1. SetOf(r) + 1 \in 1 .. Len(sets) /\ set \in ShownSet(modes)
        BY <2>1, <2>2, SetOfRing
    <3>2. Alike(new, set)
        BY <3>1, SelectPointIsAlike
    <3>3. sets' = [sets EXCEPT ![SetOf(r) + 1] = new] /\ UNCHANGED staged
        BY <1>5, <2>2 DEF OnSelectedPoint
    <3> HIDE DEF new
    <3> QED BY <3>1, <3>2, <3>3, OneSetDrawn
  <2>3. CASE ~ SetOf(r) < Len(sets)
      BY <1>5, <2>3, NothingDrawn DEF OnSelectedPoint
  <2> QED BY <2>2, <2>3
<1>6. CASE m.type = "POLY_SELECT" /\ OnSelect(m.ring)
  <2> DEFINE r == m.ring
             set == sets[SetOf(r) + 1]
             selected == UiSelectRing(set, LocalOf(r))
             new == [selected EXCEPT !.slotSelected = LocalOf(r)]
  <2>1. r \in Nat
      BY <1>6, MessageFields
  <2>2. CASE SetOf(r) < Len(sets)
    <3>1. SetOf(r) + 1 \in 1 .. Len(sets) /\ set \in ShownSet(modes) /\ LocalOf(r) \in Nat
        BY <2>1, <2>2, SetOfRing
    <3>2. selected \in ShownSet(modes) /\ Alike(selected, set)
        BY <3>1, UiSelectRingShown, SelectRingIsAlike
    <3>3. Alike(new, selected)
        BY <3>2, SlotIsAlike
    <3>4. Alike(new, set)
        BY <3>2, <3>3, AlikeAgain
    <3>5. sets' = [sets EXCEPT ![SetOf(r) + 1] = new] /\ UNCHANGED staged
        BY <1>6, <2>2 DEF OnSelect
    <3> HIDE DEF new
    <3> QED BY <3>1, <3>4, <3>5, OneSetDrawn
  <2>3. CASE ~ SetOf(r) < Len(sets)
      BY <1>6, <2>3, NothingDrawn DEF OnSelect
  <2> QED BY <2>2, <2>3
<1> QED BY <1>0, <1>1, <1>2, <1>3, <1>4, <1>5, <1>6 DEF HandleGui

LEMMA TouchDrawn ==
  ASSUME NEW modes, CarouselSound(modes), sets # << >>, NEW kind, Touch(kind)
  PROVE  SameDrawn
<1>0. Centre \in ShownSet(modes) /\ currentSet + 1 \in 1 .. Len(sets)
    BY CentreIsShown
<1>1. ASSUME NEW set, Alike(set, Centre), sets' = [sets EXCEPT ![currentSet + 1] = set],
             UNCHANGED staged
      PROVE  SameDrawn
    BY <1>0, <1>1, OneSetDrawn DEF Centre
<1>2. ASSUME NEW i \in 0 .. RingsPerSet - 1, NEW p \in 0 .. 1, TouchDot(i, p)
      PROVE  SameDrawn
  <2> DEFINE chosen == UiSelectPoint(Centre, i, p)
             new == UiToggle(chosen, i, p)
  <2>1. i \in Nat /\ p \in Nat
      BY CarouselAssumption
  <2>2. chosen \in ShownSet(modes) /\ Alike(chosen, Centre)
      BY <1>0, <2>1, UiSelectPointShown, SelectPointIsAlike
  <2>3. Alike(new, chosen)
      BY <2>1, <2>2, ToggleIsAlike
  <2>4. Alike(new, Centre)
      BY <2>2, <2>3, AlikeAgain
  <2>5. sets' = [sets EXCEPT ![currentSet + 1] = new] /\ UNCHANGED staged
      BY <1>2 DEF TouchDot, Centre
  <2> HIDE DEF new
  <2> QED BY <1>1, <2>4, <2>5
<1>3. ASSUME NEW i \in 0 .. RingsPerSet - 1, TouchRingLabel(i)
      PROVE  SameDrawn
  <2> DEFINE selected == UiSelectRing(Centre, i)
             new == [selected EXCEPT !.slotSelected = i]
  <2>1. i \in Nat
      BY CarouselAssumption
  <2>2. selected \in ShownSet(modes) /\ Alike(selected, Centre)
      BY <1>0, <2>1, UiSelectRingShown, SelectRingIsAlike
  <2>3. Alike(new, selected)
      BY <2>2, SlotIsAlike
  <2>4. Alike(new, Centre)
      BY <2>2, <2>3, AlikeAgain
  <2>5. sets' = [sets EXCEPT ![currentSet + 1] = new] /\ UNCHANGED staged
      BY <1>3 DEF TouchRingLabel, Centre
  <2> HIDE DEF new
  <2> QED BY <1>1, <2>4, <2>5
<1>4. ASSUME NEW mode, TouchMode(mode)
      PROVE  SameDrawn
  <2> DEFINE new == [Centre EXCEPT !.mode = mode]
  <2>1. Alike(new, Centre)
      BY <1>0, SlotIsAlike
  <2>2. sets' = [sets EXCEPT ![currentSet + 1] = new] /\ UNCHANGED staged
      BY <1>4 DEF TouchMode, Centre
  <2> HIDE DEF new
  <2> QED BY <1>1, <2>1, <2>2
<1>5. ASSUME NEW m, Asks(m)
      PROVE  SameDrawn
    BY <1>5, NothingDrawn DEF Asks, guiState
<1> QED BY <1>2, <1>3, <1>4, <1>5
        DEF Touch, TouchAddShape, TouchRemoveShape, TouchSubdivision, TouchRotate

LEMMA KeyPlayDrawn ==
  ASSUME NEW modes, CarouselSound(modes), KeyPlay
  PROVE  SameDrawn
BY EverySetDrawn DEF KeyPlay

(***************************************************************************)
(* A set filled from the staging area shows its share of it.               *)
(***************************************************************************)
LEMMA SeenParts ==
  ASSUME NEW staging \in Seq(RingType), NEW c, Seen(FALSE, staging) = c
  PROVE  Len(c) = Len(staging) /\ \A i \in 1 .. Len(staging) : c[i] = Outline(staging[i])
<1> DEFINE n == Len(staging)
           outline(i) == Bare(FALSE, staging[i])
<1>1. n \in Nat
    OBVIOUS
<1>2. c = [i \in 1 .. n |-> outline(i)]
    BY DEF Seen
<1>3. \A i \in 1 .. n : c[i] = outline(i)
    BY <1>2
<1> HIDE DEF outline, n
<1>4. Len(c) = n
    BY <1>1, <1>2
<1> QED BY <1>3, <1>4 DEF n, outline, Outline

LEMMA ShownOutline ==
  ASSUME NEW ring \in RingType
  PROVE  Outline(ShownRing(ring)) = Outline(ring)
<1>1. ShownRing(ring).shapes = ring.shapes /\ ShownRing(ring).timeline = ring.timeline
    BY DEF ShownRing, RingType
<1> QED BY <1>1 DEF Outline, Bare

LEMMA HeldType ==
  ASSUME NEW s \in Nat, FirstRing(s) < NumRings
  PROVE  /\ Held(s) \in Nat /\ Held(s) > 0 /\ FirstRing(s) \in Nat
         /\ FirstRing(s) + Held(s) <= NumRings
         /\ Held(s) <= RingsPerSet
<1>1. FirstRing(s) \in Nat /\ NumRings \in Nat /\ RingsPerSet \in Nat /\ RingsPerSet > 0
    BY EngineAssumption, CarouselAssumption, RingNumbers
<1> QED BY <1>1 DEF Held

LEMMA PopulatedShows ==
  ASSUME NEW modes, NEW set \in ShownSet(modes), NEW s \in Nat, FirstRing(s) < NumRings,
         NEW staging \in Seq(RingType), NEW c, Seen(FALSE, staging) = c, Len(c) = NumRings,
         set.ringCount = Held(s)
  PROVE  SetShows(c, s, Populated(set, s, staging))
<1> DEFINE first == FirstRing(s)
           n == Held(s)
           rs == [i \in 1 .. n |-> ShownRing(staging[first + i])]
<1>1. /\ first \in Nat /\ n \in Nat /\ first + n <= NumRings /\ NumRings \in Nat
      /\ Len(staging) = NumRings /\ \A i \in 1 .. NumRings : c[i] = Outline(staging[i])
  <2>1. Len(c) = Len(staging) /\ \A i \in 1 .. Len(staging) : c[i] = Outline(staging[i])
      BY SeenParts
  <2> QED BY <2>1, EngineAssumption, HeldType
<1>2. Populated(set, s, staging).rings = rs /\ Populated(set, s, staging).ringCount = set.ringCount
  <2>1. (IF first + set.ringCount <= Len(staging) THEN set.ringCount
         ELSE IF first < Len(staging) THEN Len(staging) - first ELSE 0) = n
      BY <1>1
  <2> HIDE DEF n
  <2> QED BY <2>1 DEF Populated, ShownSet
<1> HIDE DEF first, n
<1>3. rs = [i \in 1 .. n |-> rs[i]] /\ \A i \in 1 .. n : rs[i] = ShownRing(staging[first + i])
    OBVIOUS
<1>4. ASSUME NEW i \in 1 .. n
      PROVE  rs[i] \in ShownRings /\ Outline(rs[i]) = c[first + i]
  <2>1. first + i \in 1 .. NumRings
      BY <1>1
  <2>2. staging[first + i] \in RingType
      BY <1>1, <2>1
  <2>3. ShownRing(staging[first + i]) \in ShownRings
      BY <2>2, ShownRingIsShown
  <2>4. Outline(ShownRing(staging[first + i])) = Outline(staging[first + i])
      BY <2>2, ShownOutline
  <2> HIDE DEF rs
  <2> QED BY <1>1, <1>3, <2>1, <2>3, <2>4
<1> HIDE DEF rs
<1>5. Len(rs) = n
    BY <1>1, <1>3, <1>4, SeqOfParts
<1> QED BY <1>2, <1>4, <1>5 DEF SetShows, n, first

LEMMA AlikeShows ==
  ASSUME NEW a, NEW b, Alike(a, b), NEW c, NEW s, SetShows(c, s, b)
  PROVE  SetShows(c, s, a)
BY DEF Alike, SetShows

(* Writing masks back does not change what is seen without them.           *)
LEMMA SyncedSeen ==
  ASSUME NEW s, NEW staging \in Seq(RingType)
  PROVE  Seen(FALSE, Synced(staging, s)) = Seen(FALSE, staging)
<1> DEFINE inSet(i) == SetOf(i - 1) = s /\ LocalOf(i - 1) < sets[s + 1].ringCount
           mask(i) == IF LocalOf(i - 1) < Len(sets[s + 1].rings)
                      THEN sets[s + 1].rings[LocalOf(i - 1) + 1].active ELSE << >>
           ring(i) == IF inSet(i) THEN [staging[i] EXCEPT !.active = mask(i)] ELSE staging[i]
           n == Len(staging)
           synced == [i \in 1 .. n |-> ring(i)]
<1>1. n \in Nat /\ DOMAIN staging = 1 .. n
    OBVIOUS
<1>2. Synced(staging, s) = synced
    BY <1>1 DEF Synced
<1>3. ASSUME NEW i \in 1 .. n
      PROVE  ring(i).shapes = staging[i].shapes /\ ring(i).timeline = staging[i].timeline
  <2>1. staging[i] \in RingType
      BY <1>1
  <2> HIDE DEF mask, inSet
  <2> QED BY <2>1 DEF RingType
<1> HIDE DEF ring
<1>4. Len(synced) = n /\ \A i \in 1 .. n : synced[i] = ring(i)
    BY <1>1
<1> HIDE DEF synced
<1>5. \A i \in 1 .. n : Bare(FALSE, synced[i]) = Bare(FALSE, staging[i])
    BY <1>3, <1>4 DEF Bare
<1> QED BY <1>2, <1>4, <1>5 DEF Seen

LEMMA RingsOfSets ==
  ASSUME NEW s \in 1 .. SetsNeeded
  PROVE  s - 1 \in Nat /\ FirstRing(s - 1) < NumRings
<1>1. NumRings \in Nat /\ RingsPerSet \in Nat /\ RingsPerSet > 0
    BY EngineAssumption, CarouselAssumption
<1>2. SetsNeeded \in Int
    BY <1>1 DEF SetsNeeded
<1>3. s - 1 \in Nat /\ s - 1 < SetsNeeded
    BY <1>2
<1> QED BY <1>1, <1>3, NeededSets DEF SetsNeeded

LEMMA NavigateDrawn ==
  ASSUME NEW modes, CarouselSound(modes), NEW n \in Int, NavigateBy(n)
  PROVE  Undisturbed
<1>1. CASE isAnimating \/ Len(sets) <= 1
  <2>1. UNCHANGED <<staged, sets>> /\ UNCHANGED guiState
      BY <1>1 DEF NavigateBy, guiVars, guiState
  <2> QED BY <2>1, CarouselUnchanged, NothingDrawn, SameDrawnUndisturbed
<1>2. CASE ~ (isAnimating \/ Len(sets) <= 1)
  <2> DEFINE centre == (currentSet + n) % Len(sets)
             staging == Synced(Synced(staged, currentSet), centre)
             laidOut == LaidOut(sets, centre)
             refilled == [s \in DOMAIN sets |->
                            IF s - 1 \in {currentSet, centre}
                            THEN Populated(laidOut[s], s - 1, staging) ELSE laidOut[s]]
             ring == laidOut[centre + 1].slotSelected
             last == UiSelectRing(refilled[centre + 1], ring)
  <2>1. staged' = staging /\ sets' = [refilled EXCEPT ![centre + 1] = last]
    <3>1. NavigateTo(centre)
        BY <1>2 DEF NavigateBy
    <3>2. sets' = [refilled EXCEPT ![centre + 1] = UiSelectRing(@, ring)]
        BY <3>1 DEF NavigateTo
    <3> QED BY <3>1, <3>2 DEF NavigateTo
  <2>2. /\ sets \in Seq(ShownSet(modes)) /\ Len(sets) \in Nat /\ Len(sets) > 1
        /\ DOMAIN sets = 1 .. Len(sets)
        /\ currentSet \in Nat /\ currentSet < Len(sets) /\ carouselMode \in modes
        /\ staged \in Seq(RingType)
      BY <1>2 DEF CarouselSound
  <2>3. centre \in Nat /\ centre < Len(sets) /\ centre + 1 \in 1 .. Len(sets)
    <3>1. currentSet + n \in Int
        BY <2>2
    <3>2. centre \in 0 .. Len(sets) - 1
        BY <2>2, <3>1, ModRange
    <3> HIDE DEF centre
    <3> QED BY <2>2, <3>2
  <2> HIDE DEF centre
  <2>4. staging \in Seq(RingType) /\ Seen(FALSE, staging) = Seen(FALSE, staged)
    <3>1. Synced(staged, currentSet) \in Seq(RingType)
        BY <2>2, SyncedType
    <3>2. staging \in Seq(RingType)
        BY <2>3, <3>1, SyncedType
    <3> QED BY <2>2, <3>1, <3>2, SyncedSeen
  <2> HIDE DEF staging
  <2>5. ASSUME NEW s \in 1 .. Len(sets)
        PROVE  laidOut[s] \in ShownSet(modes) /\ Alike(laidOut[s], sets[s])
    <3> DEFINE set == [sets[centre + 1] EXCEPT !.slotSelected = sets[centre + 1].selected]
    <3>1. sets[centre + 1] \in ShownSet(modes) /\ sets[s] \in ShownSet(modes)
        BY <2>2, <2>3
    <3>2. sets[centre + 1].selected \in Nat /\ TRUE \in BOOLEAN
        BY <3>1 DEF ShownSet
    <3>3. set \in ShownSet(modes) /\ Alike(set, sets[centre + 1]) /\ Alike(sets[s], sets[s])
        BY <3>1, <3>2, SlotChanges, SlotIsAlike
    <3>4. laidOut[s] = IF s = centre + 1 THEN set ELSE sets[s]
        BY <2>2, <2>3 DEF LaidOut
    <3> HIDE DEF set, laidOut
    <3> QED BY <3>1, <3>3, <3>4
  <2> HIDE DEF laidOut
  <2>6. DOMAIN refilled = 1 .. Len(sets) /\ \A s \in 1 .. Len(sets) :
          refilled[s] = IF s - 1 \in {currentSet, centre}
                        THEN Populated(laidOut[s], s - 1, staging) ELSE laidOut[s]
      BY <2>2
  <2>7. ASSUME NEW s \in 1 .. Len(sets)
        PROVE  refilled[s] \in ShownSet(modes)
    <3>1. laidOut[s] \in ShownSet(modes) /\ s - 1 \in Nat
        BY <2>2, <2>5
    <3>2. Populated(laidOut[s], s - 1, staging) \in ShownSet(modes)
        BY <2>2, <2>4, <3>1, PopulatedShown
    <3> HIDE DEF refilled
    <3> QED BY <2>6, <3>1, <3>2
  <2> HIDE DEF refilled, ring
  <2>8. refilled[centre + 1] \in ShownSet(modes) /\ Alike(last, refilled[centre + 1])
    <3>1. refilled[centre + 1] \in ShownSet(modes)
        BY <2>3, <2>7
    <3> QED BY <3>1, SelectRingIsAlike
  <2> HIDE DEF last
  <2>9. DOMAIN sets' = 1 .. Len(sets)
        /\ \A s \in 1 .. Len(sets) : sets'[s] = IF s = centre + 1 THEN last ELSE refilled[s]
      BY <2>1, <2>3, <2>6
  <2>10. Len(sets') = Len(sets)
      BY <2>1, <2>2, <2>6, <2>9
  <2>11. ASSUME NEW c, Layout(c)
         PROVE  Layout(c)'
    <3>1. Len(sets) = SetsNeeded /\ Seen(FALSE, staging) = c /\ Seen(FALSE, staged) = c
        BY <2>4, <2>11 DEF Layout
    <3>2. ASSUME NEW s \in 1 .. Len(sets)
          PROVE  SetShows(c, s - 1, sets'[s])
      <4>1. s - 1 \in Nat /\ FirstRing(s - 1) < NumRings
          BY <3>1, <3>2, RingsOfSets
      <4>2. laidOut[s] \in ShownSet(modes) /\ SetShows(c, s - 1, laidOut[s])
          BY <2>5, <2>11, AlikeShows DEF Layout
      <4>3. laidOut[s].ringCount = Held(s - 1)
          BY <4>2 DEF SetShows
      <4>4. Len(c) = NumRings
          BY <2>11 DEF Layout
      <4>5. SetShows(c, s - 1, Populated(laidOut[s], s - 1, staging))
          BY <2>4, <3>1, <4>1, <4>2, <4>3, <4>4, PopulatedShows
      <4>6. SetShows(c, s - 1, refilled[s])
          BY <2>6, <4>2, <4>5
      <4>7. SetShows(c, s - 1, last) \/ s # centre + 1
          BY <2>8, <4>6, AlikeShows
      <4> QED BY <2>9, <4>6, <4>7
    <3>3. Seen(FALSE, staged)' = c
        BY <2>1, <3>1
    <3>4. Len(c) = NumRings
        BY <2>11 DEF Layout
    <3> QED BY <2>10, <3>1, <3>2, <3>3, <3>4 DEF Layout
  <2>12. sets = << >> => sets' = << >>
      BY <2>2, <2>10
  <2> QED BY <2>1, <2>4, <2>11, <2>12 DEF Undisturbed
<1> QED BY <1>1, <1>2

LEMMA EnoughSets ==
  ASSUME Len(staged) = NumRings
  PROVE  NumSets = SetsNeeded /\ SetsNeeded \in Nat /\ SetsNeeded > 0
<1> DEFINE q == (NumRings + RingsPerSet - 1) \div RingsPerSet
<1>1. /\ NumRings \in Nat /\ NumRings > 0 /\ RingsPerSet \in Nat /\ RingsPerSet > 0
      /\ MaxSets \in Nat /\ NumRings <= MaxSets * RingsPerSet
    BY EngineAssumption, CarouselAssumption, SystemAssumption
<1>2. q \in Nat /\ q * RingsPerSet <= NumRings + RingsPerSet - 1 /\ q > 0
    BY <1>1
<1>3. q <= MaxSets
  <2> HIDE DEF q
  <2> SUFFICES ASSUME q >= MaxSets + 1 PROVE FALSE
      BY <1>1, <1>2
  <2>1. q * RingsPerSet >= (MaxSets + 1) * RingsPerSet
      BY <1>1, <1>2
  <2>2. (MaxSets + 1) * RingsPerSet = MaxSets * RingsPerSet + RingsPerSet
      BY <1>1
  <2> QED BY <1>1, <1>2, <2>1, <2>2
<1>4. NumSets = IF q <= MaxSets THEN q ELSE MaxSets
    BY DEF NumSets
<1>5. SetsNeeded = q
    BY DEF SetsNeeded
<1> HIDE DEF q
<1> QED BY <1>2, <1>3, <1>4, <1>5

(* rebuildFromData fills the sets that the rings c need.                   *)
Refilled(s) ==
  LET kept == IF s <= Len(sets) THEN sets[s] ELSE EmptySet
      left == Len(staged) - FirstRing(s - 1)
  IN  Populated([kept EXCEPT !.ringCount = IF left < RingsPerSet THEN left ELSE RingsPerSet],
                s - 1, staged)

LEMMA RefilledFrom ==
  ASSUME NEW modes, CarouselSound(modes), Len(staged) = NumRings
  PROVE  /\ NumSets = SetsNeeded /\ NumSets \in Nat /\ NumSets > 0
         /\ \A s \in 1 .. NumSets :
              /\ s - 1 \in Nat /\ FirstRing(s - 1) < NumRings
              /\ \E old \in ShownSet(HardwareMode \cup modes) :
                   old.ringCount = Held(s - 1) /\ Refilled(s) = Populated(old, s - 1, staged)
<1> DEFINE kept(s) == IF s <= Len(sets) THEN sets[s] ELSE EmptySet
           left(s) == Len(staged) - FirstRing(s - 1)
           count(s) == IF left(s) < RingsPerSet THEN left(s) ELSE RingsPerSet
<1>1. \A s : Refilled(s) = Populated([kept(s) EXCEPT !.ringCount = count(s)], s - 1, staged)
    BY DEF Refilled
<1> HIDE DEF kept, left, count
<1>2. /\ staged \in Seq(RingType) /\ sets \in Seq(ShownSet(modes)) /\ Len(sets) \in Nat
      /\ carouselMode \in modes /\ NumRings \in Nat /\ RingsPerSet \in Nat /\ RingsPerSet > 0
    BY EngineAssumption, CarouselAssumption DEF CarouselSound
<1>4. NumSets = SetsNeeded /\ NumSets \in Nat /\ NumSets > 0
    BY EnoughSets
<1>5. ASSUME NEW s \in 1 .. NumSets
      PROVE  /\ s - 1 \in Nat /\ FirstRing(s - 1) < NumRings
             /\ count(s) = Held(s - 1)
             /\ [kept(s) EXCEPT !.ringCount = count(s)] \in ShownSet(HardwareMode \cup modes)
             /\ [kept(s) EXCEPT !.ringCount = count(s)].ringCount = count(s)
  <2>1. s - 1 \in Nat /\ FirstRing(s - 1) < NumRings
      BY <1>4, RingsOfSets
  <2>2. FirstRing(s - 1) \in Nat
      BY <2>1, RingNumbers
  <2>3. count(s) = Held(s - 1) /\ count(s) \in Nat
      BY <1>2, <2>1, <2>2 DEF count, left, Held
  <2>4. kept(s) \in ShownSet(HardwareMode \cup modes)
    <3>1. CASE s <= Len(sets)
      <4>1. sets[s] \in ShownSet(modes)
          BY <1>2, <3>1
      <4>2. sets[s] \in ShownSet(HardwareMode \cup modes)
          BY <4>1 DEF ShownSet
      <4> QED BY <3>1, <4>2 DEF kept
    <3>2. CASE ~ s <= Len(sets)
      <4>1. EmptySet \in ShownSet(HardwareMode \cup modes)
        <5>1. /\ << >> \in Seq(ShownRings) /\ << >> \in Seq(Nat) /\ Len(<< >>) = 0
              /\ "rotate" \in HardwareMode
            BY DEF HardwareMode
        <5> QED BY <5>1 DEF ShownSet, EmptySet
      <4> QED BY <3>2, <4>1 DEF kept
    <3> QED BY <3>1, <3>2
  <2>5. [kept(s) EXCEPT !.ringCount = count(s)] \in ShownSet(HardwareMode \cup modes)
      BY <2>3, <2>4, SlotChanges
  <2>6. [kept(s) EXCEPT !.ringCount = count(s)].ringCount = count(s)
      BY <2>4 DEF ShownSet
  <2> QED BY <2>1, <2>3, <2>5, <2>6
<1>6. ASSUME NEW s \in 1 .. NumSets
      PROVE  \E old \in ShownSet(HardwareMode \cup modes) :
               old.ringCount = Held(s - 1) /\ Refilled(s) = Populated(old, s - 1, staged)
  <2> DEFINE old == [kept(s) EXCEPT !.ringCount = count(s)]
  <2>1. old \in ShownSet(HardwareMode \cup modes) /\ old.ringCount = Held(s - 1)
      BY <1>5
  <2>2. Refilled(s) = Populated(old, s - 1, staged)
      BY <1>1
  <2> HIDE DEF old
  <2> QED BY <2>1, <2>2
<1> QED BY <1>4, <1>5, <1>6

LEMMA ReadyFills ==
  ASSUME NEW modes, CarouselSound(modes), NEW c, Seen(FALSE, staged) = c, Len(c) = NumRings
  PROVE  /\ NumSets = SetsNeeded /\ NumSets \in Nat /\ NumSets > 0 /\ Len(staged) = NumRings
         /\ \A s \in 1 .. NumSets : /\ Refilled(s) \in ShownSet(HardwareMode \cup modes)
                                    /\ SetShows(c, s - 1, Refilled(s))
                                    /\ Held(s - 1) \in Nat /\ Held(s - 1) > 0
<1>1. staged \in Seq(RingType) /\ carouselMode \in modes
    BY DEF CarouselSound
<1>2. Len(staged) = NumRings
    BY <1>1, SeenParts
<1>3. ASSUME NEW s \in 1 .. NumSets
      PROVE  /\ Refilled(s) \in ShownSet(HardwareMode \cup modes) /\ SetShows(c, s - 1, Refilled(s))
             /\ Held(s - 1) \in Nat /\ Held(s - 1) > 0
  <2>1. s - 1 \in Nat /\ FirstRing(s - 1) < NumRings
      BY <1>2, RefilledFrom
  <2>2. PICK old \in ShownSet(HardwareMode \cup modes) :
          old.ringCount = Held(s - 1) /\ Refilled(s) = Populated(old, s - 1, staged)
      BY <1>2, RefilledFrom
  <2>3. SetShows(c, s - 1, Populated(old, s - 1, staged))
      BY <1>1, <2>1, <2>2, PopulatedShows
  <2>4. Populated(old, s - 1, staged) \in ShownSet(HardwareMode \cup modes)
      BY <1>1, <2>1, <2>2, PopulatedShown
  <2> QED BY <2>1, <2>2, <2>3, <2>4, HeldType
<1> QED BY <1>2, <1>3, RefilledFrom

LEMMA ReadyDrawn ==
  ASSUME NEW modes, CarouselSound(modes), OnReady, NEW c, Seen(FALSE, staged) = c, Len(c) = NumRings
  PROVE  Layout(c)'
<1> DEFINE filled == [s \in 1 .. NumSets |-> Refilled(s)]
           restores == /\ pendingRing # NoRing
                       /\ SetOf(pendingRing) < NumSets
                       /\ LocalOf(pendingRing) < filled[SetOf(pendingRing) + 1].ringCount
           slotSelected(s) == IF restores /\ SetOf(pendingRing) = s - 1
                              THEN LocalOf(pendingRing) ELSE filled[s].slotSelected
           last(s) == filled[s].ringCount - 1
           ring(s) == IF slotSelected(s) > last(s) THEN last(s) ELSE slotSelected(s)
           chosen(s) == UiSelectRing([filled[s] EXCEPT !.slotSelected = ring(s)], ring(s))
           all == [s \in 1 .. NumSets |-> chosen(s)]
           centre == IF restores THEN SetOf(pendingRing)
                     ELSE IF currentSet >= NumSets /\ NumSets > 0 THEN 0 ELSE currentSet
<1>1. /\ sets' = IF NumSets = 0 THEN << >> ELSE LaidOut(all, centre)
      /\ UNCHANGED <<staged, carouselMode>>
    BY DEF OnReady, Refilled
<1>4. NumSets = SetsNeeded /\ NumSets \in Nat /\ NumSets > 0
    BY ReadyFills
<1>6. ASSUME NEW s \in 1 .. NumSets
      PROVE  /\ filled[s] \in ShownSet(HardwareMode \cup modes) /\ SetShows(c, s - 1, filled[s])
             /\ Held(s - 1) \in Nat /\ Held(s - 1) > 0
  <2>1. filled[s] = Refilled(s)
      OBVIOUS
  <2> QED BY <2>1, ReadyFills
<1> HIDE DEF filled, all, centre, ring, last, slotSelected, restores, chosen
<1>7. ASSUME NEW s \in 1 .. NumSets
      PROVE  all[s] \in ShownSet(HardwareMode \cup modes) /\ SetShows(c, s - 1, all[s])
  <2> DEFINE slotted == [filled[s] EXCEPT !.slotSelected = ring(s)]
  <2>1. filled[s] \in ShownSet(HardwareMode \cup modes) /\ SetShows(c, s - 1, filled[s])
      BY <1>6
  <2>2. ring(s) \in Nat
    <3>1. filled[s].slotSelected \in Nat /\ filled[s].ringCount = Held(s - 1)
        BY <2>1 DEF ShownSet, SetShows
    <3>2. Held(s - 1) \in Nat /\ Held(s - 1) > 0
        BY <1>6
    <3>3. restores => LocalOf(pendingRing) \in Nat
        BY RingNumbers DEF restores, CarouselSound
    <3>4. slotSelected(s) \in Nat
        BY <3>1, <3>3 DEF slotSelected
    <3> QED BY <3>1, <3>2, <3>4 DEF ring, last
  <2>3. slotted \in ShownSet(HardwareMode \cup modes) /\ Alike(slotted, filled[s])
      BY <2>1, <2>2, SlotChanges, SlotIsAlike
  <2> HIDE DEF slotted
  <2>4. /\ UiSelectRing(slotted, ring(s)) \in ShownSet(HardwareMode \cup modes)
        /\ Alike(UiSelectRing(slotted, ring(s)), slotted)
      BY <2>2, <2>3, UiSelectRingShown, SelectRingIsAlike
  <2>5. SetShows(c, s - 1, UiSelectRing(slotted, ring(s)))
      BY <2>1, <2>3, <2>4, AlikeShows
  <2>6. all[s] = UiSelectRing(slotted, ring(s))
      BY DEF all, chosen, slotted
  <2> QED BY <2>4, <2>5, <2>6
<1>8. DOMAIN all = 1 .. NumSets
    BY DEF all
<1>9. Len(sets') = NumSets /\ \A s \in 1 .. NumSets : SetShows(c, s - 1, sets'[s])
  <2> DEFINE set == [all[centre + 1] EXCEPT !.slotSelected = all[centre + 1].selected]
  <2>1. sets' = [all EXCEPT ![centre + 1] = set]
      BY <1>1, <1>4 DEF LaidOut
  <2>2. ASSUME NEW s \in 1 .. NumSets, s = centre + 1
        PROVE  SetShows(c, s - 1, set)
    <3>1. Alike(set, all[s])
        BY <1>7, <2>2, SlotIsAlike
    <3> QED BY <1>7, <3>1, AlikeShows
  <2> HIDE DEF set
  <2>3. /\ DOMAIN sets' = 1 .. NumSets
        /\ \A s \in 1 .. NumSets : sets'[s] = IF s = centre + 1 THEN set ELSE all[s]
      BY <1>8, <2>1
  <2>4. \A s \in 1 .. NumSets : SetShows(c, s - 1, sets'[s])
      BY <1>7, <2>2, <2>3
  <2>5. Len(sets') = NumSets
      BY <1>4, <2>3, ReadyKeeps DEF CarouselSound
  <2> QED BY <2>4, <2>5
<1> QED BY <1>1, <1>4, <1>9 DEF Layout

(***************************************************************************)
(* The GUI stages what a rebuild says.                                     *)
(***************************************************************************)
LEMMA OutlineType ==
  ASSUME NEW ring \in RingType
  PROVE  /\ Outline(ring) \in RingType
         /\ Outline(ring).shapes = ring.shapes /\ Outline(ring).timeline = ring.timeline
<1>1. ring.shapes \in Seq(Shape) /\ ring.timeline \in SUBSET Instant /\ << >> \in Seq(BOOLEAN)
    BY DEF RingType
<1> QED BY <1>1 DEF Outline, Bare, RingType

LEMMA SeenType ==
  ASSUME NEW staging \in Seq(RingType)
  PROVE  /\ Seen(FALSE, staging) \in Staging /\ Len(Seen(FALSE, staging)) = Len(staging)
         /\ \A i \in 1 .. Len(staging) : Seen(FALSE, staging)[i] = Outline(staging[i])
<1> DEFINE c == Seen(FALSE, staging)
           n == Len(staging)
<1>1. n \in Nat /\ \A i \in 1 .. n : staging[i] \in RingType
    OBVIOUS
<1>2. c = [i \in 1 .. n |-> c[i]]
    BY DEF Seen
<1>3. \A i \in 1 .. n : c[i] = Outline(staging[i])
    BY DEF Seen, Outline
<1> HIDE DEF c, n
<1>4. \A i \in 1 .. n : c[i] \in RingType
    BY <1>1, <1>3, OutlineType
<1>5. c \in Seq(RingType) /\ Len(c) = n
    BY <1>1, <1>2, <1>4, SeqOfParts
<1> QED BY <1>3, <1>5 DEF c, n, Staging

LEMMA SameParts ==
  ASSUME NEW S, NEW a \in Seq(S), NEW b \in Seq(S), Len(a) = Len(b),
         \A i \in 1 .. Len(b) : a[i] = b[i]
  PROVE  a = b
OBVIOUS

LEMMA SeenReplaced ==
  ASSUME NEW a \in Seq(RingType), NEW k \in 1 .. Len(a), NEW ring \in RingType
  PROVE  /\ [a EXCEPT ![k] = ring] \in Seq(RingType)
         /\ Seen(FALSE, [a EXCEPT ![k] = ring]) = [Seen(FALSE, a) EXCEPT ![k] = Outline(ring)]
<1> DEFINE b == [a EXCEPT ![k] = ring]
           c == Seen(FALSE, a)
           d == [c EXCEPT ![k] = Outline(ring)]
<1>1. /\ b \in Seq(RingType) /\ Len(b) = Len(a)
      /\ \A i \in 1 .. Len(a) : b[i] = IF i = k THEN ring ELSE a[i]
    OBVIOUS
<1>2. c \in Seq(RingType) /\ Len(c) = Len(a) /\ \A i \in 1 .. Len(a) : c[i] = Outline(a[i])
    BY SeenType DEF Staging
<1> HIDE DEF b, c
<1>3. Outline(ring) \in RingType
    BY OutlineType
<1>4. /\ d \in Seq(RingType) /\ Len(d) = Len(a)
      /\ \A i \in 1 .. Len(a) : d[i] = IF i = k THEN Outline(ring) ELSE c[i]
    BY <1>2, <1>3
<1>5. /\ Seen(FALSE, b) \in Seq(RingType) /\ Len(Seen(FALSE, b)) = Len(b)
      /\ \A i \in 1 .. Len(b) : Seen(FALSE, b)[i] = Outline(b[i])
    BY <1>1, SeenType DEF Staging
<1> HIDE DEF d
<1>6. \A i \in 1 .. Len(a) : Seen(FALSE, b)[i] = d[i]
    BY <1>1, <1>2, <1>4, <1>5
<1>7. Seen(FALSE, b) = d
    BY <1>1, <1>4, <1>5, <1>6, SameParts
<1> QED BY <1>1, <1>7 DEF b, c, d

LEMMA SeenAppended ==
  ASSUME NEW a \in Seq(RingType), NEW ring \in RingType
  PROVE  Seen(FALSE, Append(a, ring)) = Append(Seen(FALSE, a), Outline(ring))
<1> DEFINE b == Append(a, ring)
           c == Seen(FALSE, a)
           d == Append(c, Outline(ring))
           n == Len(a) + 1
<1>1. /\ b \in Seq(RingType) /\ Len(b) = n /\ n \in Nat
      /\ \A i \in 1 .. n : b[i] = IF i = n THEN ring ELSE a[i]
    OBVIOUS
<1>2. c \in Seq(RingType) /\ Len(c) = Len(a) /\ \A i \in 1 .. Len(a) : c[i] = Outline(a[i])
    BY SeenType DEF Staging
<1> HIDE DEF b, c
<1>3. Outline(ring) \in RingType
    BY OutlineType
<1>4. /\ d \in Seq(RingType) /\ Len(d) = n
      /\ \A i \in 1 .. n : d[i] = IF i = n THEN Outline(ring) ELSE c[i]
    BY <1>2, <1>3
<1>5. /\ Seen(FALSE, b) \in Seq(RingType) /\ Len(Seen(FALSE, b)) = Len(b)
      /\ \A i \in 1 .. Len(b) : Seen(FALSE, b)[i] = Outline(b[i])
    BY <1>1, SeenType DEF Staging
<1> HIDE DEF d
<1>6. \A i \in 1 .. n : i = n \/ i \in 1 .. Len(a)
    OBVIOUS
<1> HIDE DEF n
<1>7. \A i \in 1 .. n : Seen(FALSE, b)[i] = d[i]
    BY <1>1, <1>2, <1>4, <1>5, <1>6
<1>8. Seen(FALSE, b) = d
    BY <1>1, <1>4, <1>5, <1>7, SameParts
<1> QED BY <1>8 DEF b, c, d

LEMMA MessageSeen ==
  ASSUME NEW modes, CarouselSound(modes), NEW m \in GuiMessage, HandleGui(m),
         m.type \in Filling \cup Closing
  PROVE  Seen(FALSE, staged') = After(FALSE, Seen(FALSE, staged), m)
<1> DEFINE seen == Seen(FALSE, staged)
           k == m.ring + 1
<1>0. staged \in Seq(RingType)
    BY DEF CarouselSound
<1>1. seen \in Seq(RingType) /\ Len(seen) = Len(staged)
      /\ \A i \in 1 .. Len(staged) : seen[i] = Outline(staged[i])
    BY <1>0, SeenType DEF Staging
<1> HIDE DEF seen
<1>2. CASE m.type \in Closing
  <2>1. UNCHANGED staged
    <3>1. /\ m.type \in {"POLY_SELECT", "POLY_SELECTED_POINT", "PLAY_STATE", "POLY_HW_MODE"}
        BY <1>2 DEF Closing
    <3> QED BY <3>1 DEF HandleGui, OnSelect, OnSelectedPoint, OnPlayState, OnHwMode
  <2>2. After(FALSE, seen, m) = seen
      BY <1>2 DEF Closing, After
  <2> QED BY <2>1, <2>2 DEF seen
<1>3. CASE m.type = "POLY_RING"
  <2>1. staged' = Append(staged, Blank)
      BY <1>3 DEF HandleGui, OnRing, Stages, Blank
  <2>2. Outline(Blank) = Blank
      BY DEF Outline, Bare, Blank
  <2>3. After(FALSE, seen, m) = Append(seen, Blank)
      BY <1>3 DEF After
  <2> QED BY <1>0, <2>1, <2>2, <2>3, BlankType, SeenAppended DEF seen
<1>4. ASSUME m.type \in Filling, m.type # "POLY_RING"
      PROVE  m.ring \in Nat /\ (m.ring < Len(staged) =>
               /\ k \in 1 .. Len(staged) /\ staged[k] \in RingType /\ seen[k] = Outline(staged[k]))
  <2>1. m.ring \in Nat
      BY <1>4, MessageFields DEF Filling
  <2>2. m.ring < Len(staged) => k \in 1 .. Len(staged)
      BY <1>0, <2>1
  <2> QED BY <1>0, <1>1, <2>1, <2>2
<1>5. CASE m.type = "POLY_RING_SHAPE"
  <2>1. CASE m.ring < Len(staged)
    <3> DEFINE shapes == Append(staged[k].shapes, m.shape)
               ring == [staged[k] EXCEPT !.shapes = shapes]
    <3>1. k \in 1 .. Len(staged) /\ staged[k] \in RingType /\ seen[k] = Outline(staged[k])
        BY <1>4, <1>5, <2>1 DEF Filling
    <3>2. staged[k].shapes \in Seq(Shape) /\ m.shape \in Shape
        BY <1>5, <3>1, MessageFields DEF RingType
    <3>3. shapes \in Seq(Shape)
        BY <3>2
    <3>4. staged' = [staged EXCEPT ![k] = ring]
        BY <1>5, <2>1 DEF HandleGui, OnRingShape, Stages
    <3>5. seen[k].shapes = staged[k].shapes
        BY <3>1, OutlineType
    <3>6. After(FALSE, seen, m) = [seen EXCEPT ![k] = [seen[k] EXCEPT !.shapes = shapes]]
        BY <1>1, <1>5, <2>1, <3>1, <3>5 DEF After
    <3> HIDE DEF shapes
    <3>7. ring \in RingType
        BY <3>1, <3>3 DEF RingType
    <3>8. Outline(ring) = [seen[k] EXCEPT !.shapes = shapes]
        BY <3>1, <3>3 DEF RingType, Outline, Bare
    <3> HIDE DEF ring, k
    <3>9. Seen(FALSE, [staged EXCEPT ![k] = ring]) = [seen EXCEPT ![k] = Outline(ring)]
        BY <1>0, <3>1, <3>7, SeenReplaced DEF seen
    <3> QED BY <3>4, <3>6, <3>9, <3>8 DEF seen
  <2>2. CASE ~ m.ring < Len(staged)
    <3>1. staged' = staged
        BY <1>5, <2>2 DEF HandleGui, OnRingShape, Stages
    <3>2. After(FALSE, seen, m) = seen
        BY <1>1, <1>5, <2>2 DEF After
    <3> QED BY <3>1, <3>2 DEF seen
  <2> QED BY <2>1, <2>2
<1>6. CASE m.type = "POLY_RING_TIMELINE"
  <2>1. CASE m.ring < Len(staged)
    <3> DEFINE ring == [staged[k] EXCEPT !.timeline = m.timeline]
    <3>1. k \in 1 .. Len(staged) /\ staged[k] \in RingType /\ seen[k] = Outline(staged[k])
        BY <1>4, <1>6, <2>1 DEF Filling
    <3>2. m.timeline \in SUBSET Instant
        BY <1>6, MessageFields
    <3>3. staged' = [staged EXCEPT ![k] = ring]
        BY <1>6, <2>1 DEF HandleGui, OnRingTimeline, Stages
    <3>4. After(FALSE, seen, m) = [seen EXCEPT ![k] = [seen[k] EXCEPT !.timeline = m.timeline]]
        BY <1>1, <1>6, <2>1, <3>1 DEF After
    <3>5. ring \in RingType
        BY <3>1, <3>2 DEF RingType
    <3>7. Outline(ring) = [seen[k] EXCEPT !.timeline = m.timeline]
        BY <3>1, <3>2 DEF RingType, Outline, Bare
    <3> HIDE DEF ring, k
    <3>6. Seen(FALSE, [staged EXCEPT ![k] = ring]) = [seen EXCEPT ![k] = Outline(ring)]
        BY <1>0, <3>1, <3>5, SeenReplaced DEF seen
    <3> QED BY <3>3, <3>4, <3>6, <3>7 DEF seen
  <2>2. CASE ~ m.ring < Len(staged)
    <3>1. staged' = staged
        BY <1>6, <2>2 DEF HandleGui, OnRingTimeline, Stages
    <3>2. After(FALSE, seen, m) = seen
        BY <1>1, <1>6, <2>2 DEF After
    <3> QED BY <3>1, <3>2 DEF seen
  <2> QED BY <2>1, <2>2
<1>7. CASE m.type = "POLY_RING_ACTIVE"
  <2>0. After(FALSE, seen, m) = seen
      BY <1>7 DEF After
  <2>1. CASE m.ring < Len(staged)
    <3> DEFINE ring == [staged[k] EXCEPT !.active = m.active]
    <3>1. k \in 1 .. Len(staged) /\ staged[k] \in RingType /\ seen[k] = Outline(staged[k])
        BY <1>4, <1>7, <2>1 DEF Filling
    <3>2. m.active \in Seq(BOOLEAN)
        BY <1>7, MessageFields
    <3>3. staged' = [staged EXCEPT ![k] = ring]
        BY <1>7, <2>1 DEF HandleGui, OnRingActive, Stages
    <3>4. ring \in RingType /\ Outline(ring) = seen[k]
        BY <3>1, <3>2 DEF RingType, Outline, Bare
    <3>5. [seen EXCEPT ![k] = seen[k]] = seen
        BY <1>1
    <3> HIDE DEF ring, k
    <3>6. Seen(FALSE, [staged EXCEPT ![k] = ring]) = [seen EXCEPT ![k] = Outline(ring)]
        BY <1>0, <3>1, <3>4, SeenReplaced DEF seen
    <3> QED BY <2>0, <3>3, <3>4, <3>5, <3>6 DEF seen
  <2>2. CASE ~ m.ring < Len(staged)
    <3>1. staged' = staged
        BY <1>7, <2>2 DEF HandleGui, OnRingActive, Stages
    <3> QED BY <2>0, <3>1 DEF seen
  <2> QED BY <2>1, <2>2
<1> QED BY <1>2, <1>3, <1>5, <1>6, <1>7 DEF Filling

(* With their masks the staged rings are seen as they are.                 *)
LEMMA SeenWhole ==
  ASSUME NEW a \in Seq(RingType)
  PROVE  Seen(TRUE, a) = a
<1> DEFINE seen == Seen(TRUE, a)
           n == Len(a)
<1>1. n \in Nat /\ \A i \in 1 .. n : a[i] \in RingType
    OBVIOUS
<1>2. seen = [i \in 1 .. n |-> seen[i]] /\ \A i \in 1 .. n : seen[i] = Bare(TRUE, a[i])
    BY DEF Seen
<1>3. ASSUME NEW ring \in RingType
      PROVE  Bare(TRUE, ring) = ring
    BY DEF Bare, RingType
<1> HIDE DEF seen
<1>4. \A i \in 1 .. n : seen[i] = a[i]
    BY <1>1, <1>2, <1>3
<1>5. seen \in Seq(RingType) /\ Len(seen) = n
    BY <1>1, <1>2, <1>4, SeqOfParts
<1>6. seen = a
    BY <1>4, <1>5, SameParts
<1> QED BY <1>6 DEF seen

LEMMA MessageStaged ==
  ASSUME NEW modes, CarouselSound(modes), NEW m \in GuiMessage, HandleGui(m),
         m.type \in Filling \cup Closing
  PROVE  staged' = After(TRUE, staged, m)
<1>1. CASE m.type \in Closing
  <2>1. UNCHANGED staged
    <3>1. m.type \in {"POLY_SELECT", "POLY_SELECTED_POINT", "PLAY_STATE", "POLY_HW_MODE"}
        BY <1>1 DEF Closing
    <3> QED BY <3>1 DEF HandleGui, OnSelect, OnSelectedPoint, OnPlayState, OnHwMode
  <2>2. After(TRUE, staged, m) = staged
      BY <1>1 DEF Closing, After
  <2> QED BY <2>1, <2>2
<1>2. CASE m.type = "POLY_RING"
    BY <1>2 DEF HandleGui, OnRing, Stages, Blank, After
<1>3. CASE m.type = "POLY_RING_SHAPE"
    BY <1>3 DEF HandleGui, OnRingShape, Stages, After
<1>4. CASE m.type = "POLY_RING_TIMELINE"
    BY <1>4 DEF HandleGui, OnRingTimeline, Stages, After
<1>5. CASE m.type = "POLY_RING_ACTIVE"
    BY <1>5 DEF HandleGui, OnRingActive, Stages, After
<1> QED BY <1>1, <1>2, <1>3, <1>4, <1>5 DEF Filling

(* Either way, what is staged is what the message says of it.              *)
LEMMA MessageIsSeen ==
  ASSUME NEW modes, CarouselSound(modes), CarouselSound(modes)', NEW masks \in BOOLEAN,
         NEW m \in GuiMessage, HandleGui(m), m.type \in Filling \cup Closing
  PROVE  Seen(masks, staged') = After(masks, Seen(masks, staged), m)
<1>1. CASE masks = TRUE
  <2>1. Seen(TRUE, staged) = staged /\ Seen(TRUE, staged') = staged'
      BY SeenWhole DEF CarouselSound
  <2> QED BY <1>1, <2>1, MessageStaged
<1>2. CASE masks = FALSE
    BY <1>2, MessageSeen
<1> QED BY <1>1, <1>2

-----------------------------------------------------------------------------
(***************************************************************************)
(* Either a whole rebuild of the rings c is among the messages for the     *)
(* GUI, or has partly been handled, with its POLY_READY still to come and  *)
(* no other rebuild behind; or none is under way and c is what is drawn.   *)
(***************************************************************************)
Arrives(masks, c, pre) ==
  \/ Fills(masks, Seen(masks, staged), pre, c)
  \/ \E before, part \in Seq(GuiMessage) : /\ pre = (before \o <<RebuildMsg>>) \o part
                                           /\ Fills(masks, << >>, part, c)

Told(c) ==
  \E pre, tail \in Seq(GuiMessage) : /\ toGui = (pre \o <<ReadyMsg>>) \o tail
                                     /\ Silent(tail, Rebuilding)
                                     /\ Arrives(FALSE, c, pre)

Drawn(c) == Silent(toGui, Rebuilding) /\ (sets # << >> => Layout(c))

ShapesInv == SystemSound /\ (Told(Copies(FALSE, rings)) \/ Drawn(Copies(FALSE, rings)))

LEMMA UndisturbedKeeps ==
  ASSUME NEW c, Told(c) \/ Drawn(c), Undisturbed, UNCHANGED toGui
  PROVE  Told(c)' \/ Drawn(c)'
<1>1. ASSUME NEW pre, Arrives(FALSE, c, pre)
      PROVE  Arrives(FALSE, c, pre)'
    BY <1>1 DEF Arrives, Undisturbed
<1>2. Told(c) => Told(c)'
    BY <1>1 DEF Told
<1>3. Drawn(c) => Drawn(c)'
    BY DEF Drawn, Undisturbed
<1> QED BY <1>2, <1>3

LEMMA FilledNowhere ==
  ASSUME NEW masks, NEW a, NEW b, Fills(masks, a, << >>, b)
  PROVE  a = b
<1>1. Len(<< >>) = 0
    OBVIOUS
<1> QED BY <1>1 DEF Fills, Leads

LEMMA TailInFront ==
  ASSUME NEW S, NEW s \in Seq(S), NEW t \in Seq(S), s # << >>
  PROVE  Head(s \o t) = Head(s) /\ Tail(s \o t) = Tail(s) \o t /\ s \o t # << >>
<1> DEFINE n == Len(s)
           k == Len(t)
           u == s \o t
           v == Tail(s)
           w == Tail(u)
           x == v \o t
<1>1. n \in Nat /\ n > 0 /\ k \in Nat
    OBVIOUS
<1>2. /\ u \in Seq(S) /\ Len(u) = n + k
      /\ \A i \in 1 .. n + k : u[i] = IF i <= n THEN s[i] ELSE t[i - n]
    OBVIOUS
<1>3. v \in Seq(S) /\ Len(v) = n - 1 /\ \A i \in 1 .. n - 1 : v[i] = s[i + 1]
    OBVIOUS
<1> HIDE DEF u, v
<1>4. u # << >>
    BY <1>1, <1>2
<1>5. w \in Seq(S) /\ Len(w) = n + k - 1 /\ \A i \in 1 .. n + k - 1 : w[i] = u[i + 1]
    BY <1>1, <1>2, <1>4
<1>6. /\ x \in Seq(S) /\ Len(x) = n + k - 1
      /\ \A i \in 1 .. n + k - 1 : x[i] = IF i <= n - 1 THEN v[i] ELSE t[i - (n - 1)]
  <2>1. /\ x \in Seq(S) /\ Len(x) = Len(v) + Len(t)
        /\ \A i \in 1 .. Len(v) + Len(t) : x[i] = IF i <= Len(v) THEN v[i] ELSE t[i - Len(v)]
    <3>1. v \in Seq(S)
        BY <1>3
    <3> QED BY <3>1
  <2>2. Len(v) = n - 1 /\ Len(t) = k /\ (n - 1) + k = n + k - 1
      BY <1>1, <1>3
  <2> HIDE DEF n, k, x
  <2> QED BY <2>1, <2>2
<1> HIDE DEF n, k, w, x
<1>7. ASSUME NEW i \in 1 .. n + k - 1
      PROVE  w[i] = x[i]
  <2>1. i + 1 \in 1 .. n + k /\ (i + 1 <= n <=> i <= n - 1) /\ (i + 1) - n = i - (n - 1)
        /\ (i <= n - 1 => i \in 1 .. n - 1)
      BY <1>1
  <2>2. w[i] = u[i + 1] /\ u[i + 1] = IF i + 1 <= n THEN s[i + 1] ELSE t[(i + 1) - n]
      BY <1>2, <1>5, <2>1
  <2>3. x[i] = IF i <= n - 1 THEN v[i] ELSE t[i - (n - 1)]
      BY <1>6
  <2> QED BY <1>3, <2>1, <2>2, <2>3
<1>8. w = x
    BY <1>5, <1>6, <1>7, SameParts
<1>9. Head(u) = Head(s)
  <2>1. Head(u) = u[1] /\ Head(s) = s[1]
      BY <1>2, <1>4
  <2>2. 1 \in 1 .. n + k /\ 1 <= n
      BY <1>1
  <2> QED BY <1>2, <2>1, <2>2
<1> QED BY <1>4, <1>8, <1>9 DEF u, v, w, x

(* The GUI takes the next message of a rebuild.                            *)
LEMMA TakingArrives ==
  ASSUME CarouselSound(HardwareMode), CarouselSound(HardwareMode)', NEW masks \in BOOLEAN, NEW c,
         NEW pre \in Seq(GuiMessage), pre # << >>, Arrives(masks, c, pre), HandleGui(Head(pre))
  PROVE  Arrives(masks, c, Tail(pre))'
<1>0. staged \in Seq(RingType) /\ Head(pre) \in GuiMessage /\ Tail(pre) \in Seq(GuiMessage)
    BY DEF CarouselSound
<1>1. CASE Fills(masks, Seen(masks, staged), pre, c)
  <2>1. PICK u \in Staging : /\ <<Seen(masks, staged), Head(pre), u>> \in Fill(masks)
                             /\ Fills(masks, u, Tail(pre), c)
      BY <1>1, LeadsFromNext DEF Fills
  <2>2. /\ Head(pre).type \in Filling \cup Closing
        /\ u = After(masks, Seen(masks, staged), Head(pre))
      BY <2>1 DEF Fill
  <2>3. Seen(masks, staged') = u
      BY <1>0, <2>2, MessageIsSeen
  <2> QED BY <2>1, <2>3 DEF Arrives
<1>2. ASSUME NEW before \in Seq(GuiMessage), NEW part \in Seq(GuiMessage),
             pre = (before \o <<RebuildMsg>>) \o part, Fills(masks, << >>, part, c)
      PROVE  Arrives(masks, c, Tail(pre))'
  <2>0. <<RebuildMsg>> \in Seq(GuiMessage) /\ RebuildMsg.type = "POLY_REBUILD"
      BY MessagesSent
  <2>1. CASE before = << >>
    <3>1. pre = <<RebuildMsg>> \o part
        BY <1>2, <2>0, <2>1
    <3>2. Head(pre) = RebuildMsg /\ Tail(pre) = part
        BY <2>0, <3>1
    <3>3. staged' = << >>
        BY <2>0, <3>2 DEF HandleGui, OnRebuild, Stages
    <3>4. Seen(masks, << >>) = << >>
        BY DEF Seen
    <3> QED BY <1>2, <3>2, <3>3, <3>4 DEF Arrives
  <2>2. CASE before # << >>
    <3> DEFINE x == <<RebuildMsg>>
    <3> HIDE DEF x
    <3>1. before \o x \in Seq(GuiMessage) /\ before \o x # << >> /\ Tail(before \o x) = Tail(before) \o x
        BY <2>0, <2>2, TailInFront DEF x
    <3>2. Tail((before \o x) \o part) = Tail(before \o x) \o part
        BY <3>1, TailInFront
    <3>3. Tail(pre) = (Tail(before) \o x) \o part /\ Tail(before) \in Seq(GuiMessage)
        BY <1>2, <2>2, <3>1, <3>2 DEF x
    <3> QED BY <1>2, <3>3 DEF Arrives, x
  <2> QED BY <2>1, <2>2
<1> QED BY <1>1, <1>2 DEF Arrives

(* A message that is no part of a rebuild.                                 *)
LEMMA MessageUndisturbed ==
  ASSUME CarouselSound(HardwareMode), CarouselSound(HardwareMode)', NEW m \in GuiMessage,
         HandleGui(m), m.type \notin Rebuilding
  PROVE  Undisturbed
<1>1. CASE m.type \in {"POLY_NAV_LEFT", "POLY_NAV_RIGHT"}
  <2>1. NavigateBy(-1) \/ NavigateBy(1)
      BY <1>1 DEF HandleGui, NavigateLeft, NavigateRight
  <2>2. -1 \in Int /\ 1 \in Int
      OBVIOUS
  <2> QED BY <2>1, <2>2, NavigateDrawn
<1>2. CASE m.type \notin {"POLY_NAV_LEFT", "POLY_NAV_RIGHT"}
  <2>1. m.type \notin Rebuilding \cup {"POLY_NAV_LEFT", "POLY_NAV_RIGHT"}
      BY <1>2
  <2>2. SameDrawn
      BY <2>1, MessageDrawn
  <2> QED BY <2>2, SameDrawnUndisturbed
<1> QED BY <1>1, <1>2

(* Of a rebuild under way, all but POLY_READY has been handled, or not.    *)
LEMMA HeadOfRebuild ==
  ASSUME NEW pre \in Seq(GuiMessage), NEW tail \in Seq(GuiMessage), NEW q,
         q = (pre \o <<ReadyMsg>>) \o tail
  PROVE  /\ pre = << >> => Head(q) = ReadyMsg /\ Tail(q) = tail
         /\ pre # << >> => Head(q) = Head(pre) /\ Tail(q) = (Tail(pre) \o <<ReadyMsg>>) \o tail
<1> DEFINE z == <<ReadyMsg>>
<1>1. z \in Seq(GuiMessage) /\ z # << >> /\ Head(z) = ReadyMsg /\ Tail(z) = << >>
    BY MessagesSent
<1> HIDE DEF z
<1>2. CASE pre = << >>
  <2>1. q = z \o tail
      BY <1>1, <1>2 DEF z
  <2>2. Head(z \o tail) = Head(z) /\ Tail(z \o tail) = Tail(z) \o tail
      BY <1>1, TailInFront
  <2> QED BY <1>1, <1>2, <2>1, <2>2
<1>3. CASE pre # << >>
  <2>1. /\ Head(pre \o z) = Head(pre) /\ Tail(pre \o z) = Tail(pre) \o z
        /\ pre \o z # << >> /\ pre \o z \in Seq(GuiMessage)
      BY <1>1, <1>3, TailInFront
  <2>2. /\ Head((pre \o z) \o tail) = Head(pre \o z)
        /\ Tail((pre \o z) \o tail) = Tail(pre \o z) \o tail
      BY <2>1, TailInFront
  <2> QED BY <1>3, <2>1, <2>2 DEF z
<1> QED BY <1>2, <1>3

LEMMA AllArrived ==
  ASSUME NEW masks, NEW c, Arrives(masks, c, << >>)
  PROVE  Seen(masks, staged) = c
<1>1. ASSUME NEW before \in Seq(GuiMessage), NEW part \in Seq(GuiMessage),
             << >> = (before \o <<RebuildMsg>>) \o part
      PROVE  FALSE
  <2>1. <<RebuildMsg>> \in Seq(GuiMessage) /\ Len(<<RebuildMsg>>) = 1
      BY MessagesSent
  <2>2. Len(<< >>) = Len(before) + 1 + Len(part)
      BY <1>1, <2>1
  <2> QED BY <2>2
<1> QED BY <1>1, FilledNowhere DEF Arrives

LEMMA TakingTells ==
  ASSUME SystemSound, SystemSound', NEW c, Len(c) = NumRings, Told(c) \/ Drawn(c), GuiHandles
  PROVE  Told(c)' \/ Drawn(c)'
<1> DEFINE m == Head(toGui)
           z == <<ReadyMsg>>
<1>0. /\ toGui \in Seq(GuiMessage) /\ toGui # << >> /\ m \in GuiMessage /\ HandleGui(m)
      /\ toGui' = Tail(toGui) /\ CarouselSound(HardwareMode) /\ CarouselSound(HardwareMode)'
    BY DEF SystemSound, GuiHandles
<1>1. CASE Drawn(c)
  <2>1. 1 \in 1 .. Len(toGui) /\ m = toGui[1]
      BY <1>0
  <2>2. m.type \notin Rebuilding
      BY <1>1, <2>1 DEF Drawn, Silent
  <2>3. Undisturbed
      BY <1>0, <2>2, MessageUndisturbed
  <2>4. Silent(toGui', Rebuilding)
      BY <1>0, <1>1, StaysSilent DEF Drawn
  <2> QED BY <1>1, <2>3, <2>4 DEF Drawn, Undisturbed
<1>2. CASE Told(c)
  <2>1. PICK pre \in Seq(GuiMessage), tail \in Seq(GuiMessage) :
          toGui = (pre \o z) \o tail /\ Silent(tail, Rebuilding) /\ Arrives(FALSE, c, pre)
      BY <1>2 DEF Told
  <2>2. CASE pre = << >>
    <3>1. m = ReadyMsg /\ toGui' = tail
        BY <1>0, <2>1, <2>2, HeadOfRebuild
    <3>2. OnReady
        BY <1>0, <3>1, MessagesSent DEF HandleGui
    <3>3. Seen(FALSE, staged) = c
        BY <2>1, <2>2, AllArrived
    <3>4. Layout(c)'
        BY <1>0, <3>2, <3>3, ReadyDrawn
    <3> QED BY <2>1, <3>1, <3>4 DEF Drawn
  <2>3. CASE pre # << >>
    <3>1. m = Head(pre) /\ toGui' = (Tail(pre) \o z) \o tail
        BY <1>0, <2>1, <2>3, HeadOfRebuild
    <3>2. Arrives(FALSE, c, Tail(pre))'
        BY <1>0, <2>1, <2>3, <3>1, TakingArrives
    <3>3. Tail(pre) \in Seq(GuiMessage)
        BY <2>3
    <3> QED BY <2>1, <3>1, <3>2, <3>3 DEF Told
  <2> QED BY <2>2, <2>3
<1> QED BY <1>1, <1>2

(***************************************************************************)
(* The engine answers: silence keeps what is under way, a rebuild replaces *)
(* it.                                                                     *)
(***************************************************************************)
LEMMA SilenceKeeps ==
  ASSUME toGui \in Seq(GuiMessage), NEW c, Told(c) \/ Drawn(c), UNCHANGED <<staged, sets>>,
         NEW b \in Seq(GuiMessage), toGui' = toGui \o b, Silent(b, Rebuilding)
  PROVE  Told(c)' \/ Drawn(c)'
<1>1. CASE Told(c)
  <2> DEFINE z == <<ReadyMsg>>
  <2>1. PICK pre \in Seq(GuiMessage), tail \in Seq(GuiMessage) :
          toGui = (pre \o z) \o tail /\ Silent(tail, Rebuilding) /\ Arrives(FALSE, c, pre)
      BY <1>1 DEF Told
  <2>2. z \in Seq(GuiMessage)
      BY MessagesSent
  <2> HIDE DEF z
  <2>3. pre \o z \in Seq(GuiMessage)
      BY <2>1, <2>2
  <2>4. ((pre \o z) \o tail) \o b = (pre \o z) \o (tail \o b) /\ tail \o b \in Seq(GuiMessage)
    <3>1. PICK front \in Seq(GuiMessage) : front = pre \o z
        BY <2>3
    <3>2. (front \o tail) \o b = front \o (tail \o b) /\ tail \o b \in Seq(GuiMessage)
        BY Regrouped
    <3> QED BY <3>1, <3>2
  <2>5. Silent(tail \o b, Rebuilding)
      BY <2>1, BothSilent
  <2>6. Arrives(FALSE, c, pre)'
      BY <2>1 DEF Arrives
  <2>7. toGui' = (pre \o z) \o (tail \o b)
      BY <2>1, <2>4
  <2> QED BY <2>1, <2>4, <2>5, <2>6, <2>7 DEF Told, z
<1>2. CASE Drawn(c)
  <2>1. Silent(toGui', Rebuilding)
      BY <1>2, BothSilent DEF Drawn
  <2> QED BY <1>2, <2>1 DEF Drawn, Layout
<1> QED BY <1>1, <1>2

LEMMA ClosingFills ==
  ASSUME NEW masks, NEW a \in Staging, NEW q \in Seq(GuiMessage),
         \A i \in 1 .. Len(q) : q[i].type \in Closing
  PROVE  Fills(masks, a, q, a)
<1> DEFINE n == Len(q)
           f == [i \in 0 .. n |-> a]
<1>1. n \in Nat /\ \A i \in 1 .. n : q[i] \in GuiMessage
    OBVIOUS
<1>2. ASSUME NEW i \in 1 .. n
      PROVE  <<a, q[i], a>> \in Fill(masks)
  <2>1. After(masks, a, q[i]) = a
      BY DEF After, Closing
  <2> QED BY <1>1, <2>1 DEF Fill
<1>3. f \in [0 .. n -> Staging] /\ \A i \in 0 .. n : f[i] = a
    OBVIOUS
<1> HIDE DEF f
<1>4. 0 \in 0 .. n /\ n \in 0 .. n /\ \A i \in 1 .. n : i \in 0 .. n /\ i - 1 \in 0 .. n
    BY <1>1
<1>5. f[0] = a /\ f[n] = a /\ \A i \in 1 .. n : <<f[i - 1], q[i], f[i]>> \in Fill(masks)
    BY <1>2, <1>3, <1>4
<1> HIDE DEF n
<1> QED BY <1>3, <1>5 DEF Fills, Leads, n

LEMMA Unbracketed ==
  ASSUME NEW g \in Seq(GuiMessage), NEW x \in Seq(GuiMessage), NEW y \in Seq(GuiMessage),
         NEW z \in Seq(GuiMessage)
  PROVE  g \o ((x \o y) \o z) = ((g \o x) \o y) \o z
<1>1. x \o y \in Seq(GuiMessage) /\ (g \o x) \o y = g \o (x \o y)
    BY Regrouped
<1> DEFINE w == x \o y
<1>2. w \in Seq(GuiMessage) /\ (g \o x) \o y = g \o w
    BY <1>1
<1> HIDE DEF w
<1>3. (g \o w) \o z = g \o (w \o z)
  <2>1. \A t \in Seq(GuiMessage), u \in Seq(GuiMessage) : (g \o t) \o u = g \o (t \o u)
      BY RegroupedAll, Zenon
  <2>2. \A u \in Seq(GuiMessage) : (g \o w) \o u = g \o (w \o u)
      BY <1>2, <2>1, Zenon
  <2> QED BY <2>2, Zenon
<1>4. ((g \o x) \o y) \o z = g \o (w \o z)
    BY <1>2, <1>3
<1> QED BY <1>4 DEF w

LEMMA RebuildBehind ==
  ASSUME rings' \in [Ring -> RingType], selectedRing' \in Nat, NEW b, Rebuilds(b),
         NEW g \in Seq(GuiMessage), NEW masks \in BOOLEAN
  PROVE  \E part \in Seq(GuiMessage) :
           /\ g \o b = ((g \o <<RebuildMsg>>) \o part) \o <<ReadyMsg>>
           /\ Fills(masks, << >>, part, Copies(masks, rings'))
<1> DEFINE x == <<RebuildMsg>>
           s == <<SelectMsg(selectedRing')>>
           z == <<ReadyMsg>>
           d == AllRingData
           c == Copies(masks, rings')
<1>1. PICK rest \in Seq(GuiMessage) :
        b = x \o (d \o (s \o rest)) \o z
          /\ \A i \in 1 .. Len(rest) : rest[i].type \in Closing \ {"POLY_SELECT"}
    BY DEF Rebuilds
<1>2. /\ x \in Seq(GuiMessage) /\ z \in Seq(GuiMessage) /\ s \in Seq(GuiMessage)
      /\ SelectMsg(selectedRing').type \in Closing /\ SelectMsg(selectedRing') \in GuiMessage
    BY MessagesSent DEF Closing
<1>3. d \in Seq(GuiMessage) /\ Fills(masks, << >>, d, c) /\ c \in Staging
    BY AllRingsFill, CopiesType
<1>4. s \o rest \in Seq(GuiMessage) /\ \A i \in 1 .. Len(s \o rest) : (s \o rest)[i].type \in Closing
  <2>1. /\ \A i \in 1 .. 1 + Len(rest) : (s \o rest)[i] =
             IF i = 1 THEN SelectMsg(selectedRing') ELSE rest[i - 1]
        /\ Len(s \o rest) = 1 + Len(rest) /\ s \o rest \in Seq(GuiMessage)
      BY <1>2
  <2>2. ASSUME NEW i \in 1 .. 1 + Len(rest), i # 1
        PROVE  i - 1 \in 1 .. Len(rest)
      BY <2>2
  <2> HIDE DEF s
  <2> QED BY <1>1, <1>2, <2>1, <2>2
<1> DEFINE u == s \o rest
           y == d \o u
<1> HIDE DEF x, s, z, d, u, c
<1>5. y \in Seq(GuiMessage) /\ Fills(masks, << >>, y, c)
  <2>1. u \in Seq(GuiMessage)
      BY <1>4 DEF u
  <2>3. \A i \in 1 .. Len(u) : u[i].type \in Closing
      BY <1>4 DEF u
  <2>0. c \in Staging
      BY <1>3
  <2>2. Fills(masks, c, u, c)
      BY <2>0, <2>1, <2>3, ClosingFills
  <2>4. d \in Seq(GuiMessage) /\ Fills(masks, << >>, d, c)
      BY <1>3
  <2>5. Fills(masks, << >>, d \o u, c)
      BY <2>1, <2>2, <2>4, FillsOn
  <2>6. d \o u \in Seq(GuiMessage)
      BY <2>1, <2>4
  <2> QED BY <2>5, <2>6
<1>6. b = (x \o y) \o z
    BY <1>1 DEF u
<1> HIDE DEF y
<1>7. g \o b = ((g \o x) \o y) \o z
  <2>1. x \in Seq(GuiMessage) /\ y \in Seq(GuiMessage) /\ z \in Seq(GuiMessage)
      BY <1>2, <1>5
  <2>2. \A o \in Seq(GuiMessage), p \in Seq(GuiMessage), q \in Seq(GuiMessage), r \in Seq(GuiMessage) :
          o \o ((p \o q) \o r) = ((o \o p) \o q) \o r
      BY Unbracketed
  <2>3. \A p \in Seq(GuiMessage), q \in Seq(GuiMessage), r \in Seq(GuiMessage) :
          g \o ((p \o q) \o r) = ((g \o p) \o q) \o r
      BY <2>2, Zenon
  <2>4. \A q \in Seq(GuiMessage), r \in Seq(GuiMessage) :
          g \o ((x \o q) \o r) = ((g \o x) \o q) \o r
      BY <2>1, <2>3, Zenon
  <2>5. \A r \in Seq(GuiMessage) : g \o ((x \o y) \o r) = ((g \o x) \o y) \o r
      BY <2>1, <2>4, Zenon
  <2>6. g \o ((x \o y) \o z) = ((g \o x) \o y) \o z
      BY <2>1, <2>5, Zenon
  <2> QED BY <1>6, <2>6
<1> QED BY <1>5, <1>7 DEF x, z, c

LEMMA RebuildIsTold ==
  ASSUME toGui \in Seq(GuiMessage), rings' \in [Ring -> RingType], selectedRing' \in Nat,
         NEW b, toGui' = toGui \o b, Rebuilds(b), NEW c, c = Copies(FALSE, rings')
  PROVE  Told(c)'
<1> DEFINE x == <<RebuildMsg>>
           z == <<ReadyMsg>>
<1>1. PICK g \in Seq(GuiMessage) : g = toGui
    OBVIOUS
<1>2. PICK part \in Seq(GuiMessage) :
        g \o b = ((g \o x) \o part) \o z /\ Fills(FALSE, << >>, part, c)
    BY <1>1, RebuildBehind
<1>3. x \in Seq(GuiMessage) /\ z \in Seq(GuiMessage)
    BY MessagesSent
<1> HIDE DEF x, z
<1> DEFINE pre == (g \o x) \o part
<1>4. pre \in Seq(GuiMessage)
    BY <1>1, <1>2, <1>3
<1>5. Arrives(FALSE, c, pre)'
    BY <1>1, <1>2 DEF Arrives, x
<1>6. toGui' = pre \o z
    BY <1>1, <1>2
<1> HIDE DEF pre
<1>7. << >> \in Seq(GuiMessage) /\ toGui' = (pre \o z) \o << >>
    BY <1>3, <1>4, <1>6
<1> QED BY <1>4, <1>5, <1>7, NothingSilent DEF Told, z

(***************************************************************************)
(* No step of the system changes what the rebuilds under way lead to,      *)
(* unless it changes the rings as well.                                    *)
(***************************************************************************)
LEMMA SameCopies ==
  ASSUME SameOutlines
  PROVE  Copies(FALSE, rings') = Copies(FALSE, rings)
<1>1. \A i \in 1 .. NumRings : i - 1 \in Ring
    BY EngineAssumption DEF Ring
<1>2. \A i \in 1 .. NumRings : Copy(FALSE, rings'[i - 1]) = Copy(FALSE, rings[i - 1])
    BY <1>1 DEF SameOutlines, Copy
<1> QED BY <1>2 DEF Copies

LEMMA SpeakingTells ==
  ASSUME SystemSound, EngineHandles, NEW c, c = Copies(FALSE, rings), Told(c) \/ Drawn(c)
  PROVE  \E d : d = Copies(FALSE, rings') /\ (Told(d)' \/ Drawn(d)')
<1>1. /\ toGui \in Seq(GuiMessage) /\ toAudio \in Seq(Command) /\ toAudio # << >> /\ Sound
      /\ Handle(Head(toAudio)) /\ UNCHANGED guiState
    BY DEF SystemSound, EngineHandles
<1>2. PICK m \in Command : m = Head(toAudio)
    BY <1>1
<1>3. Sound' /\ Tells(m)
    BY <1>1, <1>2, HandleTells
<1>4. PICK b \in Seq(GuiMessage) : toGui' = toGui \o b /\ Speaks(m, b)
    BY <1>3 DEF Tells
<1>5. PICK d : d = Copies(FALSE, rings')
    OBVIOUS
<1>6. CASE Silent(b, Rebuilding) /\ SameOutlines
  <2>1. d = c
      BY <1>5, <1>6, SameCopies
  <2>2. UNCHANGED <<staged, sets>>
      BY <1>1 DEF guiState
  <2>3. Told(c)' \/ Drawn(c)'
      BY <1>1, <1>4, <1>6, <2>2, SilenceKeeps
  <2> QED BY <1>5, <2>1, <2>3
<1>7. CASE Rebuilds(b)
  <2>1. rings' \in [Ring -> RingType] /\ selectedRing' \in Nat
      BY <1>3, EngineAssumption DEF Sound, Ring
  <2>2. Told(d)'
      BY <1>1, <1>4, <1>5, <1>7, <2>1, RebuildIsTold
  <2> QED BY <1>5, <2>2
<1>8. Silent(b, Rebuilding \cup {"POLY_SELECT"}) => Silent(b, Rebuilding)
    BY DEF Silent
<1> QED BY <1>4, <1>6, <1>7, <1>8 DEF Speaks

LEMMA PlayheadKeeps ==
  ASSUME SystemSound, EnginePlays, NEW c, Told(c) \/ Drawn(c)
  PROVE  Told(c)' \/ Drawn(c)'
<1> DEFINE head == [type |-> "POLY_PLAYHEAD"]
<1>1. head \in GuiMessage /\ head.type \notin Rebuilding
    BY DEF GuiMessage, Rebuilding, Filling
<1>2. UNCHANGED <<staged, sets>> /\ toGui \in Seq(GuiMessage)
    BY DEF SystemSound, EnginePlays, guiVars
<1>3. toGui' = toGui \o <<head>>
    BY PlayheadSent
<1> HIDE DEF head
<1>4. <<head>> \in Seq(GuiMessage) /\ Silent(<<head>>, Rebuilding)
    BY <1>1, OneSilent
<1> QED BY <1>2, <1>3, <1>4, SilenceKeeps

LEMMA ActingDraws ==
  ASSUME SystemSound, SystemSound', NEW kind, UserActs(kind)
  PROVE  Undisturbed
<1>1. CarouselSound(HardwareMode) /\ CarouselSound(HardwareMode)'
    BY DEF SystemSound
<1>2. CASE sets # << >> /\ Touch(kind)
    BY <1>1, <1>2, TouchDrawn, SameDrawnUndisturbed
<1>3. CASE NavigateLeft \/ NavigateRight
  <2>1. -1 \in Int /\ 1 \in Int
      OBVIOUS
  <2> QED BY <1>1, <1>3, <2>1, NavigateDrawn DEF NavigateLeft, NavigateRight
<1>4. CASE KeyPlay
    BY <1>1, <1>4, KeyPlayDrawn, SameDrawnUndisturbed
<1> QED BY <1>2, <1>3, <1>4 DEF UserActs, Key

LEMMA ShapesStep == ShapesInv /\ [SystemNext]_systemVars => ShapesInv'
<1> SUFFICES ASSUME ShapesInv, [SystemNext]_systemVars
             PROVE  Told(Copies(FALSE, rings))' \/ Drawn(Copies(FALSE, rings))'
    BY SystemStepSound DEF ShapesInv
<1>0. SystemSound /\ SystemSound' /\ CarouselSound(HardwareMode) /\ CarouselSound(HardwareMode)'
    BY SystemStepSound DEF ShapesInv, SystemSound
<1>1. PICK c : c = Copies(FALSE, rings)
    OBVIOUS
<1>2. PICK d : d = Copies(FALSE, rings')
    OBVIOUS
<1>3. Told(c) \/ Drawn(c)
    BY <1>1 DEF ShapesInv
<1>4. Len(c) = NumRings
    BY <1>0, <1>1, CopiesType DEF SystemSound, Sound
<1> SUFFICES Told(d)' \/ Drawn(d)'
    BY <1>2
<1>5. ASSUME UNCHANGED <<rings, toGui>>, Undisturbed
      PROVE  Told(d)' \/ Drawn(d)'
  <2>1. d = c
      BY <1>1, <1>2, <1>5
  <2> QED BY <1>3, <1>5, <2>1, UndisturbedKeeps
<1>6. ASSUME UNCHANGED <<rings, toGui, staged, sets>>
      PROVE  Told(d)' \/ Drawn(d)'
    BY <1>0, <1>5, <1>6, NothingDrawn, SameDrawnUndisturbed
<1>7. CASE GuiStarts
    BY <1>6, <1>7 DEF GuiStarts, engineVars, guiState
<1>8. CASE GuiHandles
  <2>1. d = c
      BY <1>1, <1>2, <1>8 DEF GuiHandles, engineState
  <2> QED BY <1>0, <1>3, <1>4, <1>8, <2>1, TakingTells
<1>9. CASE EngineHandles
    BY <1>0, <1>1, <1>2, <1>3, <1>9, SpeakingTells
<1>10. CASE EnginePlays
  <2>1. d = c
      BY <1>1, <1>2, <1>10 DEF EnginePlays, engineState
  <2> QED BY <1>0, <1>3, <1>10, <2>1, PlayheadKeeps
<1>11. ASSUME NEW kind \in Touches, UserActs(kind)
       PROVE  Told(d)' \/ Drawn(d)'
    BY <1>0, <1>5, <1>11, ActingDraws DEF UserActs, engineVars
<1>12. ASSUME NEW m \in Commands, HardwareSends(m)
       PROVE  Told(d)' \/ Drawn(d)'
    BY <1>6, <1>12 DEF HardwareSends, engineVars, guiState
<1>13. CASE AnimationPasses
    BY <1>6, <1>13 DEF AnimationPasses, AnimationEnds, engineVars
<1>14. CASE UNCHANGED systemVars
    BY <1>6, <1>14 DEF systemVars, engineVars, guiVars
<1> QED BY <1>7, <1>8, <1>9, <1>10, <1>11, <1>12, <1>13, <1>14 DEF SystemNext

LEMMA ShapesInit == SystemInit => ShapesInv
<1> SUFFICES ASSUME SystemInit PROVE Drawn(Copies(FALSE, rings))
    BY SystemInitSound DEF ShapesInv
<1>1. toGui = << >> /\ sets = << >>
    BY DEF SystemInit, EngineInit, CarouselInit
<1> QED BY <1>1, NothingSilent DEF Drawn

(* Where a ring is shown.                                                  *)
LEMMA PlaceOfRing ==
  ASSUME NEW r \in Ring
  PROVE  /\ r \in Nat /\ SetOf(r) \in Nat /\ LocalOf(r) \in Nat
         /\ SetOf(r) < SetsNeeded /\ LocalOf(r) < Held(SetOf(r))
         /\ FirstRing(SetOf(r)) + LocalOf(r) = r
<1> DEFINE s == SetOf(r)
           i == LocalOf(r)
           R == RingsPerSet
           q == (NumRings + R - 1) \div R
<1>1. R \in Nat /\ R > 0 /\ NumRings \in Nat /\ r \in Nat /\ r < NumRings
    BY EngineAssumption, CarouselAssumption DEF Ring
<1>2. s \in Nat /\ i \in Nat /\ i < R /\ r = R * s + i
    BY <1>1 DEF SetOf, LocalOf
<1>3. q \in Nat /\ NumRings <= R * q
  <2>1. ASSUME NEW x \in Nat
        PROVE  x \div R \in Nat /\ x < R * (x \div R) + R
      BY <1>1
  <2>2. NumRings + R - 1 \in Nat
      BY <1>1
  <2>3. q \in Nat /\ NumRings + R - 1 < R * q + R
      BY <2>1, <2>2
  <2>4. R * q \in Int
      BY <1>1, <2>3
  <2> HIDE DEF q
  <2> QED BY <1>1, <2>3, <2>4
<1>4. q = SetsNeeded
    BY DEF SetsNeeded
<1> HIDE DEF s, i, R, q
<1>5. s < q
  <2> SUFFICES ASSUME s >= q PROVE FALSE
      BY <1>2, <1>3
  <2>1. R * s >= R * q
      BY <1>1, <1>2, <1>3
  <2> QED BY <1>1, <1>2, <1>3, <2>1
<1>6. R * s = s * R /\ s * R \in Nat
    BY <1>1, <1>2
<1>7. FirstRing(s) = s * R
    BY DEF FirstRing, R
<1>8. i < Held(s) /\ FirstRing(s) + i = r
    BY <1>1, <1>2, <1>6, <1>7 DEF Held, R
<1> QED BY <1>1, <1>2, <1>4, <1>5, <1>8 DEF s, i

(* The sets show of a ring what the engine was able to say of it.          *)
LEMMA RingIsShown ==
  ASSUME NEW c, Layout(c), NEW r \in Ring
  PROVE  Outline(Shown(r)) = c[r + 1]
<1> DEFINE s == SetOf(r)
           i == LocalOf(r)
<1>1. /\ s \in Nat /\ i \in Nat /\ r \in Nat
      /\ s < SetsNeeded /\ i < Held(s) /\ FirstRing(s) + i = r
    BY PlaceOfRing
<1>2. SetsNeeded \in Int /\ Held(s) \in Int /\ FirstRing(s) \in Nat
    BY <1>1, RingNumbers, EngineAssumption, CarouselAssumption DEF SetsNeeded, Held
<1> HIDE DEF s, i
<1>3. i + 1 \in 1 .. Held(s) /\ FirstRing(s) + (i + 1) = r + 1
    BY <1>1, <1>2
<1>4. s + 1 \in 1 .. Len(sets) /\ (s + 1) - 1 = s
    BY <1>1, <1>2 DEF Layout
<1>5. SetShows(c, s, sets[s + 1])
    BY <1>4 DEF Layout
<1>6. Outline(sets[s + 1].rings[i + 1]) = c[r + 1]
    BY <1>3, <1>5 DEF SetShows
<1> QED BY <1>6 DEF Shown, s, i

(***************************************************************************)
(* What is shown of every ring once nothing is under way: its shapes, and  *)
(* its timeline unless that was too long to be sent.                       *)
(***************************************************************************)
ShownAsSent ==
  Settled => \A r \in Ring :
               /\ Shown(r).shapes = rings[r].shapes
               /\ Shown(r).timeline = IF PointCount(rings[r]) <= MaxTimelinePoints
                                      THEN rings[r].timeline ELSE {}

TimelinesFit == \A r \in Ring : PointCount(rings[r]) <= MaxTimelinePoints

LEMMA ToldIsShown == ShapesInv => ShownAsSent
<1> SUFFICES ASSUME ShapesInv, Settled, NEW r \in Ring
             PROVE  /\ Shown(r).shapes = rings[r].shapes
                    /\ Shown(r).timeline = IF PointCount(rings[r]) <= MaxTimelinePoints
                                           THEN rings[r].timeline ELSE {}
    BY DEF ShownAsSent
<1>1. PICK c : c = Copies(FALSE, rings)
    OBVIOUS
<1>2. toGui = << >> /\ sets # << >> /\ Sound
    BY DEF Settled, UnderWay, ShapesInv, SystemSound
<1>3. ~ Told(c)
  <2> SUFFICES ASSUME NEW pre \in Seq(GuiMessage), NEW tail \in Seq(GuiMessage),
                      << >> = (pre \o <<ReadyMsg>>) \o tail
               PROVE  FALSE
      BY <1>2 DEF Told
  <2>1. <<ReadyMsg>> \in Seq(GuiMessage)
      BY MessagesSent
  <2>2. Len((pre \o <<ReadyMsg>>) \o tail) = (Len(pre) + 1) + Len(tail)
      BY <2>1
  <2>3. Len(<< >>) = 0 /\ Len(pre) \in Nat /\ Len(tail) \in Nat
      OBVIOUS
  <2>4. (Len(pre) + 1) + Len(tail) = 0
      BY <2>2, <2>3
  <2> QED BY <2>3, <2>4
<1>4. Layout(c)
    BY <1>1, <1>2, <1>3 DEF ShapesInv, Drawn
<1>5. Outline(Shown(r)) = c[r + 1]
    BY <1>4, RingIsShown
<1>6. Copies(FALSE, rings)[r + 1] = Copy(FALSE, rings[r])
    BY <1>2, CopiesType DEF Sound
<1>7. Outline(Shown(r)) = Copy(FALSE, rings[r])
    BY <1>1, <1>5, <1>6
<1> QED BY <1>7 DEF Outline, Bare, Copy, PointCount

(***************************************************************************)
(* However touches, hardware commands, navigation and rebuilds cross: once *)
(* nothing is under way, every ring is shown with the engine's shapes, and *)
(* with its timeline or, when sendMessage refused that as too long, none.  *)
(***************************************************************************)
THEOREM RingsAreShownAsSent == SystemSpec => []ShownAsSent
BY ToldIsShown, ShapesInit, ShapesStep, PTL DEF SystemSpec

(***************************************************************************)
(* So the GUI and the engine agree on every ring as long as no timeline is *)
(* longer than a message carries.                                          *)
(***************************************************************************)
THEOREM ShapesMeet == SystemSpec => [](TimelinesFit => ShapesAgree)
<1>1. ShownAsSent => (TimelinesFit => ShapesAgree)
    BY DEF ShownAsSent, TimelinesFit, ShapesAgree
<1> QED BY <1>1, RingsAreShownAsSent, PTL

-----------------------------------------------------------------------------
(***************************************************************************)
(* Which ring is chosen: nothing but POLY_SELECT, POLY_READY, navigation   *)
(* and the ring labels change it.                                          *)
(***************************************************************************)
SameChoice ==
  /\ UNCHANGED <<pendingRing, currentSet>>
  /\ Len(sets') = Len(sets)
  /\ \A s \in 1 .. Len(sets) : /\ sets'[s].selected = sets[s].selected
                               /\ sets'[s].slotSelected = sets[s].slotSelected

(* Or the engine is asked to select another.                               *)
AsksToSelect ==
  /\ pendingRing' = pendingRing
  /\ sets # << >>
  /\ \E r : SendsToAudio([type |-> "POLY_SET_SELECTED_RING", ring |-> r])

LEMMA NothingChosen ==
  ASSUME UNCHANGED <<sets, pendingRing, currentSet>>
  PROVE  SameChoice
BY DEF SameChoice

LEMMA OneSetChosen ==
  ASSUME NEW modes, CarouselSound(modes), UNCHANGED <<pendingRing, currentSet>>,
         NEW s \in 1 .. Len(sets), NEW set, sets' = [sets EXCEPT ![s] = set],
         set.selected = sets[s].selected, set.slotSelected = sets[s].slotSelected
  PROVE  SameChoice
<1>1. sets \in Seq(ShownSet(modes))
    BY DEF CarouselSound
<1>2. Len(sets') = Len(sets) /\ \A t \in 1 .. Len(sets) : sets'[t] = IF t = s THEN set ELSE sets[t]
    BY <1>1
<1> QED BY <1>2 DEF SameChoice

LEMMA EverySetChosen ==
  ASSUME NEW modes, CarouselSound(modes), UNCHANGED <<pendingRing, currentSet>>,
         \/ \E playing : sets' = [s \in DOMAIN sets |-> [sets[s] EXCEPT !.playing = playing]]
         \/ \E mode : sets' = [s \in DOMAIN sets |-> [sets[s] EXCEPT !.mode = mode]]
  PROVE  SameChoice
<1>1. DOMAIN sets = 1 .. Len(sets) /\ Len(sets) \in Nat
      /\ \A s \in 1 .. Len(sets) : sets[s] \in ShownSet(modes)
    BY DEF CarouselSound
<1>2. ASSUME NEW x, NEW s \in 1 .. Len(sets)
      PROVE  /\ [sets[s] EXCEPT !.playing = x].selected = sets[s].selected
             /\ [sets[s] EXCEPT !.playing = x].slotSelected = sets[s].slotSelected
             /\ [sets[s] EXCEPT !.mode = x].selected = sets[s].selected
             /\ [sets[s] EXCEPT !.mode = x].slotSelected = sets[s].slotSelected
    BY <1>1 DEF ShownSet
<1>3. CASE \E playing : sets' = [s \in DOMAIN sets |-> [sets[s] EXCEPT !.playing = playing]]
  <2>1. PICK x : sets' = [s \in 1 .. Len(sets) |-> [sets[s] EXCEPT !.playing = x]]
      BY <1>1, <1>3
  <2>2. Len(sets') = Len(sets)
      BY <1>1, <2>1
  <2>3. ASSUME NEW s \in 1 .. Len(sets)
        PROVE  sets'[s].selected = sets[s].selected /\ sets'[s].slotSelected = sets[s].slotSelected
    <3>1. sets'[s] = [sets[s] EXCEPT !.playing = x]
        BY <2>1
    <3> QED BY <1>2, <3>1
  <2> QED BY <2>2, <2>3 DEF SameChoice
<1>4. CASE \E mode : sets' = [s \in DOMAIN sets |-> [sets[s] EXCEPT !.mode = mode]]
  <2>1. PICK x : sets' = [s \in 1 .. Len(sets) |-> [sets[s] EXCEPT !.mode = x]]
      BY <1>1, <1>4
  <2>2. Len(sets') = Len(sets)
      BY <1>1, <2>1
  <2>3. ASSUME NEW s \in 1 .. Len(sets)
        PROVE  sets'[s].selected = sets[s].selected /\ sets'[s].slotSelected = sets[s].slotSelected
    <3>1. sets'[s] = [sets[s] EXCEPT !.mode = x]
        BY <2>1
    <3> QED BY <1>2, <3>1
  <2> QED BY <2>2, <2>3 DEF SameChoice
<1> QED BY <1>3, <1>4

LEMMA PointsChooseNothing ==
  ASSUME NEW modes, NEW set \in ShownSet(modes), NEW i, NEW p
  PROVE  /\ UiSelectPoint(set, i, p).selected = set.selected
         /\ UiSelectPoint(set, i, p).slotSelected = set.slotSelected
         /\ UiToggle(set, i, p).selected = set.selected
         /\ UiToggle(set, i, p).slotSelected = set.slotSelected
BY DEF UiSelectPoint, UiToggle, ShownSet

LEMMA MessageChooses ==
  ASSUME NEW modes, CarouselSound(modes), NEW m \in GuiMessage, HandleGui(m),
         m.type \notin {"POLY_SELECT", "POLY_READY", "POLY_NAV_LEFT", "POLY_NAV_RIGHT"}
  PROVE  SameChoice
<1>1. ASSUME NEW playing, OnPlayState(playing)
      PROVE  SameChoice
    BY <1>1, EverySetChosen DEF OnPlayState
<1>2. CASE m.type = "POLY_PLAYHEAD"
    BY <1>1, <1>2, NothingChosen DEF HandleGui, OnPlayhead, guiVars
<1>3. CASE m.type \in Filling \cup {"POLY_REBUILD"}
    BY <1>3, NothingChosen DEF Filling, HandleGui, OnRebuild, OnRing, OnRingShape, OnRingTimeline,
       OnRingActive, Stages
<1>4. CASE m.type = "POLY_HW_MODE"
    BY <1>4, EverySetChosen DEF HandleGui, OnHwMode
<1>5. ASSUME NEW r \in Nat, NEW p \in Nat, OnToggle(r, p)
      PROVE  SameChoice
  <2>1. CASE SetOf(r) < Len(sets)
    <3> DEFINE s == SetOf(r) + 1
               toggled == UiToggle(sets[s], LocalOf(r), p)
               new == UiSelectPoint(toggled, LocalOf(r), p)
    <3>1. s \in 1 .. Len(sets) /\ sets[s] \in ShownSet(modes) /\ LocalOf(r) \in Nat
        BY <2>1, SetOfRing
    <3>2. toggled \in ShownSet(modes)
        BY <1>5, <3>1, UiToggleShown
    <3>3. new.selected = sets[s].selected /\ new.slotSelected = sets[s].slotSelected
        BY <3>1, <3>2, PointsChooseNothing
    <3>4. sets' = [sets EXCEPT ![s] = new] /\ UNCHANGED <<pendingRing, currentSet>>
        BY <1>5, <2>1 DEF OnToggle
    <3> HIDE DEF new
    <3> QED BY <3>1, <3>3, <3>4, OneSetChosen
  <2>2. CASE ~ SetOf(r) < Len(sets)
      BY <1>5, <2>2, NothingChosen DEF OnToggle
  <2> QED BY <2>1, <2>2
<1>6. ASSUME NEW r \in Nat, NEW p \in Nat, OnSelectedPoint(r, p)
      PROVE  SameChoice
  <2>1. CASE SetOf(r) < Len(sets)
    <3> DEFINE s == SetOf(r) + 1
               new == UiSelectPoint(sets[s], LocalOf(r), p)
    <3>1. s \in 1 .. Len(sets) /\ sets[s] \in ShownSet(modes) /\ LocalOf(r) \in Nat
        BY <2>1, SetOfRing
    <3>3. new.selected = sets[s].selected /\ new.slotSelected = sets[s].slotSelected
        BY <3>1, PointsChooseNothing
    <3>4. sets' = [sets EXCEPT ![s] = new] /\ UNCHANGED <<pendingRing, currentSet>>
        BY <1>6, <2>1 DEF OnSelectedPoint
    <3> HIDE DEF new
    <3> QED BY <3>1, <3>3, <3>4, OneSetChosen
  <2>2. CASE ~ SetOf(r) < Len(sets)
      BY <1>6, <2>2, NothingChosen DEF OnSelectedPoint
  <2> QED BY <2>1, <2>2
<1>7. m.type \in {"POLY_TOGGLE", "POLY_SELECTED_POINT"} => m.ring \in Nat /\ m.point \in Nat
    BY MessageFields
<1> QED BY <1>1, <1>2, <1>3, <1>4, <1>5, <1>6, <1>7 DEF HandleGui, Filling

LEMMA NavigateChooses ==
  ASSUME NEW modes, CarouselSound(modes), NEW n, NavigateBy(n)
  PROVE  (SameChoice /\ UNCHANGED toAudio) \/ AsksToSelect
<1>1. CASE isAnimating \/ Len(sets) <= 1
    BY <1>1, NothingChosen DEF NavigateBy, guiVars
<1>2. CASE ~ (isAnimating \/ Len(sets) <= 1)
  <2>1. NavigateTo((currentSet + n) % Len(sets))
      BY <1>2 DEF NavigateBy
  <2>2. sets # << >>
      BY <1>2
  <2>3. pendingRing' = pendingRing
      BY <2>1 DEF NavigateTo
  <2>4. \E r : SendsToAudio([type |-> "POLY_SET_SELECTED_RING", ring |-> r])
      BY <2>1, Zenon DEF NavigateTo
  <2> QED BY <2>2, <2>3, <2>4 DEF AsksToSelect
<1> QED BY <1>1, <1>2

LEMMA TouchChooses ==
  ASSUME NEW modes, CarouselSound(modes), sets # << >>, NEW kind, Touch(kind)
  PROVE  SameChoice \/ AsksToSelect
<1>0. Centre \in ShownSet(modes) /\ currentSet + 1 \in 1 .. Len(sets)
    BY CentreIsShown
<1>1. ASSUME NEW set, set.selected = Centre.selected, set.slotSelected = Centre.slotSelected,
             sets' = [sets EXCEPT ![currentSet + 1] = set], UNCHANGED <<pendingRing, currentSet>>
      PROVE  SameChoice
    BY <1>0, <1>1, OneSetChosen DEF Centre
<1>2. ASSUME NEW i \in 0 .. RingsPerSet - 1, NEW p \in 0 .. 1, TouchDot(i, p)
      PROVE  SameChoice
  <2> DEFINE chosen == UiSelectPoint(Centre, i, p)
             new == UiToggle(chosen, i, p)
  <2>1. i \in Nat /\ p \in Nat
      BY CarouselAssumption
  <2>2. chosen \in ShownSet(modes)
      BY <1>0, <2>1, UiSelectPointShown
  <2>3. new.selected = chosen.selected /\ new.slotSelected = chosen.slotSelected
      BY <2>2, PointsChooseNothing
  <2>4. chosen.selected = Centre.selected /\ chosen.slotSelected = Centre.slotSelected
      BY <1>0, PointsChooseNothing
  <2>5. sets' = [sets EXCEPT ![currentSet + 1] = new] /\ UNCHANGED <<pendingRing, currentSet>>
      BY <1>2 DEF TouchDot, Centre
  <2> HIDE DEF new, chosen
  <2> QED BY <1>1, <2>3, <2>4, <2>5
<1>3. ASSUME NEW i \in 0 .. RingsPerSet - 1, TouchRingLabel(i)
      PROVE  AsksToSelect
  <2>1. \E r : SendsToAudio([type |-> "POLY_SET_SELECTED_RING", ring |-> r])
      BY <1>3, Zenon DEF TouchRingLabel
  <2> QED BY <1>3, <2>1 DEF TouchRingLabel, AsksToSelect
<1>4. ASSUME NEW mode, TouchMode(mode)
      PROVE  SameChoice
  <2> DEFINE new == [Centre EXCEPT !.mode = mode]
  <2>1. new.selected = Centre.selected /\ new.slotSelected = Centre.slotSelected
      BY <1>0 DEF ShownSet
  <2>2. sets' = [sets EXCEPT ![currentSet + 1] = new] /\ UNCHANGED <<pendingRing, currentSet>>
      BY <1>4 DEF TouchMode, Centre
  <2> HIDE DEF new
  <2> QED BY <1>1, <2>1, <2>2
<1>5. ASSUME NEW m, Asks(m)
      PROVE  SameChoice
    BY <1>5, NothingChosen DEF Asks, guiState
<1> QED BY <1>2, <1>3, <1>4, <1>5
        DEF Touch, TouchAddShape, TouchRemoveShape, TouchSubdivision, TouchRotate

LEMMA KeyPlayChooses ==
  ASSUME NEW modes, CarouselSound(modes), KeyPlay
  PROVE  SameChoice
BY EverySetChosen DEF KeyPlay

(* What is chosen when the ring that the engine named last is shown.       *)
Chosen(r) == ShownSelection = r /\ Centre.slotSelected = Centre.selected

LEMMA SelectChooses ==
  ASSUME NEW modes, CarouselSound(modes), NEW r \in Ring, OnSelect(r), NEW c, Layout(c)'
  PROVE  Chosen(r)'
<1> DEFINE s == SetOf(r)
           i == LocalOf(r)
           old == sets[s + 1]
           new == [UiSelectRing(old, i) EXCEPT !.slotSelected = i]
<1>1. /\ r \in Nat /\ s \in Nat /\ i \in Nat /\ s < SetsNeeded /\ i < Held(s)
      /\ FirstRing(s) + i = r
    BY PlaceOfRing
<1>2. sets \in Seq(ShownSet(modes)) /\ Len(sets) \in Nat
    BY DEF CarouselSound
<1>3. Len(sets') = Len(sets)
    BY <1>2 DEF OnSelect
<1>4. s < Len(sets)
    BY <1>1, <1>3 DEF Layout
<1>5. s + 1 \in 1 .. Len(sets) /\ (s + 1) - 1 = s /\ old \in ShownSet(modes)
    BY <1>1, <1>2, <1>4
<1>6. currentSet' = s /\ sets' = [sets EXCEPT ![s + 1] = new]
    BY <1>4 DEF OnSelect
<1>7. sets'[s + 1] = new
    BY <1>2, <1>5, <1>6
<1>8. new.rings = old.rings
    BY <1>5 DEF UiSelectRing, ShownSet
<1>9. Len(new.rings) = Held(s)
  <2>1. SetShows(c, (s + 1) - 1, sets'[s + 1])
      BY <1>3, <1>5 DEF Layout
  <2> QED BY <1>5, <1>7, <2>1 DEF SetShows
<1>10. new.selected = i /\ new.slotSelected = i
    BY <1>1, <1>5, <1>8, <1>9 DEF UiSelectRing, ShownSet
<1> HIDE DEF new, old, s, i
<1> QED BY <1>1, <1>6, <1>7, <1>10 DEF Chosen, ShownSelection, Centre

LEMMA ReadyChooses ==
  ASSUME NEW modes, CarouselSound(modes), OnReady, pendingRing \in Ring,
         NEW c, Layout(c)'
  PROVE  Chosen(pendingRing)'
<1> DEFINE filled == [s \in 1 .. NumSets |-> Refilled(s)]
           restores == /\ pendingRing # NoRing
                       /\ SetOf(pendingRing) < NumSets
                       /\ LocalOf(pendingRing) < filled[SetOf(pendingRing) + 1].ringCount
           slotSelected(s) == IF restores /\ SetOf(pendingRing) = s - 1
                              THEN LocalOf(pendingRing) ELSE filled[s].slotSelected
           last(s) == filled[s].ringCount - 1
           ring(s) == IF slotSelected(s) > last(s) THEN last(s) ELSE slotSelected(s)
           chosen(s) == UiSelectRing([filled[s] EXCEPT !.slotSelected = ring(s)], ring(s))
           all == [s \in 1 .. NumSets |-> chosen(s)]
           centre == IF restores THEN SetOf(pendingRing)
                     ELSE IF currentSet >= NumSets /\ NumSets > 0 THEN 0 ELSE currentSet
           p == SetOf(pendingRing)
           i == LocalOf(pendingRing)
<1>1. /\ sets' = IF NumSets = 0 THEN << >> ELSE LaidOut(all, centre)
      /\ currentSet' = centre
      /\ UNCHANGED <<staged, pendingRing>>
    BY DEF OnReady, Refilled
<1>2. Seen(FALSE, staged) = c /\ Len(c) = NumRings
  <2>1. Seen(FALSE, staged') = c /\ Len(c) = NumRings
      BY DEF Layout
  <2> QED BY <1>1, <2>1
<1>3. NumSets = SetsNeeded /\ NumSets \in Nat /\ NumSets > 0
    BY <1>2, ReadyFills
<1>4. /\ p \in Nat /\ i \in Nat /\ p < NumSets /\ i < Held(p) /\ FirstRing(p) + i = pendingRing
    BY <1>3, PlaceOfRing
<1>5. p + 1 \in 1 .. NumSets /\ (p + 1) - 1 = p
    BY <1>3, <1>4
<1>6. /\ filled[p + 1] \in ShownSet(HardwareMode \cup modes) /\ SetShows(c, p, filled[p + 1])
      /\ Held(p) \in Nat
  <2>1. filled[p + 1] = Refilled(p + 1)
      BY <1>5
  <2>2. /\ Refilled(p + 1) \in ShownSet(HardwareMode \cup modes)
        /\ SetShows(c, (p + 1) - 1, Refilled(p + 1)) /\ Held((p + 1) - 1) \in Nat
      BY <1>2, <1>5, ReadyFills
  <2> HIDE DEF filled, p
  <2> QED BY <1>5, <2>1, <2>2
<1>7. restores /\ centre = p
  <2>1. pendingRing # NoRing
      BY EngineAssumption DEF NoRing, Ring
  <2>2. filled[p + 1].ringCount = Held(p)
      BY <1>6 DEF SetShows
  <2> HIDE DEF filled
  <2> QED BY <1>4, <2>1, <2>2
<1>8. ring(p + 1) = i
  <2>1. slotSelected(p + 1) = i
      BY <1>5, <1>7
  <2>2. last(p + 1) = Held(p) - 1
      BY <1>6 DEF SetShows
  <2> HIDE DEF slotSelected, last, p, i
  <2> QED BY <1>4, <1>6, <2>1, <2>2
<1> DEFINE slotted == [filled[p + 1] EXCEPT !.slotSelected = i]
<1>9. all[p + 1] = UiSelectRing(slotted, i)
  <2>1. all[p + 1] = chosen(p + 1)
      BY <1>5
  <2> HIDE DEF ring, filled, p, i
  <2> QED BY <1>8, <2>1
<1>10. DOMAIN all = 1 .. NumSets
    OBVIOUS
<1> HIDE DEF filled, all, centre, ring, last, slotSelected, restores, chosen, p, i
<1>11. slotted \in ShownSet(HardwareMode \cup modes) /\ Len(slotted.rings) = Held(p)
       /\ slotted.slotSelected = i
    BY <1>4, <1>6, SlotChanges DEF SetShows, ShownSet
<1>12. all[p + 1].selected = i /\ all[p + 1] \in ShownSet(HardwareMode \cup modes)
  <2> HIDE DEF slotted
  <2>1. UiSelectRing(slotted, i).selected = i
      BY <1>4, <1>11 DEF UiSelectRing, ShownSet
  <2>2. UiSelectRing(slotted, i) \in ShownSet(HardwareMode \cup modes)
      BY <1>4, <1>11, UiSelectRingShown
  <2> QED BY <1>9, <2>1, <2>2
<1>13. sets'[p + 1] = [all[p + 1] EXCEPT !.slotSelected = all[p + 1].selected]
    BY <1>1, <1>3, <1>5, <1>7, <1>10 DEF LaidOut
<1>14. sets'[p + 1].selected = i /\ sets'[p + 1].slotSelected = i
    BY <1>12, <1>13 DEF ShownSet
<1>15. currentSet' = p /\ pendingRing' = pendingRing
    BY <1>1, <1>7
<1> QED BY <1>4, <1>14, <1>15 DEF Chosen, ShownSelection, Centre

-----------------------------------------------------------------------------
(***************************************************************************)
(* The rings that POLY_SELECT names exist; the last POLY_SELECT under way  *)
(* names the selected ring, and when none is under way it is the one the   *)
(* GUI was told of last, unless the engine never announced its selection;  *)
(* until it was told of one it got no POLY_READY, and so has no sets.      *)
(* When nothing that chooses a ring is under way in either direction, the  *)
(* ring that the GUI was told of last is the one it shows as selected.     *)
(***************************************************************************)
Selections == {m \in GuiMessage : m.type = "POLY_SELECT"}

Selecting == {m \in GuiMessage : m.type = "POLY_SELECT" => m.ring \in Ring}

SelectsFirst(queue) ==
  \A k \in 1 .. Len(queue) :
    queue[k].type = "POLY_READY" => \E j \in 1 .. k - 1 : queue[j].type = "POLY_SELECT"

Announced(r) ==
  /\ EndsIn(toGui, Selections, {SelectMsg(r)})
  /\ None(toGui, Selections) => pendingRing \in {NoRing, r}

PendingKnown ==
  /\ pendingRing \in Ring \cup {NoRing}
  /\ pendingRing = NoRing => sets = << >> /\ SelectsFirst(toGui)

ChoiceKnown ==
  /\ Silent(toAudio, {"POLY_SET_SELECTED_RING"})
  /\ Silent(toGui, {"POLY_SELECT", "POLY_READY"})
  /\ sets # << >>
  => Chosen(pendingRing)

ChoiceTold ==
  /\ toGui \in Seq(Selecting)
  /\ PendingKnown
  /\ unannounced \/ Announced(selectedRing)
  /\ ChoiceKnown

ChoiceInv == ShapesInv /\ ChoiceTold

LEMMA NoneSelects ==
  ASSUME NEW q \in Seq(GuiMessage)
  PROVE  None(q, Selections) <=> Silent(q, {"POLY_SELECT"})
<1>1. \A k \in 1 .. Len(q) : q[k] \in GuiMessage
    OBVIOUS
<1> QED BY <1>1 DEF None, Silent, Selections

LEMMA SelectsFirstOfBoth ==
  ASSUME NEW S, NEW s \in Seq(S), NEW t \in Seq(S), SelectsFirst(s),
         SelectsFirst(t) \/ ~ Silent(s, {"POLY_SELECT"})
  PROVE  SelectsFirst(s \o t)
<1> DEFINE u == s \o t
           n == Len(s)
<1>1. /\ n \in Nat /\ Len(t) \in Nat /\ Len(u) = n + Len(t)
      /\ \A i \in 1 .. n : u[i] = s[i]
      /\ \A i \in 1 .. Len(t) : u[n + i] = t[i]
    BY BehindAnother
<1> HIDE DEF u, n
<1> SUFFICES ASSUME NEW k \in 1 .. Len(u), u[k].type = "POLY_READY"
             PROVE  \E j \in 1 .. k - 1 : u[j].type = "POLY_SELECT"
    BY DEF SelectsFirst, u
<1>2. CASE k <= n
  <2>1. k \in 1 .. n /\ k \in 1 .. Len(s)
      BY <1>1, <1>2 DEF n
  <2>2. PICK j \in 1 .. k - 1 : s[j].type = "POLY_SELECT"
      BY <1>1, <2>1 DEF SelectsFirst
  <2>3. j \in 1 .. n
      BY <1>1, <2>1
  <2> QED BY <1>1, <2>2, <2>3
<1>3. ASSUME ~ k <= n, ~ Silent(s, {"POLY_SELECT"})
      PROVE  \E j \in 1 .. k - 1 : u[j].type = "POLY_SELECT"
  <2>1. PICK j \in 1 .. n : s[j].type = "POLY_SELECT"
      BY <1>3 DEF Silent, n
  <2>2. j \in 1 .. k - 1
      BY <1>1, <1>3
  <2> QED BY <1>1, <2>1, <2>2
<1>4. ASSUME ~ k <= n, SelectsFirst(t)
      PROVE  \E j \in 1 .. k - 1 : u[j].type = "POLY_SELECT"
  <2>1. k - n \in 1 .. Len(t) /\ n + (k - n) = k
      BY <1>1, <1>4
  <2>2. t[k - n].type = "POLY_READY"
      BY <1>1, <2>1
  <2>3. PICK j \in 1 .. (k - n) - 1 : t[j].type = "POLY_SELECT"
      BY <1>4, <2>1, <2>2 DEF SelectsFirst
  <2>4. j \in 1 .. Len(t) /\ n + j \in 1 .. k - 1
      BY <1>1, <2>1
  <2>5. u[n + j].type = "POLY_SELECT"
      BY <1>1, <2>3, <2>4
  <2> QED BY <2>4, <2>5
<1> QED BY <1>2, <1>3, <1>4

LEMMA TailSelectsFirst ==
  ASSUME NEW S, NEW q \in Seq(S), q # << >>, SelectsFirst(q), Head(q).type # "POLY_SELECT"
  PROVE  SelectsFirst(Tail(q)) /\ Head(q).type # "POLY_READY"
<1> DEFINE t == Tail(q)
<1>1. /\ Head(q) = q[1] /\ 1 \in 1 .. Len(q) /\ Len(q) \in Nat /\ Len(t) = Len(q) - 1
      /\ \A i \in 1 .. Len(t) : t[i] = q[i + 1] /\ i + 1 \in 1 .. Len(q)
    BY HeadTaken
<1> HIDE DEF t
<1>2. Head(q).type # "POLY_READY"
  <2>1. \A j \in 1 .. 1 - 1 : FALSE
      OBVIOUS
  <2> QED BY <1>1, <2>1 DEF SelectsFirst
<1>3. ASSUME NEW k \in 1 .. Len(t), t[k].type = "POLY_READY"
      PROVE  \E j \in 1 .. k - 1 : t[j].type = "POLY_SELECT"
  <2>1. k + 1 \in 1 .. Len(q) /\ q[k + 1].type = "POLY_READY"
      BY <1>1, <1>3
  <2>2. PICK j \in 1 .. (k + 1) - 1 : q[j].type = "POLY_SELECT"
      BY <2>1 DEF SelectsFirst
  <2>3. j # 1
      BY <1>1, <2>2
  <2>4. j - 1 \in 1 .. k - 1 /\ j - 1 \in 1 .. Len(t) /\ (j - 1) + 1 = j
      BY <1>1, <2>3
  <2>5. t[j - 1] = q[j]
      BY <1>1, <2>4
  <2> QED BY <2>2, <2>4, <2>5
<1> QED BY <1>2, <1>3 DEF SelectsFirst, t

LEMMA SilentSelectsFirst ==
  ASSUME NEW q, Silent(q, {"POLY_READY"})
  PROVE  SelectsFirst(q)
BY DEF Silent, SelectsFirst

(* What the engine sends about the selection.                              *)
SpeaksChoice(m, b) ==
  /\ b \in Seq(Selecting)
  /\ SelectsFirst(b)
  /\ \/ /\ Silent(b, {"POLY_SELECT"})
        /\ m.type # "POLY_SET_SELECTED_RING"
        /\ selectedRing' = selectedRing \/ m.type = "POLY_TOGGLE"
     \/ /\ ~ Silent(b, {"POLY_SELECT"})
        /\ EndsIn(b, Selections, {SelectMsg(selectedRing')})

LEMMA NoSelections ==
  ASSUME NEW q \in Seq(GuiMessage), Silent(q, {"POLY_SELECT"}), NEW T
  PROVE  q \in Seq(Selecting) /\ None(q, Selections) /\ EndsIn(q, Selections, T)
<1>1. /\ Len(q) \in Nat /\ q \in [1 .. Len(q) -> GuiMessage]
      /\ \A i \in 1 .. Len(q) : q[i] \in GuiMessage /\ q[i].type # "POLY_SELECT"
    BY DEF Silent
<1>2. \A i \in 1 .. Len(q) : q[i] \in Selecting
    BY <1>1 DEF Selecting
<1>3. q \in Seq(Selecting)
  <2>1. q \in [1 .. Len(q) -> Selecting]
      BY <1>1, <1>2
  <2> QED BY <1>1, <2>1
<1>4. None(q, Selections)
    BY NoneSelects
<1> QED BY <1>3, <1>4 DEF None, EndsIn

LEMMA SelectingIsSent ==
  ASSUME NEW q \in Seq(Selecting)
  PROVE  q \in Seq(GuiMessage)
BY DEF Selecting

LEMMA SelectsIsSelecting ==
  ASSUME NEW b, Selects(b), selectedRing' \in Ring
  PROVE  /\ b \in Seq(Selecting)
         /\ ~ Silent(b, {"POLY_SELECT"})
         /\ EndsIn(b, Selections, {SelectMsg(selectedRing')})
<1> DEFINE m == SelectMsg(selectedRing')
           s == <<m>>
<1>1. PICK x \in Seq(GuiMessage), y \in Seq(GuiMessage) :
        b = x \o s \o y /\ Silent(x, {"POLY_SELECT"}) /\ Silent(y, {"POLY_SELECT"})
    BY DEF Selects
<1>2. selectedRing' \in Nat
    BY EngineAssumption DEF Ring
<1>3. m \in GuiMessage /\ m.type = "POLY_SELECT" /\ m.ring = selectedRing'
    BY <1>2, MessagesSent
<1> HIDE DEF m
<1>4. m \in Selections /\ m \in Selecting
    BY <1>3 DEF Selections, Selecting
<1>5. x \in Seq(Selecting) /\ y \in Seq(Selecting) /\ s \in Seq(Selecting) /\ s \in Seq(GuiMessage)
  <2>1. s \in Seq(Selecting) /\ s \in Seq(GuiMessage)
      BY <1>3, <1>4
  <2> QED BY <1>1, <2>1, NoSelections
<1>6. x \o s \in Seq(Selecting) /\ x \o s \in Seq(GuiMessage)
    BY <1>1, <1>5
<1>7. ~ None(s, Selections) /\ EndsIn(s, Selections, {m})
    BY <1>4, OneEnds
<1>8. EndsIn(x \o s, Selections, {m}) /\ ~ None(x \o s, Selections)
  <2> HIDE DEF s
  <2> QED BY <1>1, <1>5, <1>7, BehindEnds, BothNone
<1>9. EndsIn(y, Selections, {m}) /\ None(y, Selections)
    BY <1>1, NoSelections
<1> HIDE DEF s
<1>10. EndsIn((x \o s) \o y, Selections, {m}) /\ ~ None((x \o s) \o y, Selections)
    BY <1>1, <1>6, <1>8, <1>9, BehindEnds, BothNone
<1>11. (x \o s) \o y \in Seq(GuiMessage) /\ (x \o s) \o y \in Seq(Selecting)
    BY <1>1, <1>5, <1>6
<1> QED BY <1>1, <1>10, <1>11, NoneSelects DEF m

LEMMA RebuildSelectsFirst ==
  ASSUME rings' \in [Ring -> RingType], selectedRing' \in Nat, NEW b, Rebuilds(b)
  PROVE  SelectsFirst(b)
<1> DEFINE p == <<RebuildMsg>>
           d == AllRingData
           s == <<SelectMsg(selectedRing')>>
           z == <<ReadyMsg>>
           R == {"POLY_READY"}
           S == {"POLY_SELECT"}
<1>1. PICK rest \in Seq(GuiMessage) :
        b = p \o (d \o (s \o rest)) \o z
          /\ \A i \in 1 .. Len(rest) : rest[i].type \in Closing \ {"POLY_SELECT"}
    BY DEF Rebuilds
<1>2. p \in Seq(GuiMessage) /\ z \in Seq(GuiMessage) /\ s \in Seq(GuiMessage)
    BY MessagesSent
<1>3. d \in Seq(GuiMessage) /\ Silent(d, R)
    BY RingsAreSilent DEF Filling
<1>4. Silent(p, R) /\ Silent(s, R) /\ ~ Silent(s, S) /\ Silent(rest, R)
  <2>1. Silent(p, R) /\ Silent(s, R) /\ ~ Silent(s, S)
      BY OneSilent, MessagesSent
  <2>2. Silent(rest, R)
      BY <1>1 DEF Silent, Closing
  <2> QED BY <2>1, <2>2
<1> HIDE DEF p, d, s, z, S, R
<1> DEFINE e == s \o rest
           f == d \o e
           g == p \o f
<1>5. e \in Seq(GuiMessage) /\ Silent(e, R) /\ ~ Silent(e, S)
    BY <1>1, <1>2, <1>4, BothSilent
<1> HIDE DEF e
<1>6. f \in Seq(GuiMessage) /\ Silent(f, R) /\ ~ Silent(f, S)
    BY <1>3, <1>5, BothSilent
<1> HIDE DEF f
<1>7. g \in Seq(GuiMessage) /\ Silent(g, R) /\ ~ Silent(g, S)
    BY <1>2, <1>4, <1>6, BothSilent
<1> HIDE DEF g
<1>8. SelectsFirst(g)
    BY <1>7, SilentSelectsFirst DEF R
<1>9. SelectsFirst(g \o z)
    BY <1>2, <1>7, <1>8, SelectsFirstOfBoth DEF S
<1> QED BY <1>1, <1>9 DEF e, f, g

LEMMA SpeakingChooses ==
  ASSUME Sound', NEW m, NEW b \in Seq(GuiMessage), Speaks(m, b)
  PROVE  SpeaksChoice(m, b)
<1>0. selectedRing' \in Ring /\ selectedRing' \in Nat /\ rings' \in [Ring -> RingType]
    BY EngineAssumption DEF Sound, Ring
<1>1. Silent(b, Rebuilding) => Silent(b, {"POLY_READY"})
    BY DEF Silent, Rebuilding
<1>2. CASE /\ Silent(b, Rebuilding \cup {"POLY_SELECT"})
           /\ m.type # "POLY_SET_SELECTED_RING"
           /\ selectedRing' = selectedRing \/ m.type = "POLY_TOGGLE"
  <2>1. Silent(b, Rebuilding) /\ Silent(b, {"POLY_SELECT"})
      BY <1>2 DEF Silent
  <2>2. b \in Seq(Selecting) /\ SelectsFirst(b)
      BY <1>1, <2>1, NoSelections, SilentSelectsFirst
  <2> QED BY <1>2, <2>1, <2>2 DEF SpeaksChoice
<1>3. CASE Silent(b, Rebuilding) /\ Selects(b)
    BY <1>0, <1>1, <1>3, SelectsIsSelecting, SilentSelectsFirst DEF SpeaksChoice
<1>4. CASE Rebuilds(b)
    BY <1>0, <1>4, RebuildSelects, SelectsIsSelecting, RebuildSelectsFirst DEF SpeaksChoice
<1> QED BY <1>2, <1>3, <1>4 DEF Speaks

LEMMA SameChosen ==
  ASSUME NEW modes, CarouselSound(modes), sets # << >>, SameChoice, NEW r, Chosen(r)
  PROVE  Chosen(r)'
<1>1. currentSet + 1 \in 1 .. Len(sets)
    BY CentreIsShown
<1> QED BY <1>1 DEF SameChoice, Chosen, ShownSelection, Centre

LEMMA SetsStay ==
  ASSUME NEW modes, CarouselSound(modes), SameChoice
  PROVE  sets' = << >> <=> sets = << >>
BY DEF SameChoice, CarouselSound

LEMMA SelectionIsAsked ==
  ASSUME toAudio \in Seq(Command), AsksToSelect
  PROVE  ~ Silent(toAudio', {"POLY_SET_SELECTED_RING"})
<1>1. PICK r : SendsToAudio([type |-> "POLY_SET_SELECTED_RING", ring |-> r])
    BY DEF AsksToSelect
<1>2. PICK m : m = [type |-> "POLY_SET_SELECTED_RING", ring |-> r]
    OBVIOUS
<1>3. m.type = "POLY_SET_SELECTED_RING" /\ toAudio' = Append(toAudio, m)
    BY <1>1, <1>2 DEF SendsToAudio
<1>4. Len(toAudio) + 1 \in 1 .. Len(toAudio') /\ toAudio'[Len(toAudio) + 1] = m
    BY <1>3
<1> QED BY <1>3, <1>4 DEF Silent

(* The messages for the GUI about a selection stay.                        *)
LEMMA StaysSelecting ==
  ASSUME toGui \in Seq(Selecting),
         \/ UNCHANGED toGui
         \/ /\ toGui # << >>
            /\ toGui' = Tail(toGui)
            /\ Head(toGui).type \notin {"POLY_SELECT", "POLY_READY"}
  PROVE  /\ toGui' \in Seq(Selecting)
         /\ SelectsFirst(toGui) => SelectsFirst(toGui')
         /\ \A r : Announced(r) /\ pendingRing' = pendingRing => Announced(r)'
         /\ Silent(toGui', {"POLY_SELECT", "POLY_READY"}) => Silent(toGui, {"POLY_SELECT", "POLY_READY"})
<1>1. CASE UNCHANGED toGui
    BY <1>1 DEF Announced
<1>2. CASE toGui # << >> /\ toGui' = Tail(toGui) /\ Head(toGui).type \notin {"POLY_SELECT", "POLY_READY"}
  <2>1. toGui' \in Seq(Selecting) /\ (SelectsFirst(toGui) => SelectsFirst(toGui'))
      BY <1>2, TailSelectsFirst
  <2>2. Silent(toGui', {"POLY_SELECT", "POLY_READY"}) => Silent(toGui, {"POLY_SELECT", "POLY_READY"})
      BY <1>2, TailSilent
  <2>3. Head(toGui) \notin Selections
      BY <1>2 DEF Selections
  <2>4. ASSUME NEW r, Announced(r), pendingRing' = pendingRing
        PROVE  Announced(r)'
    <3>1. EndsIn(Tail(toGui), Selections, {SelectMsg(r)})
        BY <1>2, <2>4, TailEnds DEF Announced
    <3>2. None(Tail(toGui), Selections) => None(toGui, Selections)
        BY <1>2, <2>3, <2>4, TailEnds DEF Announced
    <3> QED BY <1>2, <2>4, <3>1, <3>2 DEF Announced
  <2> QED BY <2>1, <2>2, <2>4
<1> QED BY <1>1, <1>2

(* A touch, a key or a message that chooses nothing, or asks the engine to. *)
LEMMA ChoosingKeeps ==
  ASSUME ChoiceInv, UNCHANGED <<selectedRing, unannounced>>,
         \/ UNCHANGED toGui
         \/ /\ toGui # << >>
            /\ toGui' = Tail(toGui)
            /\ Head(toGui).type \notin {"POLY_SELECT", "POLY_READY"},
         \/ SameChoice /\ (Asked \/ \E m \in Command : SendsToAudio(m))
         \/ AsksToSelect
  PROVE  ChoiceTold'
<1>1. /\ CarouselSound(HardwareMode) /\ toAudio \in Seq(Command)
      /\ toGui \in Seq(Selecting) /\ PendingKnown /\ ChoiceKnown
      /\ unannounced \/ Announced(selectedRing)
    BY DEF ChoiceInv, ChoiceTold, ShapesInv, SystemSound
<1>2. /\ toGui' \in Seq(Selecting)
      /\ SelectsFirst(toGui) => SelectsFirst(toGui')
      /\ \A r : Announced(r) /\ pendingRing' = pendingRing => Announced(r)'
      /\ Silent(toGui', {"POLY_SELECT", "POLY_READY"}) => Silent(toGui, {"POLY_SELECT", "POLY_READY"})
    BY <1>1, StaysSelecting
<1>3. pendingRing' = pendingRing
    BY DEF SameChoice, AsksToSelect
<1>4. unannounced' \/ Announced(selectedRing)'
  <2>1. PICK r : r = selectedRing
      OBVIOUS
  <2>2. Announced(r) => Announced(r)'
      BY <1>2, <1>3
  <2> QED BY <1>1, <2>1, <2>2 DEF Announced
<1>5. PendingKnown'
    BY <1>1, <1>2, <1>3, SetsStay DEF PendingKnown, AsksToSelect
<1>6. ChoiceKnown'
  <2> SUFFICES ASSUME Silent(toAudio', {"POLY_SET_SELECTED_RING"}),
                      Silent(toGui', {"POLY_SELECT", "POLY_READY"}), sets' # << >>
               PROVE  Chosen(pendingRing)'
      BY DEF ChoiceKnown
  <2>1. SameChoice /\ Silent(toAudio, {"POLY_SET_SELECTED_RING"})
      BY <1>1, SelectionIsAsked, StillSilent
  <2>2. sets # << >>
      BY <1>1, <2>1, SetsStay
  <2>3. PICK r : r = pendingRing
      OBVIOUS
  <2>4. Chosen(r)
      BY <1>1, <1>2, <2>1, <2>2, <2>3 DEF ChoiceKnown
  <2>5. Chosen(r)'
      BY <1>1, <2>1, <2>2, <2>4, SameChosen
  <2> QED BY <1>3, <2>3, <2>5 DEF Chosen
<1> QED BY <1>2, <1>4, <1>5, <1>6 DEF ChoiceTold

(* A POLY_READY in the queue is heard.                                     *)
LEMMA ReadyIsHeard ==
  ASSUME NEW q, Silent(q, {"POLY_READY"}), NEW pre \in Seq(GuiMessage), NEW tail \in Seq(GuiMessage)
  PROVE  q # (pre \o <<ReadyMsg>>) \o tail
<1>1. <<ReadyMsg>> \in Seq(GuiMessage) /\ ~ Silent(<<ReadyMsg>>, {"POLY_READY"})
    BY MessagesSent, OneSilent
<1>2. PICK z \in Seq(GuiMessage) : z = <<ReadyMsg>> /\ ~ Silent(z, {"POLY_READY"})
    BY <1>1
<1>3. pre \o z \in Seq(GuiMessage) /\ ~ Silent(pre \o z, {"POLY_READY"})
  <2>1. z \in Seq(GuiMessage) /\ ~ Silent(z, {"POLY_READY"})
      BY <1>2
  <2> QED BY <2>1, BothSilent
<1>4. ~ Silent((pre \o z) \o tail, {"POLY_READY"})
    BY <1>3, BothSilent
<1> QED BY <1>2, <1>4

(* What the sets show once every rebuild has been handled.                 *)
LEMMA SilenceIsDrawn ==
  ASSUME ShapesInv', Silent(toGui', {"POLY_READY"}), sets' # << >>
  PROVE  \E c : Layout(c)'
<1>1. PICK c : c = Copies(FALSE, rings')
    OBVIOUS
<1>2. Told(c)' \/ Drawn(c)'
    BY <1>1 DEF ShapesInv
<1>3. ~ Told(c)'
    BY ReadyIsHeard DEF Told
<1> QED BY <1>2, <1>3 DEF Drawn

LEMMA TakingChooses ==
  ASSUME ChoiceInv, ShapesInv', GuiHandles
  PROVE  ChoiceTold'
<1> DEFINE m == Head(toGui)
<1>1. /\ toGui \in Seq(GuiMessage) /\ toGui # << >> /\ toGui' = Tail(toGui) /\ m \in GuiMessage
      /\ CarouselSound(HardwareMode) /\ HandleGui(m) /\ UNCHANGED <<selectedRing, unannounced>>
    BY DEF ChoiceInv, ShapesInv, SystemSound, GuiHandles, engineState
<1>2. /\ toGui \in Seq(Selecting) /\ toGui' \in Seq(Selecting) /\ m \in Selecting
      /\ PendingKnown /\ (unannounced \/ Announced(selectedRing))
    BY <1>1 DEF ChoiceInv, ChoiceTold
<1>3. Asked
    BY GuiAsks DEF ChoiceInv, ShapesInv
<1>4. PICK k : k = selectedRing
    OBVIOUS
<1>5. Announced(k) => /\ EndsIn(toGui', Selections, {SelectMsg(k)})
                      /\ None(toGui', Selections) => (m \in Selections => m \in {SelectMsg(k)})
                      /\ None(toGui', Selections) /\ m \notin Selections => None(toGui, Selections)
    BY <1>1, TailEnds DEF Announced
<1>6. Silent(toGui', {"POLY_SELECT", "POLY_READY"}) /\ sets' # << >> => \E c : Layout(c)'
  <2>1. Silent(toGui', {"POLY_SELECT", "POLY_READY"}) => Silent(toGui', {"POLY_READY"})
      BY DEF Silent
  <2> QED BY <2>1, SilenceIsDrawn
<1> HIDE DEF m
<1>7. CASE m.type = "POLY_SELECT"
  <2>1. PICK r \in Ring : r = m.ring
      BY <1>2, <1>7 DEF Selecting
  <2>2. OnSelect(r) /\ pendingRing' = r
      BY <1>1, <1>7, <2>1 DEF HandleGui, OnSelect
  <2>3. PendingKnown'
      BY <2>2, EngineAssumption DEF PendingKnown, Ring, NoRing
  <2>4. unannounced' \/ Announced(k)'
    <3>1. m \in Selections
        BY <1>1, <1>7 DEF Selections
    <3>2. m = SelectMsg(k) => r = k
        BY <2>1 DEF SelectMsg
    <3> QED BY <1>1, <1>2, <1>4, <1>5, <2>2, <3>1, <3>2 DEF Announced
  <2>5. ChoiceKnown'
    <3> SUFFICES ASSUME Silent(toGui', {"POLY_SELECT", "POLY_READY"}), sets' # << >>
                 PROVE  Chosen(pendingRing)'
        BY DEF ChoiceKnown
    <3>1. PICK c : Layout(c)'
        BY <1>6
    <3>2. Chosen(r)'
        BY <1>1, <2>2, <3>1, SelectChooses
    <3> QED BY <2>2, <3>2 DEF Chosen
  <2> QED BY <1>1, <1>2, <1>4, <2>3, <2>4, <2>5 DEF ChoiceTold, Announced
<1>8. CASE m.type = "POLY_READY"
  <2>1. OnReady
      BY <1>1, <1>8 DEF HandleGui
  <2>2. pendingRing' = pendingRing
      BY <2>1 DEF OnReady
  <2>3. pendingRing \in Ring
    <3>1. pendingRing # NoRing
        BY <1>1, <1>2, <1>8, TailSelectsFirst DEF PendingKnown, m
    <3> QED BY <1>2, <3>1 DEF PendingKnown
  <2>4. PendingKnown'
      BY <2>2, <2>3, EngineAssumption DEF PendingKnown, Ring, NoRing
  <2>5. unannounced' \/ Announced(k)'
    <3>1. m \notin Selections
        BY <1>8 DEF Selections
    <3> QED BY <1>1, <1>2, <1>4, <1>5, <2>2, <3>1 DEF Announced
  <2>6. ChoiceKnown'
    <3> SUFFICES ASSUME Silent(toGui', {"POLY_SELECT", "POLY_READY"}), sets' # << >>
                 PROVE  Chosen(pendingRing)'
        BY DEF ChoiceKnown
    <3>1. PICK c : Layout(c)'
        BY <1>6
    <3> QED BY <1>1, <2>1, <2>3, <3>1, ReadyChooses
  <2> QED BY <1>1, <1>2, <1>4, <2>4, <2>5, <2>6 DEF ChoiceTold, Announced
<1>9. CASE m.type \notin {"POLY_SELECT", "POLY_READY"}
  <2>1. (SameChoice /\ Asked) \/ AsksToSelect
    <3>1. CASE m.type \in {"POLY_NAV_LEFT", "POLY_NAV_RIGHT"}
      <4>1. NavigateBy(-1) \/ NavigateBy(1)
          BY <1>1, <3>1 DEF HandleGui, NavigateLeft, NavigateRight
      <4> QED BY <1>1, <1>3, <4>1, NavigateChooses
    <3>2. CASE m.type \notin {"POLY_NAV_LEFT", "POLY_NAV_RIGHT"}
      <4>1. m.type \notin {"POLY_SELECT", "POLY_READY", "POLY_NAV_LEFT", "POLY_NAV_RIGHT"}
          BY <1>9, <3>2
      <4> QED BY <1>1, <1>3, <4>1, MessageChooses
    <3> QED BY <3>1, <3>2
  <2>2. /\ toGui # << >> /\ toGui' = Tail(toGui)
        /\ Head(toGui).type \notin {"POLY_SELECT", "POLY_READY"}
      BY <1>1, <1>9 DEF m
  <2> QED BY <1>1, <2>1, <2>2, ChoosingKeeps
<1> QED BY <1>7, <1>8, <1>9

(***************************************************************************)
(* The engine answers, or sends the playhead: b goes behind what is under  *)
(* way, and the GUI stays as it is.                                        *)
(***************************************************************************)
LEMMA SpeakingKeeps ==
  ASSUME ChoiceInv, UNCHANGED guiState, NEW m, NEW b, toGui' = toGui \o b, SpeaksChoice(m, b),
         Silent(toAudio', {"POLY_SET_SELECTED_RING"}) /\ m.type # "POLY_SET_SELECTED_RING"
           => Silent(toAudio, {"POLY_SET_SELECTED_RING"}),
         \/ unannounced'
         \/ ~ Silent(b, {"POLY_SELECT"})
         \/ ~ unannounced /\ selectedRing' = selectedRing
  PROVE  ChoiceTold'
<1>1. /\ toGui \in Seq(Selecting) /\ toGui \in Seq(GuiMessage)
      /\ b \in Seq(Selecting) /\ b \in Seq(GuiMessage)
      /\ PendingKnown /\ ChoiceKnown /\ (unannounced \/ Announced(selectedRing))
      /\ SelectsFirst(b)
    BY SelectingIsSent DEF ChoiceInv, ChoiceTold, SpeaksChoice
<1>2. toGui' \in Seq(Selecting)
    BY <1>1
<1>3. PendingKnown'
    BY <1>1, SelectsFirstOfBoth DEF PendingKnown, guiState
<1>4. PICK k : k = selectedRing'
    OBVIOUS
<1>5. unannounced' \/ Announced(k)'
  <2>1. CASE ~ Silent(b, {"POLY_SELECT"})
    <3>1. EndsIn(b, Selections, {SelectMsg(k)}) /\ ~ None(b, Selections)
        BY <1>1, <1>4, <2>1, NoneSelects DEF SpeaksChoice
    <3>2. EndsIn(toGui \o b, Selections, {SelectMsg(k)}) /\ ~ None(toGui \o b, Selections)
        BY <1>1, <3>1, BehindEnds, BothNone
    <3> QED BY <3>2 DEF Announced
  <2>2. CASE Silent(b, {"POLY_SELECT"}) /\ ~ unannounced /\ selectedRing' = selectedRing
    <3>1. Announced(k)
        BY <1>1, <1>4, <2>2
    <3>2. None(b, Selections) /\ EndsIn(b, Selections, {SelectMsg(k)})
        BY <1>1, <2>2, NoSelections
    <3>3. EndsIn(toGui \o b, Selections, {SelectMsg(k)})
        BY <1>1, <3>1, <3>2, BehindEnds DEF Announced
    <3>4. None(toGui \o b, Selections) => None(toGui, Selections)
        BY <1>1, BothNone
    <3>5. pendingRing' = pendingRing
        BY DEF guiState
    <3> QED BY <3>1, <3>3, <3>4, <3>5 DEF Announced
  <2> QED BY <2>1, <2>2
<1>6. ChoiceKnown'
  <2> SUFFICES ASSUME Silent(toAudio', {"POLY_SET_SELECTED_RING"}),
                      Silent(toGui', {"POLY_SELECT", "POLY_READY"}), sets' # << >>
               PROVE  Chosen(pendingRing)'
      BY DEF ChoiceKnown
  <2>1. Silent(toGui, {"POLY_SELECT", "POLY_READY"}) /\ Silent(b, {"POLY_SELECT", "POLY_READY"})
      BY <1>1, LongerStillSilent
  <2>2. Silent(b, {"POLY_SELECT"})
      BY <2>1 DEF Silent
  <2>3. Silent(toAudio, {"POLY_SET_SELECTED_RING"})
      BY <2>2 DEF SpeaksChoice
  <2>4. Chosen(pendingRing)
      BY <1>1, <2>1, <2>3 DEF ChoiceKnown, guiState
  <2> QED BY <2>4 DEF Chosen, ShownSelection, Centre, guiState
<1> QED BY <1>2, <1>3, <1>4, <1>5, <1>6 DEF ChoiceTold, Announced

LEMMA HandlingKeepsChoice ==
  ASSUME ChoiceInv, EngineHandles
  PROVE  ChoiceTold'
<1> DEFINE h == Head(toAudio)
<1>1. /\ toGui \in Seq(GuiMessage) /\ toAudio \in Seq(Command) /\ toAudio # << >> /\ Sound
      /\ Handle(h) /\ UNCHANGED guiState /\ toAudio' = Tail(toAudio) /\ h \in Command
    BY DEF ChoiceInv, ShapesInv, SystemSound, EngineHandles
<1>2. Sound' /\ Tells(h)
    BY <1>1, HandleTells
<1>3. PICK b \in Seq(GuiMessage) : toGui' = toGui \o b /\ Speaks(h, b)
    BY <1>2 DEF Tells
<1>4. SpeaksChoice(h, b)
    BY <1>2, <1>3, SpeakingChooses
<1>5. Announces(b) => ~ Silent(b, {"POLY_SELECT"})
    BY <1>3 DEF Announces, Silent
<1>6. SubSeq(toGui', Len(toGui) + 1, Len(toGui')) = b
    BY <1>1, <1>3, SubSeqBehind
<1>7. unannounced' = /\ \/ unannounced
                        \/ h.type = "POLY_TOGGLE" /\ selectedRing' # selectedRing
                     /\ ~ Announces(b)
    BY <1>6 DEF EngineHandles
<1>8. Silent(toAudio', {"POLY_SET_SELECTED_RING"}) /\ h.type # "POLY_SET_SELECTED_RING"
        => Silent(toAudio, {"POLY_SET_SELECTED_RING"})
    BY <1>1, TailSilent
<1> HIDE DEF h
<1>9. \/ unannounced'
      \/ ~ Silent(b, {"POLY_SELECT"})
      \/ ~ unannounced /\ selectedRing' = selectedRing
    BY <1>4, <1>5, <1>7 DEF SpeaksChoice
<1> QED BY <1>1, <1>3, <1>4, <1>8, <1>9, SpeakingKeeps

LEMMA PlayingKeepsChoice ==
  ASSUME ChoiceInv, EnginePlays
  PROVE  ChoiceTold'
<1> DEFINE head == [type |-> "POLY_PLAYHEAD"]
           b == <<head>>
<1>1. head \in GuiMessage /\ head.type = "POLY_PLAYHEAD"
    BY DEF GuiMessage
<1>2. /\ UNCHANGED guiState /\ UNCHANGED toAudio
      /\ selectedRing' = selectedRing /\ unannounced' = unannounced
    BY DEF EnginePlays, engineState, guiVars, guiState
<1>3. toGui' = toGui \o b
    BY PlayheadSent
<1> HIDE DEF head
<1>4. b \in Seq(GuiMessage) /\ Silent(b, {"POLY_SELECT"}) /\ Silent(b, {"POLY_READY"})
    BY <1>1, OneSilent
<1> HIDE DEF b
<1>5. SpeaksChoice(head, b)
    BY <1>1, <1>2, <1>4, NoSelections, SilentSelectsFirst DEF SpeaksChoice
<1> QED BY <1>2, <1>3, <1>5, SpeakingKeeps

LEMMA ChoiceStep == ChoiceInv /\ [SystemNext]_systemVars => ChoiceInv'
<1> SUFFICES ASSUME ChoiceInv, [SystemNext]_systemVars PROVE ShapesInv' /\ ChoiceTold'
    BY DEF ChoiceInv
<1>0. ShapesInv' /\ toAudio \in Seq(Command) /\ CarouselSound(HardwareMode)
    BY ShapesStep DEF ChoiceInv, ShapesInv, SystemSound
<1>1. ASSUME UNCHANGED guiState, UNCHANGED <<toGui, selectedRing, unannounced>>,
             Asked \/ \E m \in Command : SendsToAudio(m)
      PROVE  ChoiceTold'
  <2>1. SameChoice
      BY <1>1, NothingChosen DEF guiState
  <2> QED BY <1>1, <2>1, ChoosingKeeps
<1>2. CASE GuiStarts
  <2>1. [type |-> "GET_INITIAL_SETUP"] \in Command
      BY DEF Command
  <2> QED BY <1>0, <1>1, <1>2, <2>1 DEF GuiStarts, engineVars
<1>3. CASE GuiHandles
    BY <1>0, <1>3, TakingChooses
<1>4. CASE EngineHandles
    BY <1>0, <1>4, HandlingKeepsChoice
<1>5. CASE EnginePlays
    BY <1>0, <1>5, PlayingKeepsChoice
<1>6. ASSUME NEW kind \in Touches, UserActs(kind)
      PROVE  ChoiceTold'
  <2>1. /\ UNCHANGED <<toGui, selectedRing, unannounced>>
        /\ (sets # << >> /\ Touch(kind)) \/ Key(kind)
      BY <1>6 DEF UserActs, engineVars
  <2>2. CASE sets # << >> /\ Touch(kind)
    <3>1. SameChoice \/ AsksToSelect
        BY <1>0, <2>2, TouchChooses
    <3>2. kind # "mode" => Asked
        BY <1>0, <2>2, TouchKeeps
    <3>3. ASSUME NEW mode \in HardwareMode, TouchMode(mode)
          PROVE  \E m \in Command : SendsToAudio(m)
      <4>1. [type |-> "POLY_HW_MODE", mode |-> mode] \in Command
          BY DEF Command, HardwareMode
      <4> QED BY <3>3, <4>1 DEF TouchMode
    <3>4. kind = "mode" => \E m \in Command : SendsToAudio(m)
        BY <2>2, <3>3 DEF Touch
    <3> QED BY <2>1, <3>1, <3>2, <3>4, ChoosingKeeps
  <2>3. CASE NavigateLeft \/ NavigateRight
    <3>1. -1 \in Int /\ 1 \in Int
        OBVIOUS
    <3>2. Asked
        BY <1>0, <2>3, <3>1, NavigateKeeps DEF NavigateLeft, NavigateRight
    <3>3. SameChoice \/ AsksToSelect
        BY <1>0, <2>3, <3>1, NavigateChooses DEF NavigateLeft, NavigateRight
    <3> QED BY <2>1, <3>2, <3>3, ChoosingKeeps
  <2>4. CASE KeyPlay
    <3>1. SameChoice
        BY <1>0, <2>4, KeyPlayChooses
    <3>2. [type |-> IF is_playing' THEN "PLAY" ELSE "PAUSE"] \in Command
        BY DEF Command
    <3>3. \E m \in Command : SendsToAudio(m)
        BY <2>4, <3>2 DEF KeyPlay
    <3> QED BY <2>1, <3>1, <3>3, ChoosingKeeps
  <2> QED BY <2>1, <2>2, <2>3, <2>4 DEF Key
<1>7. ASSUME NEW m \in Commands, HardwareSends(m)
      PROVE  ChoiceTold'
    BY <1>1, <1>7, SystemAssumption DEF HardwareSends, engineVars
<1>8. CASE AnimationPasses
  <2>1. SameChoice
      BY <1>8, NothingChosen DEF AnimationPasses, AnimationEnds
  <2>2. UNCHANGED <<toGui, selectedRing, unannounced>>
      BY <1>8 DEF AnimationPasses, engineVars
  <2>3. Asked
      BY <1>8 DEF AnimationPasses, AnimationEnds, Asked
  <2> QED BY <1>0, <2>1, <2>2, <2>3, ChoosingKeeps
<1>9. CASE UNCHANGED systemVars
  <2>1. UNCHANGED guiState /\ UNCHANGED <<toGui, selectedRing, unannounced>>
      BY <1>9 DEF systemVars, engineVars, guiVars, guiState
  <2>2. Asked
      BY <1>9 DEF systemVars, guiVars, Asked
  <2> QED BY <1>0, <1>1, <2>1, <2>2
<1> QED BY <1>0, <1>2, <1>3, <1>4, <1>5, <1>6, <1>7, <1>8, <1>9 DEF SystemNext

LEMMA ChoiceInit == SystemInit => ChoiceInv
<1> SUFFICES ASSUME SystemInit PROVE ChoiceTold
    BY ShapesInit DEF ChoiceInv
<1>1. toGui = << >> /\ sets = << >> /\ pendingRing = NoRing
    BY DEF SystemInit, EngineInit, CarouselInit
<1>2. toGui \in Seq(Selecting) /\ SelectsFirst(toGui) /\ EndsIn(toGui, Selections, {SelectMsg(selectedRing)})
    BY <1>1, NothingSilent, SilentSelectsFirst, NothingEnds
<1> QED BY <1>1, <1>2 DEF ChoiceTold, PendingKnown, Announced, ChoiceKnown

(***************************************************************************)
(* However POLY_SELECT, POLY_SET_SELECTED_RING, ring labels, navigation and *)
(* rebuilds cross: once nothing is under way, the set in the centre, its   *)
(* slot and the shape panel are at the ring that the engine has selected,  *)
(* unless the engine took one from POLY_TOGGLE and never announced it.     *)
(***************************************************************************)
THEOREM SelectionsMeet == SystemSpec => []SelectionAgreesUnlessUnannounced
<1>1. ChoiceInv => SelectionAgreesUnlessUnannounced
  <2> SUFFICES ASSUME ChoiceInv, Settled, ~ unannounced
               PROVE  Chosen(selectedRing)
      BY DEF SelectionAgreesUnlessUnannounced, Chosen
  <2>1. toGui = << >> /\ toAudio = << >> /\ sets # << >>
      BY DEF Settled, UnderWay
  <2>2. pendingRing = selectedRing
      BY <2>1, NothingEnds DEF ChoiceInv, ChoiceTold, Announced, PendingKnown
  <2> QED BY <2>1, <2>2, NothingSilent DEF ChoiceInv, ChoiceTold, ChoiceKnown
<1> QED BY <1>1, ChoiceInit, ChoiceStep, PTL DEF SystemSpec
-----------------------------------------------------------------------------
(***************************************************************************)
(* The masks.  What the POLY_TOGGLE messages of a queue make of the mask   *)
(* of ring r, of n points.                                                 *)
(***************************************************************************)
FlippedBy(r, a, m) ==
  IF m.type = "POLY_TOGGLE" /\ m.ring = r /\ m.point < Len(a)
  THEN [a EXCEPT ![m.point + 1] = ~ @]
  ELSE a

Masks(n) == {a \in Seq(BOOLEAN) : Len(a) = n}

Flipping(r, n) ==
  {x \in Masks(n) \X GuiMessage \X Masks(n) : x[3] = FlippedBy(r, x[1], x[2])}

Flips(r, n, a, q, b) == Leads(Flipping(r, n), Masks(n), a, q, b)

LEMMA FlippedType ==
  ASSUME NEW r, NEW n, NEW a \in Masks(n), NEW m,
         m.type = "POLY_TOGGLE" => m.point \in Nat
  PROVE  FlippedBy(r, a, m) \in Masks(n)
<1>1. a \in Seq(BOOLEAN) /\ Len(a) = n
    BY DEF Masks
<1>2. CASE m.type = "POLY_TOGGLE" /\ m.ring = r /\ m.point < Len(a)
  <2> DEFINE b == [a EXCEPT ![m.point + 1] = ~ @]
  <2>1. \A x \in BOOLEAN : (~ x) \in BOOLEAN
      OBVIOUS
  <2>2. b \in Seq(BOOLEAN) /\ Len(b) = Len(a)
      BY <1>1, <1>2, <2>1
  <2>3. FlippedBy(r, a, m) = b
      BY <1>2 DEF FlippedBy
  <2> HIDE DEF b
  <2> QED BY <1>1, <2>2, <2>3 DEF Masks
<1>3. CASE ~ (m.type = "POLY_TOGGLE" /\ m.ring = r /\ m.point < Len(a))
  <2>1. FlippedBy(r, a, m) = a
      BY <1>3 DEF FlippedBy
  <2> QED BY <2>1
<1> QED BY <1>2, <1>3

LEMMA FlipsType ==
  ASSUME NEW r, NEW n, NEW a, NEW q \in Seq(GuiMessage), NEW b, Flips(r, n, a, q, b)
  PROVE  a \in Masks(n) /\ b \in Masks(n)
<1>1. Len(q) \in Nat
    OBVIOUS
<1>2. 0 \in 0 .. Len(q) /\ Len(q) \in 0 .. Len(q)
    BY <1>1
<1> QED BY <1>2 DEF Flips, Leads

LEMMA FlippedNowhere ==
  ASSUME NEW r, NEW n, NEW a, NEW b, Flips(r, n, a, << >>, b)
  PROVE  a = b
<1>1. Len(<< >>) = 0
    OBVIOUS
<1> QED BY <1>1 DEF Flips, Leads

LEMMA FlipsSilent ==
  ASSUME NEW r, NEW n, NEW a \in Masks(n), NEW q \in Seq(GuiMessage), Silent(q, {"POLY_TOGGLE"})
  PROVE  Flips(r, n, a, q, a)
<1> DEFINE k == Len(q)
           f == [i \in 0 .. k |-> a]
<1>1. k \in Nat /\ \A i \in 1 .. k : q[i] \in GuiMessage
    OBVIOUS
<1>2. ASSUME NEW i \in 1 .. k
      PROVE  <<a, q[i], a>> \in Flipping(r, n)
  <2>1. FlippedBy(r, a, q[i]) = a
      BY DEF FlippedBy, Silent
  <2> QED BY <1>1, <2>1 DEF Flipping
<1>3. f \in [0 .. k -> Masks(n)] /\ \A i \in 0 .. k : f[i] = a
    OBVIOUS
<1> HIDE DEF f
<1>4. 0 \in 0 .. k /\ k \in 0 .. k /\ \A i \in 1 .. k : i \in 0 .. k /\ i - 1 \in 0 .. k
    BY <1>1
<1>5. f[0] = a /\ f[k] = a /\ \A i \in 1 .. k : <<f[i - 1], q[i], f[i]>> \in Flipping(r, n)
    BY <1>2, <1>3, <1>4
<1> HIDE DEF k
<1> QED BY <1>3, <1>5 DEF Flips, Leads, k

LEMMA FlipsOne ==
  ASSUME NEW r, NEW n, NEW a \in Masks(n), NEW m \in GuiMessage
  PROVE  Flips(r, n, a, <<m>>, FlippedBy(r, a, m))
<1>1. FlippedBy(r, a, m) \in Masks(n)
    BY FlippedType, MessageFields
<1>2. <<a, m, FlippedBy(r, a, m)>> \in Flipping(r, n)
    BY <1>1 DEF Flipping
<1> QED BY <1>1, <1>2, LeadsOne DEF Flips

LEMMA FlipsOn ==
  ASSUME NEW r, NEW n, NEW p \in Seq(GuiMessage), NEW q \in Seq(GuiMessage), NEW a, NEW b, NEW c,
         Flips(r, n, a, p, b), Flips(r, n, b, q, c)
  PROVE  Flips(r, n, a, p \o q, c)
BY LeadsOn DEF Flips

LEMMA FlipsHead ==
  ASSUME NEW r, NEW n, NEW q \in Seq(GuiMessage), q # << >>, NEW a, NEW b, Flips(r, n, a, q, b)
  PROVE  Flips(r, n, FlippedBy(r, a, Head(q)), Tail(q), b)
<1>1. PICK u \in Masks(n) : <<a, Head(q), u>> \in Flipping(r, n) /\ Flips(r, n, u, Tail(q), b)
    BY LeadsFromNext DEF Flips
<1>2. u = FlippedBy(r, a, Head(q))
    BY <1>1 DEF Flipping
<1> QED BY <1>1, <1>2

(* A point toggled is a mask flipped.                                      *)
LEMMA ToggledMask ==
  ASSUME NEW ring \in RingType, NEW r, NEW p, NEW m,
         m.type = "POLY_TOGGLE", m.ring = r, m.point = p
  PROVE  PointToggled(ring, p).active = FlippedBy(r, ring.active, m)
BY DEF PointToggled, FlippedBy, RingType

LEMMA OtherMask ==
  ASSUME NEW r, NEW a, NEW m, m.type = "POLY_TOGGLE" => m.ring # r
  PROVE  FlippedBy(r, a, m) = a
BY DEF FlippedBy

-----------------------------------------------------------------------------
(***************************************************************************)
(* What is shown of the rings, masks included: only POLY_TOGGLE, a touch   *)
(* of a point, navigation and POLY_READY can change it.                    *)
(***************************************************************************)
SameRings ==
  /\ Len(sets') = Len(sets)
  /\ \A s \in 1 .. Len(sets) : sets'[s].rings = sets[s].rings

LEMMA OneSetKeepsRings ==
  ASSUME NEW modes, CarouselSound(modes), NEW s \in 1 .. Len(sets), NEW set,
         sets' = [sets EXCEPT ![s] = set], set.rings = sets[s].rings
  PROVE  SameRings
<1>1. sets \in Seq(ShownSet(modes))
    BY DEF CarouselSound
<1>2. Len(sets') = Len(sets) /\ \A t \in 1 .. Len(sets) : sets'[t] = IF t = s THEN set ELSE sets[t]
    BY <1>1
<1> QED BY <1>2 DEF SameRings

LEMMA EverySetKeepsRings ==
  ASSUME NEW modes, CarouselSound(modes),
         \/ \E playing : sets' = [s \in DOMAIN sets |-> [sets[s] EXCEPT !.playing = playing]]
         \/ \E mode : sets' = [s \in DOMAIN sets |-> [sets[s] EXCEPT !.mode = mode]]
  PROVE  SameRings
<1>1. DOMAIN sets = 1 .. Len(sets) /\ Len(sets) \in Nat
      /\ \A s \in 1 .. Len(sets) : sets[s] \in ShownSet(modes)
    BY DEF CarouselSound
<1>2. ASSUME NEW x, NEW s \in 1 .. Len(sets)
      PROVE  /\ [sets[s] EXCEPT !.playing = x].rings = sets[s].rings
             /\ [sets[s] EXCEPT !.mode = x].rings = sets[s].rings
    BY <1>1 DEF ShownSet
<1>3. CASE \E playing : sets' = [s \in DOMAIN sets |-> [sets[s] EXCEPT !.playing = playing]]
  <2>1. PICK x : sets' = [s \in 1 .. Len(sets) |-> [sets[s] EXCEPT !.playing = x]]
      BY <1>1, <1>3
  <2>2. Len(sets') = Len(sets)
      BY <1>1, <2>1
  <2> QED BY <1>2, <2>1, <2>2 DEF SameRings
<1>4. CASE \E mode : sets' = [s \in DOMAIN sets |-> [sets[s] EXCEPT !.mode = mode]]
  <2>1. PICK x : sets' = [s \in 1 .. Len(sets) |-> [sets[s] EXCEPT !.mode = x]]
      BY <1>1, <1>4
  <2>2. Len(sets') = Len(sets)
      BY <1>1, <2>1
  <2> QED BY <1>2, <2>1, <2>2 DEF SameRings
<1> QED BY <1>3, <1>4

LEMMA SetsKeepRings ==
  ASSUME UNCHANGED sets
  PROVE  SameRings
BY DEF SameRings

LEMMA SelectionKeepsRings ==
  ASSUME NEW modes, NEW set \in ShownSet(modes), NEW i, NEW p
  PROVE  /\ UiSelectPoint(set, i, p).rings = set.rings
         /\ UiSelectRing(set, i).rings = set.rings
         /\ [UiSelectRing(set, i) EXCEPT !.slotSelected = i].rings = set.rings
BY DEF UiSelectPoint, UiSelectRing, ShownSet

LEMMA MessageKeepsRings ==
  ASSUME NEW modes, CarouselSound(modes), NEW m \in GuiMessage, HandleGui(m),
         m.type \notin {"POLY_TOGGLE", "POLY_READY", "POLY_NAV_LEFT", "POLY_NAV_RIGHT"}
  PROVE  SameRings
<1>1. ASSUME NEW playing, OnPlayState(playing)
      PROVE  SameRings
    BY <1>1, EverySetKeepsRings DEF OnPlayState
<1>2. CASE m.type = "POLY_PLAYHEAD"
    BY <1>1, <1>2, SetsKeepRings DEF HandleGui, OnPlayhead, guiVars
<1>3. CASE m.type \in Filling \cup {"POLY_REBUILD"}
    BY <1>3, SetsKeepRings DEF Filling, HandleGui, OnRebuild, OnRing, OnRingShape, OnRingTimeline,
       OnRingActive, Stages
<1>4. CASE m.type = "POLY_HW_MODE"
    BY <1>4, EverySetKeepsRings DEF HandleGui, OnHwMode
<1>5. ASSUME NEW r \in Nat, OnSelect(r)
      PROVE  SameRings
  <2>1. CASE SetOf(r) < Len(sets)
    <3> DEFINE s == SetOf(r) + 1
               new == [UiSelectRing(sets[s], LocalOf(r)) EXCEPT !.slotSelected = LocalOf(r)]
    <3>1. s \in 1 .. Len(sets) /\ sets[s] \in ShownSet(modes)
        BY <2>1, SetOfRing
    <3>2. new.rings = sets[s].rings
        BY <3>1, SelectionKeepsRings
    <3>3. sets' = [sets EXCEPT ![s] = new]
        BY <1>5, <2>1 DEF OnSelect
    <3> HIDE DEF new
    <3> QED BY <3>1, <3>2, <3>3, OneSetKeepsRings
  <2>2. CASE ~ SetOf(r) < Len(sets)
      BY <1>5, <2>2, SetsKeepRings DEF OnSelect
  <2> QED BY <2>1, <2>2
<1>6. ASSUME NEW r \in Nat, NEW p, OnSelectedPoint(r, p)
      PROVE  SameRings
  <2>1. CASE SetOf(r) < Len(sets)
    <3> DEFINE s == SetOf(r) + 1
               new == UiSelectPoint(sets[s], LocalOf(r), p)
    <3>1. s \in 1 .. Len(sets) /\ sets[s] \in ShownSet(modes)
        BY <2>1, SetOfRing
    <3>2. new.rings = sets[s].rings
        BY <3>1, SelectionKeepsRings
    <3>3. sets' = [sets EXCEPT ![s] = new]
        BY <1>6, <2>1 DEF OnSelectedPoint
    <3> HIDE DEF new
    <3> QED BY <3>1, <3>2, <3>3, OneSetKeepsRings
  <2>2. CASE ~ SetOf(r) < Len(sets)
      BY <1>6, <2>2, SetsKeepRings DEF OnSelectedPoint
  <2> QED BY <2>1, <2>2
<1>7. m.type \in {"POLY_SELECT", "POLY_SELECTED_POINT"} => m.ring \in Nat
    BY MessageFields
<1> QED BY <1>1, <1>2, <1>3, <1>4, <1>5, <1>6, <1>7 DEF HandleGui, Filling

(* Every touch but that of a point asks the engine for something else.     *)
LEMMA TouchKeepsRings ==
  ASSUME NEW modes, CarouselSound(modes), sets # << >>, NEW kind, kind # "dot", Touch(kind)
  PROVE  SameRings /\ \E m : m.type # "POLY_TOGGLE" /\ SendsToAudio(m)
<1>0. Centre \in ShownSet(modes) /\ currentSet + 1 \in 1 .. Len(sets)
    BY CentreIsShown
<1>1. ASSUME NEW set, set.rings = Centre.rings, sets' = [sets EXCEPT ![currentSet + 1] = set]
      PROVE  SameRings
    BY <1>0, <1>1, OneSetKeepsRings DEF Centre
<1>2. ASSUME NEW i \in 0 .. RingsPerSet - 1, TouchRingLabel(i)
      PROVE  SameRings /\ \E m : m.type # "POLY_TOGGLE" /\ SendsToAudio(m)
  <2> DEFINE new == [UiSelectRing(Centre, i) EXCEPT !.slotSelected = i]
             m == [type |-> "POLY_SET_SELECTED_RING", ring |-> GlobalOf(i)]
  <2>1. new.rings = Centre.rings
      BY <1>0, SelectionKeepsRings
  <2>2. sets' = [sets EXCEPT ![currentSet + 1] = new] /\ SendsToAudio(m)
      BY <1>2 DEF TouchRingLabel, Centre
  <2>3. m.type # "POLY_TOGGLE"
      OBVIOUS
  <2> HIDE DEF new, m
  <2> QED BY <1>1, <2>1, <2>2, <2>3
<1>3. ASSUME NEW mode, TouchMode(mode)
      PROVE  SameRings /\ \E m : m.type # "POLY_TOGGLE" /\ SendsToAudio(m)
  <2> DEFINE new == [Centre EXCEPT !.mode = mode]
             m == [type |-> "POLY_HW_MODE", mode |-> mode]
  <2>1. new.rings = Centre.rings
      BY <1>0 DEF ShownSet
  <2>2. sets' = [sets EXCEPT ![currentSet + 1] = new] /\ SendsToAudio(m)
      BY <1>3 DEF TouchMode, Centre
  <2>3. m.type # "POLY_TOGGLE"
      OBVIOUS
  <2> HIDE DEF new, m
  <2> QED BY <1>1, <2>1, <2>2, <2>3
<1>4. ASSUME NEW m, Asks(m), m.type # "POLY_TOGGLE"
      PROVE  SameRings /\ \E n : n.type # "POLY_TOGGLE" /\ SendsToAudio(n)
    BY <1>4, SetsKeepRings DEF Asks, guiState
<1>5. CASE TouchAddShape
  <2>1. PICK m : Asks(m) /\ m.type # "POLY_TOGGLE"
      BY <1>5 DEF TouchAddShape
  <2> QED BY <1>4, <2>1
<1>6. ASSUME NEW index, TouchRemoveShape(index)
      PROVE  SameRings /\ \E n : n.type # "POLY_TOGGLE" /\ SendsToAudio(n)
  <2>1. PICK m : Asks(m) /\ m.type # "POLY_TOGGLE"
      BY <1>6 DEF TouchRemoveShape
  <2> QED BY <1>4, <2>1
<1>7. ASSUME NEW index, NEW step, NEW cap, TouchSubdivision(index, step, cap)
      PROVE  SameRings /\ \E n : n.type # "POLY_TOGGLE" /\ SendsToAudio(n)
  <2>1. PICK m : Asks(m) /\ m.type # "POLY_TOGGLE"
      BY <1>7 DEF TouchSubdivision
  <2> QED BY <1>4, <2>1
<1>8. ASSUME NEW amount, TouchRotate(amount)
      PROVE  SameRings /\ \E n : n.type # "POLY_TOGGLE" /\ SendsToAudio(n)
  <2>1. PICK m : Asks(m) /\ m.type # "POLY_TOGGLE"
      BY <1>8 DEF TouchRotate
  <2> QED BY <1>4, <2>1
<1> QED BY <1>2, <1>3, <1>5, <1>6, <1>7, <1>8 DEF Touch

LEMMA KeyPlayKeepsRings ==
  ASSUME NEW modes, CarouselSound(modes), KeyPlay
  PROVE  SameRings /\ \E m : m.type # "POLY_TOGGLE" /\ SendsToAudio(m)
<1>1. SameRings
    BY EverySetKeepsRings DEF KeyPlay
<1> DEFINE m == [type |-> IF is_playing' THEN "PLAY" ELSE "PAUSE"]
<1>2. m.type # "POLY_TOGGLE" /\ SendsToAudio(m)
    BY DEF KeyPlay
<1> HIDE DEF m
<1> QED BY <1>1, <1>2

(* The place of ring r among what is shown.                                *)
LEMMA ShownPlace ==
  ASSUME NEW modes, CarouselSound(modes), NEW c, Layout(c), NEW r \in Ring
  PROVE  /\ SetOf(r) \in Nat /\ SetOf(r) + 1 \in 1 .. Len(sets) /\ SetOf(r) < Len(sets)
         /\ sets[SetOf(r) + 1] \in ShownSet(modes)
         /\ sets[SetOf(r) + 1].ringCount = Held(SetOf(r))
         /\ Len(sets[SetOf(r) + 1].rings) = Held(SetOf(r))
         /\ LocalOf(r) \in Nat /\ LocalOf(r) < Held(SetOf(r)) /\ Held(SetOf(r)) \in Int
         /\ LocalOf(r) + 1 \in 1 .. Len(sets[SetOf(r) + 1].rings)
         /\ Shown(r) \in ShownRings
<1> DEFINE s == SetOf(r)
           i == LocalOf(r)
<1>1. /\ s \in Nat /\ i \in Nat /\ r \in Nat
      /\ s < SetsNeeded /\ i < Held(s)
    BY PlaceOfRing
<1>2. Held(s) \in Int
    BY <1>1, RingNumbers, EngineAssumption, CarouselAssumption DEF Held
<1> HIDE DEF s, i
<1>3. sets \in Seq(ShownSet(modes)) /\ Len(sets) = SetsNeeded /\ Len(sets) \in Nat
    BY DEF Layout, CarouselSound
<1>4. s + 1 \in 1 .. Len(sets) /\ (s + 1) - 1 = s
    BY <1>1, <1>3
<1>5. SetShows(c, s, sets[s + 1]) /\ sets[s + 1] \in ShownSet(modes)
    BY <1>3, <1>4 DEF Layout
<1>6. sets[s + 1].rings \in Seq(ShownRings) /\ Len(sets[s + 1].rings) = Held(s)
      /\ sets[s + 1].ringCount = Held(s)
    BY <1>5 DEF ShownSet, SetShows
<1>7. i + 1 \in 1 .. Len(sets[s + 1].rings)
    BY <1>1, <1>2, <1>6
<1>8. Shown(r) \in ShownRings
    BY <1>6, <1>7 DEF Shown, s, i
<1> QED BY <1>1, <1>2, <1>3, <1>4, <1>5, <1>6, <1>7, <1>8 DEF s, i

LEMMA SameRingsShown ==
  ASSUME NEW modes, CarouselSound(modes), NEW c, Layout(c), NEW r \in Ring, SameRings
  PROVE  Shown(r)' = Shown(r)
<1>1. SetOf(r) + 1 \in 1 .. Len(sets)
    BY ShownPlace
<1>2. sets'[SetOf(r) + 1].rings = sets[SetOf(r) + 1].rings
    BY <1>1 DEF SameRings
<1> QED BY <1>2 DEF Shown, SetOf, LocalOf

(* A ring is where its number says.                                        *)
LEMMA OnePlace ==
  ASSUME NEW q \in Nat, NEW r \in Nat, SetOf(q) = SetOf(r), LocalOf(q) = LocalOf(r)
  PROVE  q = r
<1> DEFINE R == RingsPerSet
<1>1. R \in Nat /\ R > 0
    BY CarouselAssumption
<1>2. ASSUME NEW x \in Nat
      PROVE  x = R * (x \div R) + (x % R)
    BY <1>1, <1>2
<1>3. q \div R = r \div R /\ q % R = r % R
    BY DEF SetOf, LocalOf
<1> HIDE DEF R
<1> QED BY <1>2, <1>3

LEMMA PlaceOfGlobal ==
  ASSUME NEW s \in Nat, NEW i \in Nat, i < RingsPerSet
  PROVE  /\ FirstRing(s) + i \in Nat
         /\ SetOf(FirstRing(s) + i) = s /\ LocalOf(FirstRing(s) + i) = i
<1> DEFINE R == RingsPerSet
           q == s * R + i
           d == q \div R
           e == q % R
<1>1. R \in Nat /\ R > 0 /\ s * R \in Nat /\ s * R = R * s
    BY CarouselAssumption
<1>2. q \in Nat
    BY <1>1
<1>3. ASSUME NEW x \in Nat
      PROVE  /\ x \div R \in Nat /\ x % R \in Nat /\ x % R < R
             /\ x = R * (x \div R) + (x % R)
    BY <1>1
<1>4. d \in Nat /\ e \in Nat /\ e < R /\ q = R * d + e
    BY <1>2, <1>3
<1>5. q = R * s + i /\ R * s \in Nat /\ R * d \in Int /\ i < R
    BY <1>1, <1>4
<1> HIDE DEF R, q, d, e
<1>6. d = s
  <2>1. ASSUME d > s PROVE FALSE
    <3>1. d - s - 1 \in Nat /\ R * (d - s - 1) \in Nat
        BY <1>1, <1>4, <2>1
    <3>2. R * (d - s - 1) = R * d - R * s - R
        BY <1>1, <1>4
    <3> QED BY <1>1, <1>4, <1>5, <3>1, <3>2
  <2>2. ASSUME d < s PROVE FALSE
    <3>1. s - d - 1 \in Nat /\ R * (s - d - 1) \in Nat
        BY <1>1, <1>4, <2>2
    <3>2. R * (s - d - 1) = R * s - R * d - R
        BY <1>1, <1>4
    <3> QED BY <1>1, <1>4, <1>5, <3>1, <3>2
  <2> QED BY <1>4, <2>1, <2>2
<1>7. e = i
    BY <1>1, <1>4, <1>5, <1>6
<1> QED BY <1>2, <1>6, <1>7 DEF FirstRing, SetOf, LocalOf, R, q, d, e

ToggledAt(rs, i, p) == [rs EXCEPT ![i + 1] = PointToggled(@, p)]

LEMMA ToggledRings ==
  ASSUME NEW modes, NEW set \in ShownSet(modes), NEW i, NEW p, i < Len(set.rings)
  PROVE  UiToggle(set, i, p).rings = ToggledAt(set.rings, i, p)
BY DEF UiToggle, ShownSet, ToggledAt

LEMMA UntouchedRings ==
  ASSUME NEW set, NEW i, NEW p, ~ i < Len(set.rings)
  PROVE  UiToggle(set, i, p).rings = set.rings
BY DEF UiToggle

(***************************************************************************)
(* A point is toggled on ring q as it is shown.                            *)
(***************************************************************************)
LEMMA ToggleShown ==
  ASSUME NEW modes, CarouselSound(modes), NEW c, Layout(c), NEW q \in Nat, NEW p,
         SetOf(q) < Len(sets), NEW set,
         set.rings = UiToggle(sets[SetOf(q) + 1], LocalOf(q), p).rings,
         sets' = [sets EXCEPT ![SetOf(q) + 1] = set],
         NEW m, m.type = "POLY_TOGGLE", m.ring = q, m.point = p, NEW r \in Ring
  PROVE  Shown(r)'.active = FlippedBy(r, Shown(r).active, m)
<1> DEFINE s == SetOf(r) + 1
           i == LocalOf(r) + 1
           t == SetOf(q) + 1
           j == LocalOf(q)
           old == sets[t]
<1>1. /\ s \in 1 .. Len(sets) /\ sets[s] \in ShownSet(modes) /\ i \in 1 .. Len(sets[s].rings)
      /\ Shown(r) = sets[s].rings[i] /\ Shown(r) \in RingType
      /\ SetOf(r) \in Nat /\ LocalOf(r) \in Nat /\ r \in Nat
  <2>1. /\ s \in 1 .. Len(sets) /\ sets[s] \in ShownSet(modes) /\ i \in 1 .. Len(sets[s].rings)
        /\ Shown(r) \in ShownRings
      BY ShownPlace
  <2>2. SetOf(r) \in Nat /\ LocalOf(r) \in Nat /\ r \in Nat
      BY PlaceOfRing
  <2> QED BY <2>1, <2>2 DEF Shown, ShownRings
<1>2. t \in 1 .. Len(sets) /\ old \in ShownSet(modes) /\ j \in Nat /\ SetOf(q) \in Nat
  <2>1. SetOf(q) \in Nat
      BY RingNumbers
  <2> QED BY <2>1, SetOfRing
<1>3. Shown(r)' = sets'[s].rings[i]
    BY DEF Shown, SetOf, LocalOf
<1>4. sets \in Seq(ShownSet(modes))
    BY DEF CarouselSound
<1>5. \A k \in 1 .. Len(sets) : sets'[k] = IF k = t THEN set ELSE sets[k]
    BY <1>2, <1>4
<1>6. CASE s # t
  <2>1. Shown(r)' = Shown(r)
      BY <1>1, <1>3, <1>5, <1>6
  <2>2. q # r
      BY <1>6
  <2> QED BY <2>1, <2>2, OtherMask
<1>7. CASE s = t /\ j # LocalOf(r)
  <2>1. q # r
      BY <1>7
  <2>2. sets'[s] = set
      BY <1>1, <1>5, <1>7
  <2>3. set.rings[i] = old.rings[i]
    <3>1. CASE j < Len(old.rings)
      <4>1. set.rings = ToggledAt(old.rings, j, p)
          BY <1>2, <3>1, ToggledRings
      <4>2. i # j + 1
          BY <1>1, <1>2, <1>7
      <4>3. old.rings \in Seq(ShownRings) /\ i \in 1 .. Len(old.rings)
          BY <1>1, <1>2, <1>7 DEF ShownSet
      <4> HIDE DEF old, i, j
      <4> QED BY <4>1, <4>2, <4>3 DEF ToggledAt
    <3>2. CASE ~ j < Len(old.rings)
      <4>1. UiToggle(old, j, p).rings = old.rings
          BY <3>2, UntouchedRings
      <4>2. set.rings = UiToggle(old, j, p).rings
          OBVIOUS
      <4> HIDE DEF old, j
      <4> QED BY <4>1, <4>2
    <3> QED BY <3>1, <3>2
  <2>4. Shown(r)' = Shown(r)
      BY <1>1, <1>3, <1>7, <2>2, <2>3
  <2> QED BY <2>1, <2>4, OtherMask
<1>8. CASE s = t /\ j = LocalOf(r)
  <2>1. q = r
    <3>1. SetOf(q) = SetOf(r)
        BY <1>1, <1>2, <1>8
    <3> QED BY <1>1, <1>8, <3>1, OnePlace
  <2>2. sets'[s] = set
      BY <1>1, <1>5, <1>8
  <2>3. /\ j + 1 = i /\ j < Len(old.rings) /\ i \in 1 .. Len(old.rings) /\ old.rings \in Seq(ShownRings)
        /\ old.rings[i] = Shown(r)
    <3>1. old = sets[s] /\ j + 1 = i
        BY <1>8
    <3>2. i \in 1 .. Len(old.rings) /\ old.rings \in Seq(ShownRings) /\ old.rings[i] = Shown(r)
        BY <1>1, <1>2, <3>1 DEF ShownSet
    <3>3. j < Len(old.rings)
      <4>1. Len(old.rings) \in Nat
          BY <3>2
      <4> HIDE DEF old, i
      <4> QED BY <1>2, <3>1, <3>2, <4>1
    <3> QED BY <3>1, <3>2, <3>3
  <2>4. set.rings = ToggledAt(old.rings, j, p)
      BY <1>2, <2>3, ToggledRings
  <2>5. set.rings[i] = PointToggled(Shown(r), p)
    <3> HIDE DEF old, i, j
    <3> QED BY <2>3, <2>4 DEF ToggledAt
  <2>6. Shown(r)' = PointToggled(Shown(r), p)
      BY <1>3, <2>2, <2>5
  <2> QED BY <1>1, <2>1, <2>6, ToggledMask
<1> QED BY <1>6, <1>7, <1>8

(* The GUI takes a POLY_TOGGLE.                                            *)
LEMMA ToggleMessageShown ==
  ASSUME NEW modes, CarouselSound(modes), NEW c, Layout(c), NEW m \in GuiMessage,
         m.type = "POLY_TOGGLE", HandleGui(m), NEW r \in Ring
  PROVE  Shown(r)'.active = FlippedBy(r, Shown(r).active, m)
<1> DEFINE q == m.ring
           p == m.point
           toggled == UiToggle(sets[SetOf(q) + 1], LocalOf(q), p)
           new == UiSelectPoint(toggled, LocalOf(q), p)
<1>1. q \in Nat /\ p \in Nat
    BY MessageFields
<1>2. OnToggle(q, p)
    BY DEF HandleGui
<1>3. CASE SetOf(q) < Len(sets)
  <2>1. sets' = [sets EXCEPT ![SetOf(q) + 1] = new]
      BY <1>2, <1>3 DEF OnToggle
  <2>2. new.rings = toggled.rings
    <3>1. sets[SetOf(q) + 1] \in ShownSet(modes) /\ LocalOf(q) \in Nat
        BY <1>1, <1>3, SetOfRing
    <3>2. toggled \in ShownSet(modes)
        BY <1>1, <3>1, UiToggleShown
    <3> QED BY <3>2, SelectionKeepsRings
  <2> HIDE DEF new
  <2> QED BY <1>1, <1>3, <2>1, <2>2, ToggleShown
<1>4. CASE ~ SetOf(q) < Len(sets)
  <2>1. UNCHANGED sets
      BY <1>2, <1>4 DEF OnToggle
  <2>2. Shown(r)' = Shown(r)
      BY <2>1 DEF Shown, SetOf, LocalOf
  <2>3. q # r
      BY <1>4, ShownPlace
  <2> QED BY <2>2, <2>3, OtherMask
<1> QED BY <1>3, <1>4

(* The user touches a point: the GUI toggles it and asks the engine to.    *)
LEMMA TouchDotShown ==
  ASSUME NEW modes, CarouselSound(modes), sets # << >>, NEW c, Layout(c),
         NEW i \in 0 .. RingsPerSet - 1, NEW p \in 0 .. 1, TouchDot(i, p)
  PROVE  \E m \in Command :
           /\ m.type = "POLY_TOGGLE" /\ m.ring \in Ring /\ SendsToAudio(m)
           /\ \A r \in Ring : Shown(r)'.active = FlippedBy(r, Shown(r).active, m)
<1> DEFINE q == GlobalOf(i)
           m == [type |-> "POLY_TOGGLE", ring |-> q, point |-> p]
           chosen == UiSelectPoint(Centre, i, p)
           new == UiToggle(chosen, i, p)
<1>1. i \in Nat /\ i < RingsPerSet /\ p \in Nat
    BY CarouselAssumption
<1>2. Centre \in ShownSet(modes) /\ currentSet + 1 \in 1 .. Len(sets) /\ currentSet \in Nat
      /\ currentSet < Len(sets)
    BY CentreIsShown DEF CarouselSound
<1>3. q \in Nat /\ SetOf(q) = currentSet /\ LocalOf(q) = i
    BY <1>1, <1>2, PlaceOfGlobal DEF GlobalOf
<1>4. q \in Ring
  <2>1. Len(sets) = SetsNeeded /\ SetShows(c, (currentSet + 1) - 1, Centre)
      BY <1>2 DEF Layout, Centre
  <2>2. (currentSet + 1) - 1 = currentSet /\ FirstRing(currentSet) < NumRings
    <3>1. (currentSet + 1) - 1 = currentSet
        BY <1>2
    <3>2. FirstRing((currentSet + 1) - 1) < NumRings
        BY <1>2, <2>1, RingsOfSets
    <3> QED BY <3>1, <3>2
  <2>3. Len(Centre.rings) = Held(currentSet)
      BY <2>1, <2>2 DEF SetShows
  <2>4. /\ Held(currentSet) \in Nat /\ FirstRing(currentSet) \in Nat
        /\ FirstRing(currentSet) + Held(currentSet) <= NumRings
      BY <1>2, <2>2, HeldType
  <2>5. i < Held(currentSet)
      BY <2>3 DEF TouchDot
  <2>6. NumRings \in Nat
      BY EngineAssumption
  <2> QED BY <1>1, <2>4, <2>5, <2>6 DEF GlobalOf, Ring
<1>5. sets' = [sets EXCEPT ![currentSet + 1] = new] /\ SendsToAudio(m)
    BY DEF TouchDot, Centre
<1>6. new.rings = UiToggle(Centre, i, p).rings
  <2>1. chosen \in ShownSet(modes) /\ chosen.rings = Centre.rings
    <3>1. PICK old \in ShownSet(modes) : old = Centre
        BY <1>2
    <3>2. UiSelectPoint(old, i, p) \in ShownSet(modes)
        BY <1>1, UiSelectPointShown
    <3>3. UiSelectPoint(old, i, p).rings = old.rings
        BY SelectionKeepsRings
    <3> QED BY <3>1, <3>2, <3>3
  <2> HIDE DEF chosen
  <2>2. CASE i < Len(Centre.rings)
    <3>1. UiToggle(Centre, i, p).rings = ToggledAt(Centre.rings, i, p)
        BY <1>2, <2>2, ToggledRings
    <3>2. UiToggle(chosen, i, p).rings = ToggledAt(chosen.rings, i, p)
        BY <2>1, <2>2, ToggledRings
    <3> QED BY <2>1, <3>1, <3>2
  <2>3. CASE ~ i < Len(Centre.rings)
    <3>1. UiToggle(Centre, i, p).rings = Centre.rings
        BY <2>3, UntouchedRings
    <3>2. UiToggle(chosen, i, p).rings = chosen.rings
        BY <2>1, <2>3, UntouchedRings
    <3> QED BY <2>1, <3>1, <3>2
  <2> QED BY <2>2, <2>3
<1>7. m \in Command
    BY <1>1, <1>3 DEF Command
<1>8. m.type = "POLY_TOGGLE" /\ m.ring = q /\ m.point = p
    OBVIOUS
<1> HIDE DEF new, m, q
<1>9. Centre = sets[SetOf(q) + 1]
    BY <1>3 DEF Centre
<1>10. \A r \in Ring : Shown(r)'.active = FlippedBy(r, Shown(r).active, m)
    BY <1>2, <1>3, <1>5, <1>6, <1>8, <1>9, ToggleShown
<1> QED BY <1>4, <1>5, <1>7, <1>8, <1>10

(***************************************************************************)
(* A set filled from the staging area shows the staged masks.              *)
(***************************************************************************)
LEMMA FittingMask ==
  ASSUME NEW ring \in RingType, Len(ring.active) = PointCount(ring)
  PROVE  ShownRing(ring).active = ring.active
<1> DEFINE a == ring.active
           n == Len(a)
<1>1. a \in Seq(BOOLEAN) /\ n \in Nat /\ DOMAIN a = 1 .. n
  <2>1. ring.active \in Seq(BOOLEAN)
      BY DEF RingType
  <2> HIDE DEF a
  <2> QED BY <2>1 DEF a
<1>2. ShownRing(ring).active = Resized(a, n)
    BY DEF ShownRing, RingType
<1> HIDE DEF a, n
<1>3. \A i \in 1 .. n : a[i] \in BOOLEAN
    BY <1>1 DEF n
<1>4. Resized(a, n) = [i \in 1 .. n |-> i \in 1 .. n /\ a[i]]
    BY <1>1 DEF Resized
<1>5. a = [i \in 1 .. n |-> a[i]]
    BY <1>1
<1>6. \A i \in 1 .. n : (i \in 1 .. n /\ a[i]) = a[i]
    BY <1>3
<1>7. Resized(a, n) = a
    BY <1>4, <1>5, <1>6, Zenon
<1> QED BY <1>2, <1>7 DEF a

LEMMA PopulatedRing ==
  ASSUME NEW modes, NEW set \in ShownSet(modes), NEW s \in Nat, FirstRing(s) < NumRings,
         NEW staging \in Seq(RingType), Len(staging) = NumRings, set.ringCount = Held(s),
         NEW i \in Nat, i < Held(s)
  PROVE  Populated(set, s, staging).rings[i + 1] = ShownRing(staging[FirstRing(s) + (i + 1)])
<1> DEFINE first == FirstRing(s)
           n == Held(s)
           rs == [k \in 1 .. n |-> ShownRing(staging[first + k])]
<1>1. first \in Nat /\ n \in Nat /\ first + n <= NumRings /\ NumRings \in Nat
    BY EngineAssumption, HeldType
<1>2. Populated(set, s, staging).rings = rs
  <2>1. (IF first + set.ringCount <= Len(staging) THEN set.ringCount
         ELSE IF first < Len(staging) THEN Len(staging) - first ELSE 0) = n
      BY <1>1
  <2> HIDE DEF n
  <2> QED BY <2>1 DEF Populated, ShownSet
<1> HIDE DEF first, n
<1>3. i + 1 \in 1 .. n
    BY <1>1 DEF n
<1>4. rs[i + 1] = ShownRing(staging[first + (i + 1)])
    BY <1>3
<1> QED BY <1>2, <1>4 DEF first

(* Navigation writes back the masks as they are shown.                     *)
LEMMA SyncedRing ==
  ASSUME NEW modes, CarouselSound(modes), NEW c, Layout(c), NEW s \in Nat, s < Len(sets),
         NEW staging \in Seq(RingType), Len(staging) = NumRings, NEW r \in Ring
  PROVE  /\ Len(Synced(staging, s)) = NumRings
         /\ Synced(staging, s)[r + 1].timeline = staging[r + 1].timeline
         /\ SetOf(r) = s => Synced(staging, s)[r + 1].active = Shown(r).active
         /\ SetOf(r) # s => Synced(staging, s)[r + 1].active = staging[r + 1].active
<1> DEFINE inSet(i) == SetOf(i - 1) = s /\ LocalOf(i - 1) < sets[s + 1].ringCount
           mask(i) == IF LocalOf(i - 1) < Len(sets[s + 1].rings)
                      THEN sets[s + 1].rings[LocalOf(i - 1) + 1].active ELSE << >>
           ring(i) == IF inSet(i) THEN [staging[i] EXCEPT !.active = mask(i)] ELSE staging[i]
           n == Len(staging)
           k == r + 1
<1>1. n \in Nat /\ DOMAIN staging = 1 .. n /\ n = NumRings
    OBVIOUS
<1>2. k \in 1 .. n /\ k - 1 = r /\ r \in Nat
    BY <1>1, EngineAssumption DEF Ring
<1>3. Synced(staging, s) = [i \in 1 .. n |-> ring(i)]
    BY <1>1 DEF Synced
<1>4. staging[k] \in RingType
    BY <1>2
<1>5. Synced(staging, s) \in Seq(RingType)
    BY SyncedType
<1>6. SetOf(r) = s => ring(k) = [staging[k] EXCEPT !.active = Shown(r).active]
  <2> SUFFICES ASSUME SetOf(r) = s PROVE ring(k) = [staging[k] EXCEPT !.active = Shown(r).active]
      OBVIOUS
  <2>1. inSet(k)
      BY <1>2, ShownPlace
  <2>2. mask(k) = Shown(r).active
    <3>1. LocalOf(r) < Len(sets[s + 1].rings)
        BY ShownPlace
    <3> HIDE DEF k
    <3> QED BY <1>2, <3>1 DEF Shown
  <2> HIDE DEF inSet, mask, k
  <2> QED BY <2>1, <2>2
<1>7. SetOf(r) # s => ring(k) = staging[k]
    BY <1>2
<1> HIDE DEF ring, k
<1>8. Synced(staging, s)[k] = ring(k)
    BY <1>2, <1>3
<1>9. Len(Synced(staging, s)) = n
    BY <1>1, <1>3, <1>5
<1>10. [staging[k] EXCEPT !.active = Shown(r).active].timeline = staging[k].timeline
       /\ [staging[k] EXCEPT !.active = Shown(r).active].active = Shown(r).active
    BY <1>4 DEF RingType
<1>11. ring(k).timeline = staging[k].timeline
    BY <1>6, <1>7, <1>10
<1>12. (SetOf(r) = s => ring(k).active = Shown(r).active)
       /\ (SetOf(r) # s => ring(k).active = staging[k].active)
    BY <1>6, <1>7, <1>10
<1> QED BY <1>1, <1>8, <1>9, <1>11, <1>12 DEF k

LEMMA NavigateShown ==
  ASSUME NEW modes, CarouselSound(modes), NEW n \in Int, NavigateBy(n), NEW c, Layout(c),
         NEW r \in Ring
  PROVE  Shown(r)'.active = Shown(r).active
<1>1. CASE isAnimating \/ Len(sets) <= 1
  <2>1. UNCHANGED sets
      BY <1>1 DEF NavigateBy, guiVars
  <2> QED BY <2>1 DEF Shown, SetOf, LocalOf
<1>2. CASE ~ (isAnimating \/ Len(sets) <= 1)
  <2> DEFINE centre == (currentSet + n) % Len(sets)
             once == Synced(staged, currentSet)
             staging == Synced(once, centre)
             laidOut == LaidOut(sets, centre)
             refilled == [s \in DOMAIN sets |->
                            IF s - 1 \in {currentSet, centre}
                            THEN Populated(laidOut[s], s - 1, staging) ELSE laidOut[s]]
             ring == laidOut[centre + 1].slotSelected
             last == UiSelectRing(refilled[centre + 1], ring)
             s == SetOf(r)
             i == LocalOf(r)
  <2>1. sets' = [refilled EXCEPT ![centre + 1] = last]
    <3>1. NavigateTo(centre)
        BY <1>2 DEF NavigateBy
    <3>2. sets' = [refilled EXCEPT ![centre + 1] = UiSelectRing(@, ring)]
        BY <3>1 DEF NavigateTo
    <3> QED BY <3>2
  <2>2. /\ sets \in Seq(ShownSet(modes)) /\ Len(sets) \in Nat /\ Len(sets) > 1
        /\ DOMAIN sets = 1 .. Len(sets)
        /\ currentSet \in Nat /\ currentSet < Len(sets) /\ carouselMode \in modes
        /\ staged \in Seq(RingType)
      BY <1>2 DEF CarouselSound
  <2>3. centre \in Nat /\ centre < Len(sets) /\ centre + 1 \in 1 .. Len(sets)
    <3>1. currentSet + n \in Int
        BY <2>2
    <3>2. centre \in 0 .. Len(sets) - 1
        BY <2>2, <3>1, ModRange
    <3> HIDE DEF centre
    <3> QED BY <2>2, <3>2
  <2> HIDE DEF centre
  <2>4. /\ s \in Nat /\ s + 1 \in 1 .. Len(sets) /\ s < Len(sets)
        /\ sets[s + 1] \in ShownSet(modes)
        /\ sets[s + 1].ringCount = Held(s)
        /\ i \in Nat /\ i < Held(s)
        /\ Shown(r) \in ShownRings
        /\ FirstRing(s) + i = r /\ FirstRing(s) \in Nat /\ r \in Nat
      BY ShownPlace, PlaceOfRing, RingNumbers
  <2>5. FirstRing(s) < NumRings /\ FirstRing(s) + (i + 1) = r + 1
    <3>1. r < NumRings /\ NumRings \in Nat
        BY EngineAssumption DEF Ring
    <3> HIDE DEF s, i
    <3> QED BY <2>4, <3>1
  <2> HIDE DEF s, i
  <2>6. /\ Len(staged) = NumRings /\ r + 1 \in 1 .. NumRings
        /\ staged[r + 1].timeline = Shown(r).timeline
    <3>1. Seen(FALSE, staged) = c /\ Len(c) = NumRings
        BY DEF Layout
    <3>2. Len(staged) = NumRings /\ \A k \in 1 .. NumRings : c[k] = Outline(staged[k])
        BY <2>2, <3>1, SeenParts
    <3>3. r + 1 \in 1 .. NumRings
        BY EngineAssumption DEF Ring
    <3>4. Outline(Shown(r)) = c[r + 1]
        BY RingIsShown
    <3>5. Outline(Shown(r)) = Outline(staged[r + 1])
        BY <3>2, <3>3, <3>4
    <3> QED BY <3>2, <3>3, <3>5 DEF Outline, Bare
  <2>7. /\ once \in Seq(RingType) /\ Len(once) = NumRings
        /\ once[r + 1].timeline = staged[r + 1].timeline
        /\ s = currentSet => once[r + 1].active = Shown(r).active
      BY <2>2, <2>6, SyncedType, SyncedRing DEF s
  <2> HIDE DEF once
  <2>8. /\ staging \in Seq(RingType) /\ Len(staging) = NumRings
        /\ staging[r + 1].timeline = once[r + 1].timeline
        /\ s = centre => staging[r + 1].active = Shown(r).active
        /\ s # centre => staging[r + 1].active = once[r + 1].active
      BY <2>3, <2>7, SyncedType, SyncedRing DEF s
  <2> HIDE DEF staging
  <2>9. /\ laidOut[s + 1].rings = sets[s + 1].rings
        /\ laidOut[s + 1].ringCount = Held(s)
        /\ laidOut[s + 1] \in ShownSet(modes)
    <3> DEFINE set == [sets[centre + 1] EXCEPT !.slotSelected = sets[centre + 1].selected]
    <3>1. sets[centre + 1] \in ShownSet(modes)
        BY <2>2, <2>3
    <3>2. sets[centre + 1].selected \in Nat /\ TRUE \in BOOLEAN
        BY <3>1 DEF ShownSet
    <3>3. set \in ShownSet(modes) /\ set.rings = sets[centre + 1].rings
          /\ set.ringCount = sets[centre + 1].ringCount
        BY <3>1, <3>2, SlotChanges DEF ShownSet
    <3>4. laidOut[s + 1] = IF s + 1 = centre + 1 THEN set ELSE sets[s + 1]
        BY <2>2, <2>3, <2>4 DEF LaidOut
    <3> HIDE DEF set, laidOut
    <3> QED BY <2>4, <3>3, <3>4
  <2> HIDE DEF laidOut
  <2>10. refilled[s + 1] = IF s \in {currentSet, centre}
                           THEN Populated(laidOut[s + 1], s, staging) ELSE laidOut[s + 1]
    <3>1. s + 1 \in DOMAIN sets /\ (s + 1) - 1 = s
        BY <2>2, <2>4
    <3> QED BY <3>1
  <2>11. refilled[s + 1] \in ShownSet(modes)
    <3>1. Populated(laidOut[s + 1], s, staging) \in ShownSet(modes)
        BY <2>2, <2>4, <2>8, <2>9, PopulatedShown
    <3> HIDE DEF refilled
    <3> QED BY <2>9, <2>10, <3>1
  <2>12. DOMAIN refilled = 1 .. Len(sets)
      BY <2>2
  <2> HIDE DEF refilled, ring
  <2>13. refilled[s + 1].rings[i + 1].active = Shown(r).active
    <3>1. CASE s \in {currentSet, centre}
      <4>1. refilled[s + 1].rings[i + 1] = ShownRing(staging[r + 1])
        <5>1. PICK set : set = laidOut[s + 1]
            OBVIOUS
        <5>2. refilled[s + 1] = Populated(set, s, staging)
            BY <2>10, <3>1, <5>1
        <5>3. set \in ShownSet(modes) /\ set.ringCount = Held(s)
            BY <2>9, <5>1
        <5>4. Populated(set, s, staging).rings[i + 1] = ShownRing(staging[FirstRing(s) + (i + 1)])
          <6>1. /\ s \in Nat /\ FirstRing(s) < NumRings /\ i \in Nat /\ i < Held(s)
                /\ staging \in Seq(RingType) /\ Len(staging) = NumRings
              BY <2>4, <2>5, <2>8
          <6> QED BY <5>3, <6>1, PopulatedRing, SMTT(20)
        <5>5. FirstRing(s) + (i + 1) = r + 1
            BY <2>4, <2>5
        <5> QED BY <5>2, <5>4, <5>5
      <4>2. staging[r + 1].active = Shown(r).active
          BY <2>7, <2>8, <3>1
      <4>3. staging[r + 1] \in RingType
          BY <2>6, <2>8
      <4>4. Len(staging[r + 1].active) = PointCount(staging[r + 1])
        <5>1. MaskFits(Shown(r))
            BY <2>4 DEF ShownRings
        <5>2. staging[r + 1].timeline = Shown(r).timeline
            BY <2>6, <2>7, <2>8
        <5> QED BY <4>2, <5>1, <5>2 DEF MaskFits, PointCount
      <4> QED BY <4>1, <4>2, <4>3, <4>4, FittingMask
    <3>2. CASE s \notin {currentSet, centre}
      <4>1. refilled[s + 1].rings = sets[s + 1].rings
          BY <2>9, <2>10, <3>2
      <4> QED BY <4>1 DEF Shown, s, i
    <3> QED BY <3>1, <3>2
  <2>14. s = centre => last.rings = refilled[s + 1].rings
      BY <2>11, SelectionKeepsRings
  <2> HIDE DEF last
  <2>15. sets'[s + 1] = IF s = centre THEN last ELSE refilled[s + 1]
      BY <2>1, <2>3, <2>4, <2>12
  <2>16. sets'[s + 1].rings = refilled[s + 1].rings
      BY <2>14, <2>15
  <2>17. Shown(r)' = sets'[s + 1].rings[i + 1]
      BY DEF Shown, SetOf, LocalOf, s, i
  <2> QED BY <2>13, <2>16, <2>17
<1> QED BY <1>1, <1>2

(* POLY_READY shows what is staged.                                        *)
LEMMA RefilledRing ==
  ASSUME NEW modes, CarouselSound(modes), Len(staged) = NumRings, NEW r \in Ring
  PROVE  /\ SetOf(r) + 1 \in 1 .. NumSets
         /\ Refilled(SetOf(r) + 1).rings[LocalOf(r) + 1] = ShownRing(staged[r + 1])
<1> DEFINE s == SetOf(r)
           i == LocalOf(r)
<1>1. /\ s \in Nat /\ i \in Nat /\ r \in Nat
      /\ s < SetsNeeded /\ i < Held(s) /\ FirstRing(s) + i = r /\ FirstRing(s) \in Nat
    BY PlaceOfRing, RingNumbers
<1> HIDE DEF s, i
<1>2. NumSets = SetsNeeded /\ NumSets \in Nat
    BY RefilledFrom
<1>3. s + 1 \in 1 .. NumSets /\ (s + 1) - 1 = s /\ FirstRing(s) + (i + 1) = r + 1
    BY <1>1, <1>2
<1>4. PICK old \in ShownSet(HardwareMode \cup modes) :
        old.ringCount = Held(s) /\ Refilled(s + 1) = Populated(old, s, staged)
  <2>1. \E old \in ShownSet(HardwareMode \cup modes) :
          /\ old.ringCount = Held((s + 1) - 1)
          /\ Refilled(s + 1) = Populated(old, (s + 1) - 1, staged)
      BY <1>3, RefilledFrom
  <2> QED BY <1>3, <2>1
<1>5. FirstRing(s) < NumRings /\ staged \in Seq(RingType)
  <2>1. FirstRing((s + 1) - 1) < NumRings
      BY <1>3, RefilledFrom
  <2> QED BY <1>3, <2>1 DEF CarouselSound
<1>6. Populated(old, s, staged).rings[i + 1] = ShownRing(staged[FirstRing(s) + (i + 1)])
  <2>1. PICK M : M = HardwareMode \cup modes
      OBVIOUS
  <2>2. old \in ShownSet(M) /\ old.ringCount = Held(s) /\ Len(staged) = NumRings
      BY <1>4, <2>1
  <2> QED BY <1>1, <1>5, <2>2, PopulatedRing
<1> QED BY <1>3, <1>4, <1>6 DEF s, i

LEMMA ReadyShown ==
  ASSUME NEW modes, CarouselSound(modes), OnReady, NEW c, Seen(FALSE, staged) = c,
         Len(c) = NumRings, NEW r \in Ring
  PROVE  Shown(r)' = ShownRing(staged[r + 1])
<1> DEFINE filled == [s \in 1 .. NumSets |-> Refilled(s)]
           restores == /\ pendingRing # NoRing
                       /\ SetOf(pendingRing) < NumSets
                       /\ LocalOf(pendingRing) < filled[SetOf(pendingRing) + 1].ringCount
           slotSelected(s) == IF restores /\ SetOf(pendingRing) = s - 1
                              THEN LocalOf(pendingRing) ELSE filled[s].slotSelected
           last(s) == filled[s].ringCount - 1
           ring(s) == IF slotSelected(s) > last(s) THEN last(s) ELSE slotSelected(s)
           chosen(s) == UiSelectRing([filled[s] EXCEPT !.slotSelected = ring(s)], ring(s))
           all == [s \in 1 .. NumSets |-> chosen(s)]
           centre == IF restores THEN SetOf(pendingRing)
                     ELSE IF currentSet >= NumSets /\ NumSets > 0 THEN 0 ELSE currentSet
           p == SetOf(r) + 1
<1>1. sets' = IF NumSets = 0 THEN << >> ELSE LaidOut(all, centre)
    BY DEF OnReady, Refilled
<1>2. Len(staged) = NumRings /\ NumSets \in Nat /\ NumSets > 0
    BY ReadyFills
<1>3. p \in 1 .. NumSets
    BY <1>2, RefilledRing
<1>4. filled[p] \in ShownSet(HardwareMode \cup modes) /\ filled[p].rings = Refilled(p).rings
  <2>1. filled[p] = Refilled(p)
      BY <1>3
  <2> HIDE DEF filled
  <2> QED BY <1>3, <2>1, ReadyFills
<1>5. all[p] = chosen(p) /\ DOMAIN all = 1 .. NumSets
    BY <1>3
<1> HIDE DEF filled, all, centre, ring, last, slotSelected, restores
<1> DEFINE slotted == [filled[p] EXCEPT !.slotSelected = ring(p)]
<1>6. slotted.rings = filled[p].rings
    BY <1>4 DEF ShownSet
<1>7. UiSelectRing(slotted, ring(p)).rings = slotted.rings
  <2> HIDE DEF slotted
  <2> QED BY DEF UiSelectRing
<1>8. all[p].rings = filled[p].rings
    BY <1>5, <1>6, <1>7
<1> DEFINE set == [all[centre + 1] EXCEPT !.slotSelected = all[centre + 1].selected]
<1>9. sets' = [all EXCEPT ![centre + 1] = set]
    BY <1>1, <1>2 DEF LaidOut
<1>10. p = centre + 1 => set.rings = all[p].rings
    BY DEF set
<1> HIDE DEF set, chosen
<1>11. sets'[p] = IF p = centre + 1 THEN set ELSE all[p]
    BY <1>3, <1>5, <1>9
<1>12. sets'[p].rings = Refilled(p).rings
    BY <1>4, <1>8, <1>10, <1>11
<1>13. Refilled(p).rings[LocalOf(r) + 1] = ShownRing(staged[r + 1])
    BY <1>2, RefilledRing
<1> QED BY <1>12, <1>13 DEF Shown, SetOf, LocalOf

-----------------------------------------------------------------------------
(***************************************************************************)
(* What the engine says of the masks when it handles anything but a        *)
(* POLY_TOGGLE: a whole rebuild, or POLY_TOGGLE messages that make of the  *)
(* masks what it made of them itself.                                      *)
(***************************************************************************)
Reports(b) ==
  \/ Rebuilds(b)
  \/ /\ Silent(b, Rebuilding)
     /\ SameOutlines
     /\ \A r \in Ring : Flips(r, PointCount(rings[r]), rings[r].active, b, rings'[r].active)

Reported == \E b \in Seq(GuiMessage) : toGui' = toGui \o b /\ Reports(b)

LEMMA SoundRingMask ==
  ASSUME NEW ring, SoundRing(ring)
  PROVE  ring.active \in Masks(PointCount(ring))
<1>1. ring.active \in Seq(BOOLEAN) /\ Len(ring.active) = Cardinality(ring.timeline)
    BY DEF SoundRing, RingType, MaskFits
<1> QED BY <1>1 DEF Masks, PointCount

LEMMA SoundMask ==
  ASSUME Sound, NEW r \in Ring
  PROVE  rings[r].active \in Masks(PointCount(rings[r]))
BY SoundRingMask DEF Sound

LEMMA QuietReports ==
  ASSUME Sound, NEW b \in Seq(GuiMessage), toGui' = toGui \o b,
         Silent(b, Rebuilding \cup {"POLY_TOGGLE"}), UNCHANGED rings
  PROVE  Reported
<1>1. Silent(b, Rebuilding) /\ Silent(b, {"POLY_TOGGLE"})
    BY DEF Silent
<1>2. ASSUME NEW r \in Ring
      PROVE  Flips(r, PointCount(rings[r]), rings[r].active, b, rings'[r].active)
  <2>1. rings'[r].active = rings[r].active
      OBVIOUS
  <2> QED BY <1>1, <2>1, SoundMask, FlipsSilent
<1> QED BY <1>1, <1>2 DEF Reported, Reports, SameOutlines

LEMMA SilenceReports ==
  ASSUME Sound, toGui \in Seq(GuiMessage), UNCHANGED <<rings, toGui>>
  PROVE  Reported
<1>1. << >> \in Seq(GuiMessage) /\ toGui' = toGui \o << >>
    OBVIOUS
<1> QED BY <1>1, NothingSilent, QuietReports

LEMMA OneReports ==
  ASSUME Sound, NEW msg \in GuiMessage, msg.type \notin Rebuilding \cup {"POLY_TOGGLE"},
         SendsToGui(<<msg>>), UNCHANGED rings
  PROVE  Reported
<1>1. <<msg>> \in Seq(GuiMessage) /\ toGui' = toGui \o <<msg>>
    BY DEF SendsToGui
<1> QED BY <1>1, OneSilent, QuietReports

LEMMA RebuildReports ==
  ASSUME RebuildsAll
  PROVE  Reported
BY DEF RebuildsAll, Reported, Reports

(* The engine toggles a point of ring q.                                   *)
LEMMA EngineToggled ==
  ASSUME Sound, NEW q \in Ring, NEW p, rings' = [rings EXCEPT ![q] = PointToggled(@, p)],
         NEW m, m.type = "POLY_TOGGLE", m.ring = q, m.point = p, NEW r \in Ring
  PROVE  /\ rings'[r].active = FlippedBy(r, rings[r].active, m)
         /\ PointCount(rings'[r]) = PointCount(rings[r])
<1>1. rings \in [Ring -> RingType] /\ rings[r] \in RingType
    BY DEF Sound
<1>2. SameOutlines
    BY ToggledOutlines
<1>3. CASE r = q
  <2>1. rings'[r] = PointToggled(rings[r], p)
      BY <1>1, <1>3
  <2>2. PointToggled(rings[r], p).active = FlippedBy(r, rings[r].active, m)
      BY <1>1, <1>3, ToggledMask
  <2> QED BY <1>2, <2>1, <2>2 DEF SameOutlines, PointCount
<1>4. CASE r # q
  <2>1. rings'[r] = rings[r]
      BY <1>1, <1>4
  <2> QED BY <1>4, <2>1, OtherMask
<1> QED BY <1>3, <1>4

LEMMA TwoInOne ==
  ASSUME NEW x, NEW y
  PROVE  <<x>> \o <<y>> = <<x, y>>
<1> DEFINE S == {x, y}
           a == <<x>> \o <<y>>
           b == <<x, y>>
<1>1. /\ <<x>> \in Seq(S) /\ <<y>> \in Seq(S) /\ Len(<<x>>) = 1 /\ Len(<<y>>) = 1
      /\ <<x>>[1] = x /\ <<y>>[1] = y
    OBVIOUS
<1>2. /\ b \in Seq(S) /\ Len(b) = 2 /\ b[1] = x /\ b[2] = y
    OBVIOUS
<1>3. PICK s \in Seq(S) : s = <<x>> /\ Len(s) = 1 /\ s[1] = x
    BY <1>1
<1>4. PICK t \in Seq(S) : t = <<y>> /\ Len(t) = 1 /\ t[1] = y
    BY <1>1
<1>5. s \o t \in Seq(S) /\ Len(s \o t) = 2 /\ (s \o t)[1] = x /\ (s \o t)[2] = y
    BY <1>3, <1>4
<1>6. \A i \in 1 .. 2 : i = 1 \/ i = 2
    OBVIOUS
<1>7. a = s \o t
    BY <1>3, <1>4
<1> HIDE DEF S, a, b
<1>8. a = b
    BY <1>2, <1>5, <1>6, <1>7, SameParts
<1> QED BY <1>8 DEF a, b

LEMMA ThreeInOne ==
  ASSUME NEW x, NEW y, NEW z
  PROVE  <<x, y, z>> = (<<x>> \o <<y>>) \o <<z>>
<1>1. <<x, y, z>> = <<x, y>> \o <<z>>
    OBVIOUS
<1> QED BY <1>1, TwoInOne

LEMMA ToggleSelectedPointReports ==
  ASSUME Sound, Sound', ToggleSelectedPoint
  PROVE  Reported
<1> DEFINE q == selectedRing
           p == Clamped(selectedPoints[q], rings[q])
           sel == SelectMsg(q)
           toggle == ToggleMsg(q, p)
           point == SelectedPointMsg(q, p)
           x == <<sel>>
           y == <<toggle>>
           z == <<point>>
           b == (x \o y) \o z
<1>1. /\ q \in Ring /\ q \in Nat /\ p \in Nat
      /\ rings' = [rings EXCEPT ![q] = PointToggled(@, p)]
  <2>1. q \in Ring /\ q \in Nat /\ selectedRing' = q /\ p = selectedPoints'[q]
      BY EngineAssumption DEF Sound, Ring, ToggleSelectedPoint
  <2>2. selectedPoints'[q] \in Nat
      BY <2>1 DEF Sound
  <2>3. rings' = [rings EXCEPT ![q] = PointToggled(@, p)]
      BY DEF ToggleSelectedPoint
  <2> QED BY <2>1, <2>2, <2>3
<1>2. toGui' = toGui \o <<sel, toggle, point>>
    BY DEF ToggleSelectedPoint, SendsToGui
<1>3. /\ sel \in GuiMessage /\ sel.type = "POLY_SELECT"
      /\ toggle \in GuiMessage /\ toggle.type = "POLY_TOGGLE" /\ toggle.ring = q /\ toggle.point = p
      /\ point \in GuiMessage /\ point.type = "POLY_SELECTED_POINT"
  <2>1. toggle.ring = q /\ toggle.point = p
      BY DEF ToggleMsg
  <2> HIDE DEF p
  <2> QED BY <1>1, <2>1, MessagesSent
<1>4. ASSUME NEW r \in Ring
      PROVE  rings'[r].active = FlippedBy(r, rings[r].active, toggle)
  <2> HIDE DEF p, toggle, q
  <2> QED BY <1>1, <1>3, EngineToggled
<1>5. SameOutlines
    BY <1>1, ToggledOutlines
<1> HIDE DEF sel, toggle, point, p
<1>6. <<sel, toggle, point>> = b
    BY ThreeInOne
<1>7. x \in Seq(GuiMessage) /\ y \in Seq(GuiMessage) /\ z \in Seq(GuiMessage) /\ x \o y \in Seq(GuiMessage)
      /\ b \in Seq(GuiMessage)
    BY <1>3
<1>8. /\ Silent(x, {"POLY_TOGGLE"}) /\ Silent(z, {"POLY_TOGGLE"})
      /\ Silent(x, Rebuilding) /\ Silent(y, Rebuilding) /\ Silent(z, Rebuilding)
    BY <1>3, OneSilent DEF Rebuilding, Filling
<1>9. ASSUME NEW r \in Ring
      PROVE  Flips(r, PointCount(rings[r]), rings[r].active, b, rings'[r].active)
  <2>1. PICK n : n = PointCount(rings[r])
      OBVIOUS
  <2>2. PICK a \in Masks(n) : a = rings[r].active
      BY <2>1, SoundMask
  <2>3. PICK u : u = FlippedBy(r, a, toggle)
      OBVIOUS
  <2>4. Flips(r, n, a, y, u)
      BY <1>3, <2>3, FlipsOne
  <2>5. u \in Masks(n)
      BY <1>7, <2>4, FlipsType
  <2> HIDE DEF x, y, z
  <2>6. Flips(r, n, a, x, a) /\ Flips(r, n, u, z, u)
      BY <1>7, <1>8, <2>5, FlipsSilent
  <2>7. Flips(r, n, a, x \o y, u)
      BY <1>7, <2>4, <2>6, FlipsOn
  <2>8. Flips(r, n, a, (x \o y) \o z, u)
      BY <1>7, <2>6, <2>7, FlipsOn
  <2> QED BY <1>4, <2>1, <2>2, <2>3, <2>8
<1> HIDE DEF x, y, z
<1>10. Silent(b, Rebuilding)
    BY <1>7, <1>8, BothSilent
<1>11. toGui' = toGui \o b
    BY <1>2, <1>6
<1> HIDE DEF b
<1> QED BY <1>5, <1>7, <1>9, <1>10, <1>11 DEF Reported, Reports

LEMMA HandleReports ==
  ASSUME NEW m \in Command, m.type # "POLY_TOGGLE", Sound, Sound', toGui \in Seq(GuiMessage),
         Handle(m)
  PROVE  Reported
<1>u. CASE UNCHANGED <<rings, toGui>>
    BY <1>u, SilenceReports
<1>e. CASE UNCHANGED engineVars
    BY <1>e, SilenceReports DEF engineVars
<1>o. ASSUME NEW msg \in GuiMessage, msg.type \in Closing \cup {"POLY_NAV_LEFT", "POLY_NAV_RIGHT"},
             SendsToGui(<<msg>>), UNCHANGED rings
      PROVE  Reported
  <2>1. msg.type \notin Rebuilding \cup {"POLY_TOGGLE"}
      BY <1>o DEF Closing, Rebuilding, Filling
  <2> QED BY <1>o, <2>1, OneReports
<1>r. ASSUME NEW r \in Ring, SendFullRebuild(r), UNCHANGED hardwareMode
      PROVE  Reported
    BY <1>r, RebuildIsSent, RebuildReports
<1>1. CASE GetInitialSetup
    BY <1>1, SetupIsSent, RebuildReports
<1>2. ASSUME NEW playing \in BOOLEAN, SetPlaying(playing)
      PROVE  Reported
  <2>1. /\ SendsToGui(<<PlayStateMsg(playing)>>) /\ UNCHANGED rings
        /\ PlayStateMsg(playing) \in GuiMessage /\ PlayStateMsg(playing).type \in Closing
      BY <1>2, MessagesSent DEF SetPlaying, Closing
  <2> QED BY <1>o, <2>1
<1>3. CASE m.type \in {"POLY_NAV_LEFT", "POLY_NAV_RIGHT"} /\ Navigate(m.type)
  <2>1. /\ SendsToGui(<<[type |-> m.type]>>) /\ UNCHANGED rings
        /\ [type |-> m.type] \in GuiMessage
        /\ [type |-> m.type].type \in {"POLY_NAV_LEFT", "POLY_NAV_RIGHT"}
      BY <1>3 DEF Navigate, engineState, GuiMessage
  <2> QED BY <1>o, <2>1
<1>4. CASE SetSelectedRing(m.ring)
  <2> DEFINE sel == SelectMsg(selectedRing')
             point == SelectedPointMsg(selectedRing', selectedPoints'[selectedRing'])
             b == <<sel, point>>
  <2>1. selectedRing' \in Nat /\ selectedPoints'[selectedRing'] \in Nat
      BY EngineAssumption DEF Sound, Ring
  <2>2. /\ sel \in GuiMessage /\ sel.type = "POLY_SELECT"
        /\ point \in GuiMessage /\ point.type = "POLY_SELECTED_POINT"
      BY <2>1, MessagesSent
  <2>3. toGui' = toGui \o b /\ UNCHANGED rings
      BY <1>4 DEF SetSelectedRing, SendsToGui
  <2> HIDE DEF sel, point
  <2>4. Len(b) = 2 /\ b[1] = sel /\ b[2] = point /\ \A i \in 1 .. 2 : i = 1 \/ i = 2
      OBVIOUS
  <2>5. b \in Seq(GuiMessage)
      BY <2>2
  <2>6. /\ sel.type \notin Rebuilding \cup {"POLY_TOGGLE"}
        /\ point.type \notin Rebuilding \cup {"POLY_TOGGLE"}
      BY <2>2 DEF Rebuilding, Filling
  <2> HIDE DEF b
  <2>7. Silent(b, Rebuilding \cup {"POLY_TOGGLE"})
      BY <2>4, <2>6 DEF Silent
  <2> QED BY <2>3, <2>5, <2>7, QuietReports
<1>5. CASE m.type = "POLY_HW_MODE" /\ SetHwMode(m.mode)
  <2>1. hardwareMode' \in HardwareMode
      BY DEF Sound
  <2>2. /\ SendsToGui(<<HwModeMsg(hardwareMode')>>) /\ UNCHANGED rings
        /\ HwModeMsg(hardwareMode') \in GuiMessage /\ HwModeMsg(hardwareMode').type \in Closing
      BY <1>5, <2>1, MessagesSent DEF SetHwMode, Closing
  <2> QED BY <1>o, <2>2
<1>6. ASSUME NEW amount, SelectPointDelta(amount)
      PROVE  Reported
  <2>1. CASE PointCount(rings[selectedRing]) = 0
      BY <1>6, <1>u, <2>1 DEF SelectPointDelta
  <2>2. CASE PointCount(rings[selectedRing]) # 0
    <3> DEFINE point == SelectedPointMsg(selectedRing, selectedPoints'[selectedRing])
    <3>1. SendsToGui(<<point>>) /\ UNCHANGED rings /\ selectedRing' = selectedRing
        BY <1>6, <2>2 DEF SelectPointDelta
    <3>2. selectedRing \in Nat /\ selectedPoints'[selectedRing] \in Nat
        BY <3>1, EngineAssumption DEF Sound, Ring
    <3>3. point \in GuiMessage /\ point.type \in Closing
        BY <3>2, MessagesSent DEF Closing
    <3> HIDE DEF point
    <3> QED BY <1>o, <3>1, <3>3
  <2> QED BY <2>1, <2>2
<1>7. ASSUME NEW amount, AdjustPoints(amount) \/ RotateSelected(amount)
      PROVE  Reported
  <2>1. selectedRing \in Ring /\ UNCHANGED hardwareMode
      BY <1>7 DEF Sound, AdjustPoints, RotateSelected
  <2>2. SendFullRebuild(selectedRing) \/ UNCHANGED <<rings, toGui>>
      BY <1>7 DEF AdjustPoints, RotateSelected
  <2> QED BY <1>u, <1>r, <2>1, <2>2
<1>8. CASE m.type = "POLY_ENCODER_DELTA" /\ EncoderDelta(m.amount)
    BY <1>8, <1>e, <1>6, <1>7 DEF EncoderDelta
<1>9. CASE ToggleSelectedPoint
    BY <1>9, ToggleSelectedPointReports
<1>10. CASE m.type = "POLY_ENCODER_CLICK" /\ EncoderClick
    BY <1>10, <1>9, <1>e DEF EncoderClick
<1>13. CASE m.type = "POLY_ADD_SHAPE" /\ ForRing(m.ring, AddShape(m.ring, m.subdivision, m.offset))
    BY <1>13, <1>e, <1>r DEF ForRing, AddShape
<1>14. CASE m.type = "POLY_REMOVE_SHAPE" /\ ForRing(m.ring, RemoveShape(m.ring, m.index))
    BY <1>14, <1>e, <1>r DEF ForRing, RemoveShape
<1>15. CASE /\ m.type = "POLY_MOD_SHAPE"
            /\ ForRing(m.ring, ModShape(m.ring, m.index, m.subdivision, m.offset))
    BY <1>15, <1>e, <1>r DEF ForRing, ModShape
<1>16. CASE m.type = "POLY_ROTATE" /\ ForRing(m.ring, Rotate(m.ring, m.amount))
    BY <1>16, <1>e, <1>r DEF ForRing, Rotate
<1> QED BY <1>1, <1>2, <1>3, <1>4, <1>5, <1>6, <1>7, <1>8, <1>9, <1>10, <1>13,
           <1>14, <1>15, <1>16 DEF Handle

-----------------------------------------------------------------------------
(***************************************************************************)
(* A ring whose timeline and mask are not too long to be sent, and masks   *)
(* that the POLY_TOGGLE messages of a queue make into its own.             *)
(***************************************************************************)
IsSent(ring) == PointCount(ring) <= MaxTimelinePoints /\ PointCount(ring) <= MaxActivePoints

LeadsTo(r, ring, a, q) == Flips(r, PointCount(ring), a, q, ring.active)

(* The masks of the rings rs arrive with a rebuild under way.              *)
MasksTold(rs) ==
  \E c \in Staging, pre, tail \in Seq(GuiMessage) :
    /\ toGui = (pre \o <<ReadyMsg>>) \o tail
    /\ Silent(tail, Rebuilding)
    /\ Arrives(TRUE, c, pre)
    /\ Len(c) = NumRings
    /\ \A r \in Ring : IsSent(rs[r]) => /\ PointCount(c[r + 1]) = PointCount(rs[r])
                                        /\ LeadsTo(r, rs[r], c[r + 1].active, tail)

(* No rebuild is under way, and the masks shown become those of rs.        *)
MasksDrawn(rs) ==
  /\ Silent(toGui, Rebuilding)
  /\ sets # << >>
       => \A r \in Ring : IsSent(rs[r]) => LeadsTo(r, rs[r], Shown(r).active, toGui)

(* The user touched a point while nothing was under way: the GUI is ahead  *)
(* of the engine by that point.                                            *)
Ahead == Rebuilding \cup {"POLY_TOGGLE"}

MasksAsked(rs) ==
  /\ toAudio # << >>
  /\ Head(toAudio).type = "POLY_TOGGLE" /\ Head(toAudio).ring \in Ring
  /\ Silent(Tail(toAudio), {"POLY_TOGGLE"})
  /\ Silent(toGui, Ahead)
  /\ sets # << >>
       => \A r \in Ring : IsSent(rs[r])
                            => Shown(r).active = FlippedBy(r, rs[r].active, Head(toAudio))

MasksUnderWay(rs) == MasksTold(rs) \/ MasksDrawn(rs)

MasksMeeting(rs) == \/ MasksAsked(rs)
                    \/ Silent(toAudio, {"POLY_TOGGLE"}) /\ MasksUnderWay(rs)

MasksFollow(rs) == overtaken \/ MasksMeeting(rs)

MaskInv == ShapesInv /\ MasksFollow(rings)

(* More messages behind a queue.                                           *)
LEMMA LeadsFurther ==
  ASSUME NEW r, NEW old, NEW new, PointCount(new) = PointCount(old), NEW a,
         NEW q \in Seq(GuiMessage), NEW b \in Seq(GuiMessage), LeadsTo(r, old, a, q),
         Flips(r, PointCount(old), old.active, b, new.active)
  PROVE  LeadsTo(r, new, a, q \o b)
BY FlipsOn DEF LeadsTo

LEMMA SayingKeepsMasks ==
  ASSUME toGui \in Seq(GuiMessage), NEW rs, NEW new, MasksUnderWay(rs),
         UNCHANGED <<staged, sets>>,
         NEW b \in Seq(GuiMessage), toGui' = toGui \o b, Silent(b, Rebuilding),
         \A r \in Ring : /\ PointCount(new[r]) = PointCount(rs[r])
                         /\ Flips(r, PointCount(rs[r]), rs[r].active, b, new[r].active)
  PROVE  MasksUnderWay(new)'
<1>1. \A r \in Ring : IsSent(new[r]) => IsSent(rs[r])
    BY DEF IsSent
<1>2. CASE MasksTold(rs)
  <2> DEFINE z == <<ReadyMsg>>
  <2>1. PICK c \in Staging, pre \in Seq(GuiMessage), tail \in Seq(GuiMessage) :
          /\ toGui = (pre \o z) \o tail /\ Silent(tail, Rebuilding) /\ Arrives(TRUE, c, pre)
          /\ Len(c) = NumRings
          /\ \A r \in Ring : IsSent(rs[r]) => /\ PointCount(c[r + 1]) = PointCount(rs[r])
                                              /\ LeadsTo(r, rs[r], c[r + 1].active, tail)
      BY <1>2 DEF MasksTold
  <2>2. z \in Seq(GuiMessage)
      BY MessagesSent
  <2> HIDE DEF z
  <2>3. pre \o z \in Seq(GuiMessage)
      BY <2>1, <2>2
  <2>4. ((pre \o z) \o tail) \o b = (pre \o z) \o (tail \o b) /\ tail \o b \in Seq(GuiMessage)
    <3>1. PICK front \in Seq(GuiMessage) : front = pre \o z
        BY <2>3
    <3>2. (front \o tail) \o b = front \o (tail \o b) /\ tail \o b \in Seq(GuiMessage)
        BY Regrouped
    <3> QED BY <3>1, <3>2
  <2>5. PICK later \in Seq(GuiMessage) : later = tail \o b
      BY <2>4
  <2>6. Silent(later, Rebuilding)
      BY <2>1, <2>5, BothSilent
  <2>7. Arrives(TRUE, c, pre)'
      BY <2>1 DEF Arrives
  <2>8. toGui' = (pre \o z) \o later
      BY <2>1, <2>4, <2>5
  <2>9. ASSUME NEW r \in Ring, IsSent(new[r])
        PROVE  /\ PointCount(c[r + 1]) = PointCount(new[r])
               /\ LeadsTo(r, new[r], c[r + 1].active, later)
    <3>1. /\ PointCount(c[r + 1]) = PointCount(rs[r])
          /\ LeadsTo(r, rs[r], c[r + 1].active, tail)
        BY <1>1, <2>1, <2>9
    <3>2. LeadsTo(r, new[r], c[r + 1].active, tail \o b)
        BY <2>1, <3>1, LeadsFurther
    <3> QED BY <2>5, <3>1, <3>2
  <2>10. MasksTold(new)'
      BY <2>1, <2>6, <2>7, <2>8, <2>9 DEF MasksTold, z
  <2> QED BY <2>10 DEF MasksUnderWay
<1>3. CASE MasksDrawn(rs)
  <2>1. Silent(toGui', Rebuilding)
      BY <1>3, BothSilent DEF MasksDrawn
  <2>2. ASSUME NEW r \in Ring, sets' # << >>, IsSent(new[r])
        PROVE  LeadsTo(r, new[r], Shown(r)'.active, toGui')
    <3>1. LeadsTo(r, rs[r], Shown(r).active, toGui)
        BY <1>1, <1>3, <2>2 DEF MasksDrawn
    <3>2. LeadsTo(r, new[r], Shown(r).active, toGui \o b)
        BY <3>1, LeadsFurther
    <3>3. Shown(r)' = Shown(r)
        BY DEF Shown, SetOf, LocalOf
    <3> QED BY <3>2, <3>3
  <2>3. MasksDrawn(new)'
      BY <2>1, <2>2 DEF MasksDrawn
  <2> QED BY <2>3 DEF MasksUnderWay
<1> QED BY <1>2, <1>3 DEF MasksUnderWay

LEMMA RebuildTellsMasks ==
  ASSUME toGui \in Seq(GuiMessage), Sound', NEW b, toGui' = toGui \o b, Rebuilds(b),
         NEW rs, rs = rings'
  PROVE  MasksTold(rs)'
<1> DEFINE x == <<RebuildMsg>>
           z == <<ReadyMsg>>
           c == Copies(TRUE, rs)
<1>0. rs \in [Ring -> RingType] /\ selectedRing' \in Nat
    BY EngineAssumption DEF Sound, Ring
<1>1. PICK g \in Seq(GuiMessage) : g = toGui
    OBVIOUS
<1>2. PICK part \in Seq(GuiMessage) :
        g \o b = ((g \o x) \o part) \o z /\ Fills(TRUE, << >>, part, Copies(TRUE, rings'))
    BY <1>0, <1>1, RebuildBehind
<1>3. x \in Seq(GuiMessage) /\ z \in Seq(GuiMessage)
    BY MessagesSent
<1>4. /\ c \in Staging /\ Len(c) = NumRings
      /\ \A r \in Ring : c[r + 1] = Copy(TRUE, rs[r])
    BY <1>0, CopiesType
<1> HIDE DEF x, z, c
<1> DEFINE pre == (g \o x) \o part
<1>5. pre \in Seq(GuiMessage)
    BY <1>1, <1>2, <1>3
<1>6. Arrives(TRUE, c, pre)'
    BY <1>1, <1>2 DEF Arrives, x, c
<1>7. toGui' = pre \o z
    BY <1>1, <1>2
<1>8. ASSUME NEW r \in Ring, IsSent(rs[r])
      PROVE  /\ PointCount(c[r + 1]) = PointCount(rs[r])
             /\ LeadsTo(r, rs[r], c[r + 1].active, << >>)
  <2>1. PICK ring : ring = rs[r]
      OBVIOUS
  <2>2. ring.active \in Masks(PointCount(ring))
    <3>1. SoundRing(ring)
        BY <2>1 DEF Sound
    <3> QED BY <3>1, SoundRingMask
  <2>3. Len(ring.active) = PointCount(ring)
      BY <2>2 DEF Masks
  <2>4. Copy(TRUE, ring).timeline = ring.timeline /\ Copy(TRUE, ring).active = ring.active
      BY <1>8, <2>1, <2>3 DEF Copy, IsSent, PointCount
  <2>5. c[r + 1].timeline = ring.timeline /\ c[r + 1].active = ring.active
      BY <1>4, <2>1, <2>4
  <2>6. << >> \in Seq(GuiMessage)
      OBVIOUS
  <2>7. Flips(r, PointCount(ring), ring.active, << >>, ring.active)
      BY <2>2, <2>6, NothingSilent, FlipsSilent
  <2> QED BY <2>1, <2>5, <2>7 DEF LeadsTo, PointCount
<1> HIDE DEF pre
<1>9. << >> \in Seq(GuiMessage) /\ toGui' = (pre \o z) \o << >>
    BY <1>3, <1>5, <1>7
<1> QED BY <1>4, <1>5, <1>6, <1>8, <1>9, NothingSilent DEF MasksTold, z

(* The rings that are shown while no rebuild is under way.                 *)
LEMMA QuietIsDrawn ==
  ASSUME ShapesInv, Silent(toGui, Rebuilding), sets # << >>
  PROVE  \E c : Layout(c)
<1>1. PICK c : c = Copies(FALSE, rings)
    OBVIOUS
<1>2. Told(c) \/ Drawn(c)
    BY <1>1 DEF ShapesInv
<1>3. Silent(toGui, {"POLY_READY"})
    BY DEF Silent, Rebuilding
<1>4. ~ Told(c)
    BY <1>3, ReadyIsHeard DEF Told
<1> QED BY <1>2, <1>4 DEF Drawn

(* The GUI takes any message that is no part of a rebuild.                 *)
LEMMA MessageShown ==
  ASSUME NEW modes, CarouselSound(modes), NEW c, Layout(c), NEW m \in GuiMessage, HandleGui(m),
         m.type \notin Rebuilding, NEW r \in Ring
  PROVE  Shown(r)'.active = FlippedBy(r, Shown(r).active, m)
<1>1. CASE m.type = "POLY_TOGGLE"
    BY <1>1, ToggleMessageShown
<1>2. CASE m.type \in {"POLY_NAV_LEFT", "POLY_NAV_RIGHT"}
  <2>1. NavigateBy(-1) \/ NavigateBy(1)
      BY <1>2 DEF HandleGui, NavigateLeft, NavigateRight
  <2>2. -1 \in Int /\ 1 \in Int
      OBVIOUS
  <2>3. Shown(r)'.active = Shown(r).active
      BY <2>1, <2>2, NavigateShown
  <2> QED BY <1>2, <2>3, OtherMask
<1>3. CASE m.type \notin {"POLY_TOGGLE", "POLY_NAV_LEFT", "POLY_NAV_RIGHT"}
  <2>1. m.type \notin {"POLY_TOGGLE", "POLY_READY", "POLY_NAV_LEFT", "POLY_NAV_RIGHT"}
      BY <1>3 DEF Rebuilding
  <2>2. Shown(r)' = Shown(r)
      BY <2>1, MessageKeepsRings, SameRingsShown
  <2> QED BY <1>3, <2>2, OtherMask
<1> QED BY <1>1, <1>2, <1>3

LEMMA TakingKeepsDrawnMasks ==
  ASSUME ShapesInv, SystemSound', NEW rs, MasksDrawn(rs), GuiHandles
  PROVE  MasksDrawn(rs)'
<1> DEFINE m == Head(toGui)
<1>0. /\ toGui \in Seq(GuiMessage) /\ toGui # << >> /\ m \in GuiMessage /\ HandleGui(m)
      /\ toGui' = Tail(toGui) /\ CarouselSound(HardwareMode) /\ CarouselSound(HardwareMode)'
    BY DEF ShapesInv, SystemSound, GuiHandles
<1>1. 1 \in 1 .. Len(toGui) /\ m = toGui[1]
    BY <1>0
<1>2. m.type \notin Rebuilding
    BY <1>1 DEF MasksDrawn, Silent
<1>3. Silent(toGui', Rebuilding)
    BY <1>0, StaysSilent DEF MasksDrawn
<1>4. sets = << >> => sets' = << >>
    BY <1>0, <1>2, MessageUndisturbed DEF Undisturbed
<1>5. ASSUME NEW r \in Ring, sets' # << >>, IsSent(rs[r])
      PROVE  LeadsTo(r, rs[r], Shown(r)'.active, toGui')
  <2>1. PICK c : Layout(c)
      BY <1>4, <1>5, QuietIsDrawn DEF MasksDrawn
  <2>2. PICK a : a = Shown(r).active
      OBVIOUS
  <2>3. Flips(r, PointCount(rs[r]), a, toGui, rs[r].active)
      BY <1>4, <1>5, <2>2 DEF MasksDrawn, LeadsTo
  <2>4. Shown(r)'.active = FlippedBy(r, a, m)
      BY <1>0, <1>2, <2>1, <2>2, MessageShown
  <2>5. Flips(r, PointCount(rs[r]), FlippedBy(r, a, m), Tail(toGui), rs[r].active)
      BY <1>0, <2>3, FlipsHead
  <2> QED BY <1>0, <2>4, <2>5 DEF LeadsTo
<1> QED BY <1>3, <1>5 DEF MasksDrawn

LEMMA TakingKeepsToldMasks ==
  ASSUME ShapesInv, SystemSound', NEW rs, MasksTold(rs), GuiHandles
  PROVE  MasksUnderWay(rs)'
<1> DEFINE m == Head(toGui)
           z == <<ReadyMsg>>
<1>0. /\ toGui \in Seq(GuiMessage) /\ toGui # << >> /\ m \in GuiMessage /\ HandleGui(m)
      /\ toGui' = Tail(toGui) /\ CarouselSound(HardwareMode) /\ CarouselSound(HardwareMode)'
    BY DEF ShapesInv, SystemSound, GuiHandles
<1>1. PICK c \in Staging, pre \in Seq(GuiMessage), tail \in Seq(GuiMessage) :
        /\ toGui = (pre \o z) \o tail /\ Silent(tail, Rebuilding) /\ Arrives(TRUE, c, pre)
        /\ Len(c) = NumRings
        /\ \A r \in Ring : IsSent(rs[r]) => /\ PointCount(c[r + 1]) = PointCount(rs[r])
                                            /\ LeadsTo(r, rs[r], c[r + 1].active, tail)
    BY DEF MasksTold
<1>2. CASE pre = << >>
  <2>1. m = ReadyMsg /\ toGui' = tail
      BY <1>0, <1>1, <1>2, HeadOfRebuild
  <2>2. OnReady
      BY <1>0, <2>1, MessagesSent DEF HandleGui
  <2>3. staged = c
    <3>1. Seen(TRUE, staged) = c
        BY <1>1, <1>2, AllArrived
    <3>2. staged \in Seq(RingType)
        BY <1>0 DEF CarouselSound
    <3> QED BY <3>1, <3>2, SeenWhole
  <2>4. PICK d : d = Seen(FALSE, staged)
      OBVIOUS
  <2>5. Len(d) = NumRings
    <3>1. staged \in Seq(RingType)
        BY <1>0 DEF CarouselSound
    <3> QED BY <1>1, <2>3, <2>4, <3>1, SeenParts
  <2>6. ASSUME NEW r \in Ring, IsSent(rs[r])
        PROVE  LeadsTo(r, rs[r], Shown(r)'.active, toGui')
    <3>1. PICK ring : ring = c[r + 1]
        OBVIOUS
    <3>2. Shown(r)' = ShownRing(ring)
        BY <1>0, <2>2, <2>3, <2>4, <2>5, <3>1, ReadyShown
    <3>3. PointCount(ring) = PointCount(rs[r]) /\ LeadsTo(r, rs[r], ring.active, tail)
        BY <1>1, <2>6, <3>1
    <3>4. ring.active \in Masks(PointCount(rs[r]))
        BY <3>3, FlipsType DEF LeadsTo
    <3>5. ring \in RingType
      <4>1. r + 1 \in 1 .. NumRings
          BY EngineAssumption DEF Ring
      <4> QED BY <1>1, <3>1, <4>1 DEF Staging
    <3>6. ShownRing(ring).active = ring.active
        BY <3>3, <3>4, <3>5, FittingMask DEF Masks
    <3> QED BY <2>1, <3>2, <3>3, <3>6
  <2>7. MasksDrawn(rs)'
      BY <1>1, <2>1, <2>6 DEF MasksDrawn
  <2> QED BY <2>7 DEF MasksUnderWay
<1>3. CASE pre # << >>
  <2>1. m = Head(pre) /\ toGui' = (Tail(pre) \o z) \o tail
      BY <1>0, <1>1, <1>3, HeadOfRebuild
  <2>2. Arrives(TRUE, c, Tail(pre))'
      BY <1>0, <1>1, <1>3, <2>1, TakingArrives
  <2>3. Tail(pre) \in Seq(GuiMessage)
      BY <1>3
  <2>4. MasksTold(rs)'
      BY <1>1, <2>1, <2>2, <2>3 DEF MasksTold
  <2> QED BY <2>4 DEF MasksUnderWay
<1> QED BY <1>2, <1>3

(***************************************************************************)
(* While the engine has yet to hear of a touch, nothing else changes the   *)
(* masks.                                                                  *)
(***************************************************************************)
SendsNoToggle == \/ UNCHANGED toAudio
                 \/ \E m : m.type # "POLY_TOGGLE" /\ SendsToAudio(m)

LEMMA OneMore ==
  ASSUME NEW S, NEW q \in Seq(S), NEW m, NEW types, m.type \notin types
  PROVE  /\ Silent(q, types) => Silent(Append(q, m), types)
         /\ q # << >> => Head(Append(q, m)) = Head(q) /\ Tail(Append(q, m)) = Append(Tail(q), m)
<1> DEFINE T == S \cup {m}
<1>1. m \in T /\ q \in Seq(T) /\ <<m>> \in Seq(T)
  <2>1. S \subseteq T
      OBVIOUS
  <2> HIDE DEF T
  <2>2. q \in Seq(T)
      BY <2>1
  <2> QED BY <2>2 DEF T
<1> HIDE DEF T
<1>2. PICK z \in Seq(T) : z = <<m>>
    BY <1>1
<1>3. Append(q, m) = q \o z
    BY <1>1, <1>2
<1>4. Silent(z, types)
    BY <1>2, OneSilent
<1>5. Silent(q, types) => Silent(q \o z, types)
    BY <1>1, <1>4, BothSilent
<1>6. q # << >> => Head(q \o z) = Head(q) /\ Tail(q \o z) = Tail(q) \o z
    BY <1>1, TailInFront
<1>7. q # << >> => Append(Tail(q), m) = Tail(q) \o z
  <2>1. q # << >> => Tail(q) \in Seq(T)
      BY <1>1
  <2> QED BY <1>1, <1>2, <2>1
<1> QED BY <1>3, <1>5, <1>6, <1>7

LEMMA NoMoreToggles ==
  ASSUME toAudio \in Seq(Command), SendsNoToggle
  PROVE  /\ Silent(toAudio, {"POLY_TOGGLE"}) => Silent(toAudio', {"POLY_TOGGLE"})
         /\ toAudio # << >> => toAudio' # << >> /\ Head(toAudio') = Head(toAudio)
         /\ toAudio # << >> /\ Silent(Tail(toAudio), {"POLY_TOGGLE"})
              => Silent(Tail(toAudio'), {"POLY_TOGGLE"})
<1>1. CASE UNCHANGED toAudio
    BY <1>1
<1>2. ASSUME NEW m, m.type # "POLY_TOGGLE", SendsToAudio(m)
      PROVE  /\ Silent(toAudio, {"POLY_TOGGLE"}) => Silent(toAudio', {"POLY_TOGGLE"})
             /\ toAudio # << >> => toAudio' # << >> /\ Head(toAudio') = Head(toAudio)
             /\ toAudio # << >> /\ Silent(Tail(toAudio), {"POLY_TOGGLE"})
                  => Silent(Tail(toAudio'), {"POLY_TOGGLE"})
  <2>1. PICK q \in Seq(Command) : q = toAudio
      OBVIOUS
  <2>2. toAudio' = Append(q, m)
      BY <1>2, <2>1 DEF SendsToAudio
  <2>3. /\ Silent(q, {"POLY_TOGGLE"}) => Silent(Append(q, m), {"POLY_TOGGLE"})
        /\ q # << >> => Head(Append(q, m)) = Head(q) /\ Tail(Append(q, m)) = Append(Tail(q), m)
      BY <1>2, OneMore
  <2>4. q # << >> => Tail(q) \in Seq(Command)
      OBVIOUS
  <2>5. q # << >> /\ Silent(Tail(q), {"POLY_TOGGLE"})
          => Silent(Append(Tail(q), m), {"POLY_TOGGLE"})
      BY <1>2, <2>4, OneMore
  <2>6. Append(q, m) # << >>
      OBVIOUS
  <2> QED BY <2>1, <2>2, <2>3, <2>5, <2>6
<1> QED BY <1>1, <1>2 DEF SendsNoToggle

LEMMA GuiSendsNoToggle ==
  ASSUME NEW modes, CarouselSound(modes), NEW m, HandleGui(m)
  PROVE  SendsNoToggle
<1>1. CASE m.type \in {"POLY_NAV_LEFT", "POLY_NAV_RIGHT"}
  <2>1. NavigateBy(-1) \/ NavigateBy(1)
      BY <1>1 DEF HandleGui, NavigateLeft, NavigateRight
  <2>2. UNCHANGED toAudio \/ AsksToSelect
      BY <2>1, NavigateChooses
  <2>3. ASSUME NEW q, SendsToAudio([type |-> "POLY_SET_SELECTED_RING", ring |-> q])
        PROVE  SendsNoToggle
    <3>1. [type |-> "POLY_SET_SELECTED_RING", ring |-> q].type # "POLY_TOGGLE"
        OBVIOUS
    <3> QED BY <2>3, <3>1 DEF SendsNoToggle
  <2> QED BY <2>2, <2>3 DEF AsksToSelect, SendsNoToggle
<1>2. CASE m.type \notin {"POLY_NAV_LEFT", "POLY_NAV_RIGHT"}
  <2>1. UNCHANGED toAudio
      BY <1>2 DEF HandleGui, OnPlayState, OnPlayhead, OnRebuild, OnRing, OnRingShape,
         OnRingTimeline, OnRingActive, OnToggle, OnSelectedPoint, OnHwMode, OnSelect, OnReady,
         Stages, guiVars
  <2> QED BY <2>1 DEF SendsNoToggle
<1> QED BY <1>1, <1>2

LEMMA AskedKeeps ==
  ASSUME toAudio \in Seq(Command), NEW rs, MasksAsked(rs), SendsNoToggle, Silent(toGui', Ahead),
         sets' # << >> => sets # << >> /\ \A r \in Ring : Shown(r)'.active = Shown(r).active
  PROVE  MasksAsked(rs)'
<1>1. /\ toAudio' # << >> /\ Head(toAudio') = Head(toAudio)
      /\ Silent(Tail(toAudio'), {"POLY_TOGGLE"})
    BY NoMoreToggles DEF MasksAsked
<1> QED BY <1>1 DEF MasksAsked

LEMMA TakingKeepsAsked ==
  ASSUME ShapesInv, SystemSound', NEW rs, MasksAsked(rs), GuiHandles
  PROVE  MasksAsked(rs)'
<1> DEFINE m == Head(toGui)
<1>0. /\ toGui \in Seq(GuiMessage) /\ toGui # << >> /\ m \in GuiMessage /\ HandleGui(m)
      /\ toGui' = Tail(toGui) /\ CarouselSound(HardwareMode) /\ CarouselSound(HardwareMode)'
      /\ toAudio \in Seq(Command)
    BY DEF ShapesInv, SystemSound, GuiHandles
<1>1. 1 \in 1 .. Len(toGui) /\ m = toGui[1]
    BY <1>0
<1>2. m.type \notin Ahead
    BY <1>1 DEF MasksAsked, Silent
<1>3. m.type \notin Rebuilding /\ m.type # "POLY_TOGGLE"
    BY <1>2 DEF Ahead
<1>4. Silent(toGui', Ahead)
    BY <1>0, StaysSilent DEF MasksAsked
<1>5. sets = << >> => sets' = << >>
    BY <1>0, <1>3, MessageUndisturbed DEF Undisturbed
<1>6. ASSUME NEW r \in Ring, sets # << >>
      PROVE  Shown(r)'.active = Shown(r).active
  <2>1. Silent(toGui, Rebuilding)
      BY DEF MasksAsked, Silent, Ahead
  <2>2. PICK c : Layout(c)
      BY <1>6, <2>1, QuietIsDrawn
  <2>3. Shown(r)'.active = FlippedBy(r, Shown(r).active, m)
      BY <1>0, <1>3, <2>2, MessageShown
  <2> QED BY <1>3, <2>3, OtherMask
<1>7. SendsNoToggle
    BY <1>0, GuiSendsNoToggle
<1> QED BY <1>0, <1>4, <1>5, <1>6, <1>7, AskedKeeps

LEMMA TakingKeepsMasks ==
  ASSUME ShapesInv, SystemSound', NEW rs, MasksMeeting(rs), GuiHandles
  PROVE  MasksMeeting(rs)'
<1>1. CASE MasksAsked(rs)
    BY <1>1, TakingKeepsAsked DEF MasksMeeting
<1>2. CASE Silent(toAudio, {"POLY_TOGGLE"}) /\ MasksUnderWay(rs)
  <2>1. MasksUnderWay(rs)'
      BY <1>2, TakingKeepsDrawnMasks, TakingKeepsToldMasks DEF MasksUnderWay
  <2>2. SendsNoToggle
      BY GuiSendsNoToggle DEF GuiHandles, ShapesInv, SystemSound
  <2>3. Silent(toAudio', {"POLY_TOGGLE"})
      BY <1>2, <2>2, NoMoreToggles DEF ShapesInv, SystemSound
  <2> QED BY <2>1, <2>3 DEF MasksMeeting
<1> QED BY <1>1, <1>2 DEF MasksMeeting

(* Nothing is said to the GUI, and what it shows stays.                    *)
LEMMA ShowingKeepsMasks ==
  ASSUME toAudio \in Seq(Command), NEW rs, MasksMeeting(rs), SendsNoToggle, UNCHANGED toGui,
         MasksTold(rs) => UNCHANGED staged,
         Silent(toGui, Rebuilding) /\ sets' # << >>
           => sets # << >> /\ \A r \in Ring : Shown(r)'.active = Shown(r).active
  PROVE  MasksMeeting(rs)'
<1>1. CASE MasksAsked(rs)
  <2>1. Silent(toGui, Rebuilding) /\ Silent(toGui', Ahead)
      BY <1>1 DEF MasksAsked, Ahead, Silent
  <2>2. MasksAsked(rs)'
      BY <1>1, <2>1, AskedKeeps
  <2> QED BY <2>2 DEF MasksMeeting
<1>2. CASE Silent(toAudio, {"POLY_TOGGLE"}) /\ MasksUnderWay(rs)
  <2>1. Silent(toAudio', {"POLY_TOGGLE"})
      BY <1>2, NoMoreToggles
  <2>2. CASE MasksTold(rs)
    <3>1. MasksTold(rs)'
        BY <2>2 DEF MasksTold, Arrives
    <3> QED BY <2>1, <3>1 DEF MasksMeeting, MasksUnderWay
  <2>3. CASE MasksDrawn(rs)
    <3>1. MasksDrawn(rs)'
        BY <2>3 DEF MasksDrawn, LeadsTo
    <3> QED BY <2>1, <3>1 DEF MasksMeeting, MasksUnderWay
  <2> QED BY <1>2, <2>2, <2>3 DEF MasksUnderWay
<1> QED BY <1>1, <1>2 DEF MasksMeeting

LEMMA SameRingsKeepMasks ==
  ASSUME ShapesInv, SystemSound', NEW rs, MasksMeeting(rs), SendsNoToggle,
         UNCHANGED <<toGui, staged>>, SameRings
  PROVE  MasksMeeting(rs)'
<1>1. /\ toAudio \in Seq(Command) /\ CarouselSound(HardwareMode)
      /\ CarouselSound(HardwareMode)'
    BY DEF ShapesInv, SystemSound
<1>2. ASSUME Silent(toGui, Rebuilding), sets' # << >>
      PROVE  sets # << >> /\ \A r \in Ring : Shown(r)'.active = Shown(r).active
  <2>1. sets # << >>
    <3>1. sets \in Seq(ShownSet(HardwareMode)) /\ sets' \in Seq(ShownSet(HardwareMode))
        BY <1>1 DEF CarouselSound
    <3> QED BY <1>2, <3>1 DEF SameRings
  <2>2. PICK c : Layout(c)
      BY <1>2, <2>1, QuietIsDrawn
  <2> QED BY <1>1, <2>1, <2>2, SameRingsShown
<1> QED BY <1>1, <1>2, ShowingKeepsMasks

(***************************************************************************)
(* The engine handles a message.  A POLY_TOGGLE at the head of the queue   *)
(* is the one the GUI has shown already.                                   *)
(***************************************************************************)
LEMMA AskedIsHandled ==
  ASSUME SystemSound, SystemSound', NEW rs, rs = rings, MasksAsked(rs), EngineHandles,
         NEW new, new = rings'
  PROVE  MasksMeeting(new)'
<1> DEFINE m == Head(toAudio)
           q == m.ring
           p == m.point
           point == SelectedPointMsg(q, selectedPoints'[q])
<1>1. /\ Sound /\ Sound' /\ toGui \in Seq(GuiMessage) /\ toAudio \in Seq(Command)
      /\ toAudio # << >> /\ m.type = "POLY_TOGGLE" /\ q \in Ring
      /\ UNCHANGED guiState /\ Handle(m) /\ toAudio' = Tail(toAudio)
    BY DEF SystemSound, MasksAsked, EngineHandles
<1>2. Toggle(q, p)
  <2>1. ForRing(q, Toggle(q, p))
      BY <1>1 DEF Handle
  <2> QED BY <1>1, <2>1 DEF ForRing
<1>3. point \in GuiMessage /\ point.type = "POLY_SELECTED_POINT"
  <2>1. q \in Nat /\ selectedPoints'[q] \in Nat
      BY <1>1, EngineAssumption DEF Sound, Ring
  <2> QED BY <2>1, MessagesSent
<1>4. toGui' = toGui \o <<point>> /\ rings' = [rings EXCEPT ![q] = PointToggled(@, p)]
    BY <1>2 DEF Toggle, SendsToGui
<1> HIDE DEF point
<1>5. PICK b \in Seq(GuiMessage) : b = <<point>>
  <2>1. <<point>> \in Seq(GuiMessage)
      BY <1>3
  <2> QED BY <2>1
<1>6. Silent(b, Ahead)
    BY <1>3, <1>5, OneSilent DEF Ahead, Rebuilding, Filling
<1>7. Silent(toGui', Ahead) /\ toGui' \in Seq(GuiMessage)
  <2>1. toGui' = toGui \o b
      BY <1>4, <1>5
  <2>2. Silent(toGui, Ahead)
      BY DEF MasksAsked
  <2>3. Silent(toGui \o b, Ahead) /\ toGui \o b \in Seq(GuiMessage)
      BY <1>1, <1>6, <2>2, BothSilent
  <2> QED BY <2>1, <2>3
<1>8. Silent(toGui', Rebuilding) /\ Silent(toGui', {"POLY_TOGGLE"})
    BY <1>7 DEF Silent, Ahead
<1>9. Silent(toAudio', {"POLY_TOGGLE"})
    BY <1>1 DEF MasksAsked
<1>10. ASSUME NEW r \in Ring, sets' # << >>, IsSent(new[r])
       PROVE  LeadsTo(r, new[r], Shown(r)'.active, toGui')
  <2>1. /\ rings'[r].active = FlippedBy(r, rings[r].active, m)
        /\ PointCount(rings'[r]) = PointCount(rings[r])
    <3> HIDE DEF m
    <3> QED BY <1>1, <1>4, EngineToggled
  <2>2. IsSent(rs[r]) /\ sets # << >>
      BY <1>1, <1>10, <2>1 DEF IsSent, guiState
  <2>3. Shown(r)' = Shown(r)
      BY <1>1 DEF guiState, Shown, SetOf, LocalOf
  <2>4. Shown(r).active = FlippedBy(r, rs[r].active, m)
      BY <2>2 DEF MasksAsked
  <2>5. Shown(r)'.active = new[r].active
      BY <2>1, <2>3, <2>4
  <2>6. new[r].active \in Masks(PointCount(new[r]))
    <3>1. PICK ring : ring = rings'[r]
        OBVIOUS
    <3>2. SoundRing(ring)
        BY <1>1, <3>1 DEF Sound
    <3> QED BY <3>1, <3>2, SoundRingMask
  <2>7. PICK g \in Seq(GuiMessage) : g = toGui'
      BY <1>7
  <2>8. Flips(r, PointCount(new[r]), new[r].active, g, new[r].active)
      BY <1>8, <2>6, <2>7, FlipsSilent
  <2> QED BY <2>5, <2>7, <2>8 DEF LeadsTo
<1>11. MasksDrawn(new)'
    BY <1>8, <1>10 DEF MasksDrawn
<1> QED BY <1>9, <1>11 DEF MasksMeeting, MasksUnderWay

LEMMA HandlingKeepsMasks ==
  ASSUME SystemSound, SystemSound', NEW rs, rs = rings, MasksMeeting(rs), EngineHandles,
         NEW new, new = rings'
  PROVE  MasksMeeting(new)'
<1> DEFINE m == Head(toAudio)
<1>1. /\ Sound /\ Sound' /\ toGui \in Seq(GuiMessage) /\ toAudio \in Seq(Command)
      /\ toAudio # << >> /\ m \in Command
      /\ UNCHANGED <<staged, sets>> /\ Handle(m) /\ toAudio' = Tail(toAudio)
    BY DEF SystemSound, EngineHandles, guiState
<1>2. CASE MasksAsked(rs)
    BY <1>2, AskedIsHandled
<1>3. CASE Silent(toAudio, {"POLY_TOGGLE"}) /\ MasksUnderWay(rs)
  <2>1. Silent(toAudio', {"POLY_TOGGLE"})
      BY <1>1, <1>3, StaysSilent
  <2>2. m.type # "POLY_TOGGLE"
    <3>1. 1 \in 1 .. Len(toAudio) /\ m = toAudio[1]
        BY <1>1
    <3> QED BY <1>3, <3>1 DEF Silent
  <2>3. PICK b \in Seq(GuiMessage) : toGui' = toGui \o b /\ Reports(b)
    <3> HIDE DEF m
    <3> QED BY <1>1, <2>2, HandleReports DEF Reported
  <2>4. CASE Rebuilds(b)
    <3>1. MasksTold(new)'
        BY <1>1, <2>3, <2>4, RebuildTellsMasks
    <3> QED BY <2>1, <3>1 DEF MasksMeeting, MasksUnderWay
  <2>5. CASE /\ Silent(b, Rebuilding) /\ SameOutlines
             /\ \A r \in Ring : Flips(r, PointCount(rings[r]), rings[r].active, b, rings'[r].active)
    <3>1. \A r \in Ring : /\ PointCount(new[r]) = PointCount(rs[r])
                         /\ Flips(r, PointCount(rs[r]), rs[r].active, b, new[r].active)
        BY <2>5 DEF SameOutlines, PointCount
    <3>2. MasksUnderWay(new)'
        BY <1>1, <1>3, <2>3, <2>5, <3>1, SayingKeepsMasks
    <3> QED BY <2>1, <3>2 DEF MasksMeeting
  <2> QED BY <2>3, <2>4, <2>5 DEF Reports
<1> QED BY <1>2, <1>3 DEF MasksMeeting

LEMMA PlayingKeepsMasks ==
  ASSUME SystemSound, NEW rs, rs = rings, MasksMeeting(rs), EnginePlays
  PROVE  MasksMeeting(rs)'
<1> DEFINE head == [type |-> "POLY_PLAYHEAD"]
<1>1. head \in GuiMessage /\ head.type = "POLY_PLAYHEAD"
    BY DEF GuiMessage
<1>2. /\ UNCHANGED <<staged, sets, toAudio>> /\ toAudio \in Seq(Command)
      /\ Sound /\ toGui \in Seq(GuiMessage)
    BY DEF EnginePlays, guiVars, SystemSound
<1>3. toGui' = toGui \o <<head>>
    BY PlayheadSent
<1> HIDE DEF head
<1>4. PICK b \in Seq(GuiMessage) : b = <<head>>
  <2>1. <<head>> \in Seq(GuiMessage)
      BY <1>1
  <2> QED BY <2>1
<1>5. Silent(b, Ahead)
    BY <1>1, <1>4, OneSilent DEF Ahead, Rebuilding, Filling
<1>6. Silent(b, Rebuilding) /\ Silent(b, {"POLY_TOGGLE"})
    BY <1>5 DEF Silent, Ahead
<1>7. CASE MasksAsked(rs)
  <2>1. Silent(toGui', Ahead)
      BY <1>2, <1>3, <1>4, <1>5, <1>7, BothSilent DEF MasksAsked
  <2>2. \A r \in Ring : Shown(r)' = Shown(r)
      BY <1>2 DEF Shown, SetOf, LocalOf
  <2>3. MasksAsked(rs)'
      BY <1>2, <1>7, <2>1, <2>2, AskedKeeps DEF SendsNoToggle
  <2> QED BY <2>3 DEF MasksMeeting
<1>8. CASE Silent(toAudio, {"POLY_TOGGLE"}) /\ MasksUnderWay(rs)
  <2>1. \A r \in Ring : Flips(r, PointCount(rs[r]), rs[r].active, b, rs[r].active)
      BY <1>2, <1>6, SoundMask, FlipsSilent
  <2>2. MasksUnderWay(rs)'
      BY <1>2, <1>3, <1>4, <1>6, <1>8, <2>1, SayingKeepsMasks
  <2> QED BY <1>2, <1>8, <2>2 DEF MasksMeeting
<1> QED BY <1>7, <1>8 DEF MasksMeeting

(***************************************************************************)
(* The user acts.  A POLY_READY under way is under way, so a touch of a    *)
(* point or a navigation that overtakes nothing finds the masks drawn.     *)
(***************************************************************************)
LEMMA ToldIsUnderWay ==
  ASSUME NEW rs, MasksTold(rs)
  PROVE  toGui # << >>
BY NothingSilent, ReadyIsHeard DEF MasksTold

LEMMA QuietMasks ==
  ASSUME NEW rs, MasksMeeting(rs), ~ UnderWay
  PROVE  MasksDrawn(rs)
BY ToldIsUnderWay DEF MasksMeeting, MasksAsked, MasksUnderWay, UnderWay

LEMMA TouchingDotAsks ==
  ASSUME ShapesInv, NEW rs, MasksMeeting(rs), ~ UnderWay, sets # << >>, Touch("dot"),
         UNCHANGED toGui
  PROVE  MasksMeeting(rs)'
<1>1. toGui = << >> /\ toAudio = << >> /\ CarouselSound(HardwareMode) /\ MasksDrawn(rs)
    BY QuietMasks DEF UnderWay, ShapesInv, SystemSound
<1>2. Silent(toGui, Rebuilding) /\ Silent(toGui', Ahead)
    BY <1>1, NothingSilent
<1>3. PICK c : Layout(c)
    BY <1>2, QuietIsDrawn
<1>4. PICK i \in 0 .. RingsPerSet - 1, p \in 0 .. 1 : TouchDot(i, p)
    BY DEF Touch
<1>5. PICK m \in Command :
        /\ m.type = "POLY_TOGGLE" /\ m.ring \in Ring /\ SendsToAudio(m)
        /\ \A r \in Ring : Shown(r)'.active = FlippedBy(r, Shown(r).active, m)
    BY <1>1, <1>3, <1>4, TouchDotShown
<1>6. toAudio' # << >> /\ Head(toAudio') = m /\ Tail(toAudio') = << >>
    BY <1>1, <1>5 DEF SendsToAudio
<1>7. ASSUME NEW r \in Ring, IsSent(rs[r])
      PROVE  Shown(r)'.active = FlippedBy(r, rs[r].active, m)
  <2>1. Flips(r, PointCount(rs[r]), Shown(r).active, << >>, rs[r].active)
      BY <1>1, <1>7 DEF MasksDrawn, LeadsTo
  <2>2. Shown(r).active = rs[r].active
      BY <2>1, FlippedNowhere
  <2> QED BY <1>5, <2>2
<1>8. MasksAsked(rs)'
    BY <1>2, <1>5, <1>6, <1>7, NothingSilent DEF MasksAsked
<1> QED BY <1>8 DEF MasksMeeting

LEMMA NavigatingKeepsMasks ==
  ASSUME ShapesInv, SystemSound', NEW rs, MasksMeeting(rs), ~ UnderWay,
         NavigateLeft \/ NavigateRight, UNCHANGED toGui
  PROVE  MasksMeeting(rs)'
<1>1. /\ toGui = << >> /\ toAudio \in Seq(Command)
      /\ CarouselSound(HardwareMode) /\ CarouselSound(HardwareMode)'
    BY DEF UnderWay, ShapesInv, SystemSound
<1>2. PICK n \in Int : NavigateBy(n)
  <2>1. -1 \in Int /\ 1 \in Int
      OBVIOUS
  <2> QED BY <2>1 DEF NavigateLeft, NavigateRight
<1>3. SendsNoToggle
  <2>1. UNCHANGED toAudio \/ AsksToSelect
      BY <1>1, <1>2, NavigateChooses
  <2>2. ASSUME NEW q, SendsToAudio([type |-> "POLY_SET_SELECTED_RING", ring |-> q])
        PROVE  SendsNoToggle
    <3>1. [type |-> "POLY_SET_SELECTED_RING", ring |-> q].type # "POLY_TOGGLE"
        OBVIOUS
    <3> QED BY <2>2, <3>1 DEF SendsNoToggle
  <2> QED BY <2>1, <2>2 DEF AsksToSelect, SendsNoToggle
<1>4. sets = << >> => sets' = << >>
    BY <1>1, <1>2, NavigateDrawn DEF Undisturbed
<1>5. ASSUME Silent(toGui, Rebuilding), sets' # << >>
      PROVE  sets # << >> /\ \A r \in Ring : Shown(r)'.active = Shown(r).active
  <2>1. PICK c : Layout(c)
      BY <1>4, <1>5, QuietIsDrawn
  <2> QED BY <1>1, <1>2, <1>4, <1>5, <2>1, NavigateShown
<1>6. ~ MasksTold(rs)
    BY <1>1, ToldIsUnderWay
<1> QED BY <1>1, <1>3, <1>5, <1>6, ShowingKeepsMasks

LEMMA ActingKeepsMasks ==
  ASSUME ShapesInv, SystemSound', NEW rs, MasksMeeting(rs), NEW kind, UserActs(kind)
  PROVE  overtaken' \/ MasksMeeting(rs)'
<1>1. CarouselSound(HardwareMode) /\ UNCHANGED toGui
    BY DEF ShapesInv, SystemSound, UserActs, engineVars
<1>2. ASSUME SameDrawn, SameRings, \E m : m.type # "POLY_TOGGLE" /\ SendsToAudio(m)
      PROVE  MasksMeeting(rs)'
  <2>1. UNCHANGED <<toGui, staged>>
      BY <1>1, <1>2 DEF SameDrawn
  <2> QED BY <1>2, <2>1, SameRingsKeepMasks DEF SendsNoToggle
<1>3. CASE sets # << >> /\ Touch(kind) /\ kind # "dot"
    BY <1>1, <1>2, <1>3, TouchDrawn, TouchKeepsRings
<1>4. CASE KeyPlay
    BY <1>1, <1>2, <1>4, KeyPlayDrawn, KeyPlayKeepsRings
<1>5. CASE sets # << >> /\ Touch(kind) /\ kind = "dot"
  <2>1. ~ UnderWay => MasksMeeting(rs)'
      BY <1>1, <1>5, TouchingDotAsks
  <2>2. UnderWay => overtaken'
      BY <1>5 DEF UserActs
  <2> QED BY <2>1, <2>2
<1>6. CASE kind \in {"left", "right"} /\ (NavigateLeft \/ NavigateRight)
  <2>1. ~ UnderWay => MasksMeeting(rs)'
      BY <1>1, <1>6, NavigatingKeepsMasks
  <2>2. UnderWay => overtaken'
      BY <1>6 DEF UserActs
  <2> QED BY <2>1, <2>2
<1> QED BY <1>3, <1>4, <1>5, <1>6 DEF UserActs, Key

LEMMA MaskStep == MaskInv /\ [SystemNext]_systemVars => MaskInv'
<1> SUFFICES ASSUME MaskInv, [SystemNext]_systemVars
             PROVE  MasksFollow(rings)'
    BY ShapesStep DEF MaskInv
<1>0. ShapesInv /\ SystemSound /\ SystemSound'
    BY SystemStepSound DEF MaskInv, ShapesInv
<1>1. PICK rs : rs = rings
    OBVIOUS
<1>2. PICK new : new = rings'
    OBVIOUS
<1>3. overtaken \/ MasksMeeting(rs)
    BY <1>1 DEF MaskInv, MasksFollow
<1>4. SUFFICES overtaken' \/ MasksMeeting(new)'
    BY <1>2 DEF MasksFollow
<1>5. overtaken => overtaken'
    BY DEF SystemNext, GuiStarts, GuiHandles, EngineHandles, EnginePlays, UserActs,
       HardwareSends, AnimationPasses, systemVars
<1> SUFFICES ASSUME MasksMeeting(rs) PROVE overtaken' \/ MasksMeeting(new)'
    BY <1>3, <1>5
<1>6. UNCHANGED rings => new = rs
    BY <1>1, <1>2
<1>7. ASSUME UNCHANGED <<rings, toGui, staged, sets>>, SendsNoToggle
      PROVE  MasksMeeting(new)'
    BY <1>0, <1>6, <1>7, SetsKeepRings, SameRingsKeepMasks
<1>8. CASE GuiStarts
  <2>1. [type |-> "GET_INITIAL_SETUP"].type # "POLY_TOGGLE"
      OBVIOUS
  <2>2. SendsNoToggle
      BY <1>8, <2>1 DEF GuiStarts, SendsNoToggle
  <2> QED BY <1>7, <1>8, <2>2 DEF GuiStarts, engineVars, guiState
<1>9. CASE GuiHandles
    BY <1>0, <1>6, <1>9, TakingKeepsMasks DEF GuiHandles, engineState
<1>10. CASE EngineHandles
    BY <1>0, <1>1, <1>2, <1>10, HandlingKeepsMasks
<1>11. CASE EnginePlays
    BY <1>0, <1>1, <1>6, <1>11, PlayingKeepsMasks DEF EnginePlays, engineState
<1>12. ASSUME NEW kind \in Touches, UserActs(kind)
       PROVE  overtaken' \/ MasksMeeting(new)'
    BY <1>0, <1>6, <1>12, ActingKeepsMasks DEF UserActs, engineVars
<1>13. ASSUME NEW m \in Commands, HardwareSends(m)
       PROVE  overtaken' \/ MasksMeeting(new)'
  <2>1. m.type = "POLY_TOGGLE" => overtaken'
      BY <1>13 DEF HardwareSends
  <2>2. m.type # "POLY_TOGGLE" => SendsNoToggle
      BY <1>13 DEF HardwareSends, SendsNoToggle
  <2> QED BY <1>7, <1>13, <2>1, <2>2 DEF HardwareSends, engineVars, guiState
<1>14. CASE AnimationPasses
    BY <1>7, <1>14 DEF AnimationPasses, AnimationEnds, engineVars, SendsNoToggle
<1>15. CASE UNCHANGED systemVars
    BY <1>7, <1>15 DEF systemVars, engineVars, guiVars, SendsNoToggle
<1> QED BY <1>8, <1>9, <1>10, <1>11, <1>12, <1>13, <1>14, <1>15 DEF SystemNext

LEMMA MaskInit == SystemInit => MaskInv
<1> SUFFICES ASSUME SystemInit PROVE MasksFollow(rings)
    BY ShapesInit DEF MaskInv
<1>1. toGui = << >> /\ toAudio = << >> /\ sets = << >>
    BY DEF SystemInit, EngineInit, CarouselInit
<1>2. MasksDrawn(rings)
    BY <1>1, NothingSilent DEF MasksDrawn
<1> QED BY <1>1, <1>2, NothingSilent DEF MasksFollow, MasksMeeting, MasksUnderWay

MasksAreSent == \A r \in Ring : IsSent(rings[r])

(***************************************************************************)
(* A point is toggled by the GUI at once and by the engine later, and      *)
(* navigation copies masks back.  As long as the user touches points and   *)
(* navigates only while nothing is under way, the hardware service leaves  *)
(* POLY_TOGGLE to the GUI, and the timelines and masks are not too long    *)
(* for a slot, both ends agree on every point once everything has arrived. *)
(***************************************************************************)
THEOREM MasksMeet == SystemSpec => [](MasksAreSent => MasksAgreeUnlessOvertaken)
<1>1. MaskInv => (MasksAreSent => MasksAgreeUnlessOvertaken)
  <2> SUFFICES ASSUME MaskInv, MasksAreSent, Settled, ~ overtaken, NEW r \in Ring
               PROVE  Shown(r).active = rings[r].active
      BY DEF MasksAgreeUnlessOvertaken
  <2>1. ~ UnderWay /\ toGui = << >> /\ sets # << >>
      BY DEF Settled, UnderWay
  <2>2. PICK rs : rs = rings
      OBVIOUS
  <2>3. MasksDrawn(rs)
      BY <2>1, <2>2, QuietMasks DEF MaskInv, MasksFollow
  <2>4. Flips(r, PointCount(rs[r]), Shown(r).active, << >>, rs[r].active)
      BY <2>1, <2>2, <2>3 DEF MasksDrawn, LeadsTo, MasksAreSent
  <2> QED BY <2>2, <2>4, FlippedNowhere
<1> QED BY <1>1, MaskInit, MaskStep, PTL DEF SystemSpec
=============================================================================
