---------------------------- MODULE AudioEngine ----------------------------
(***************************************************************************)
(* AudioEngine::start(): the engine's main thread, which owns the rings    *)
(* (one PolyRhythmModule per instrument), the selection and the play state *)
(* and is alone to change them.  It handles the messages of the GUI and of *)
(* the hardware service one at a time, and answers with messages to the    *)
(* GUI.                                                                    *)
(*                                                                         *)
(* One action is the handling of one message.  The answers of a handler    *)
(* are sent one by one, but nothing else reads or writes what it works on  *)
(* and the GUI never waits for the engine, so handing the whole batch to   *)
(* the queue of the GUI in one step hides no behaviour: the GUI may still  *)
(* take any prefix of it before it does anything else.                     *)
(***************************************************************************)
EXTENDS PolyRhythm

CONSTANTS
  NumRings,           (* 16: instruments created by initialize()          *)
  InitialSubdivision, (* per ring, the subdivision of its first shape     *)
  MaxSubdivision,     (* 32: the largest one the encoder can reach        *)
  MaxTimelinePoints,  (* 111: more make POLY_RING_TIMELINE too long       *)
  MaxActivePoints,    (* 502: more make POLY_RING_ACTIVE too long         *)
  Inbox,              (* the messages the GUI and the hardware may send   *)
  MaxShapes           (* bound: shapes on a ring that the checks explore  *)

Ring == 0 .. NumRings - 1

(* POLY_HW_MODE and the "raw" command carry any text; "other" is one that  *)
(* names no mode.                                                          *)
Command ==
  [type : {"GET_INITIAL_SETUP", "PLAY", "PAUSE", "POLY_NAV_LEFT", "POLY_NAV_RIGHT",
           "POLY_ENCODER_CLICK", "POLY_TOGGLE_SELECTED_POINT"}]
    \cup [type : {"POLY_SET_SELECTED_RING"}, ring : Nat]
    \cup [type : {"POLY_HW_MODE"}, mode : {"toggle", "points", "rotate", "other"}]
    \cup [type : {"POLY_SELECT_POINT_DELTA", "POLY_ENCODER_DELTA", "POLY_ADJUST_POINTS",
                  "POLY_ROTATE_SELECTED"}, amount : Int]
    \cup [type : {"POLY_TOGGLE"}, ring : Nat, point : Nat]
    \cup [type : {"POLY_ADD_SHAPE"}, ring : Nat, subdivision : Nat, offset : Offsets]
    \cup [type : {"POLY_REMOVE_SHAPE"}, ring : Nat, index : Nat]
    \cup [type : {"POLY_MOD_SHAPE"}, ring : Nat, index : Nat, subdivision : Nat,
          offset : Offsets]
    \cup [type : {"POLY_ROTATE"}, ring : Nat, amount : Int]

ASSUME EngineAssumption ==
  /\ NumRings \in Nat \ {0}
  /\ InitialSubdivision \in [Ring -> Nat]
  /\ 0 \in Offsets
  /\ MaxSubdivision \in Nat \ {0}
  /\ MaxTimelinePoints \in Nat
  /\ MaxActivePoints \in Nat
  /\ MaxShapes \in Nat
  /\ Inbox \subseteq Command

VARIABLES
  rings,           (* _polyInstruments[r].module, for every ring r        *)
  selectedRing,    (* _selectedRing                                       *)
  selectedPoints,  (* _selectedPoints                                     *)
  hardwareMode,    (* _hardwareMode                                       *)
  isPlaying,       (* _isPlaying                                          *)
  toGui            (* messages sent to the GUI and not yet handled by it  *)

engineState == <<rings, selectedRing, selectedPoints, hardwareMode, isPlaying>>
engineVars == <<rings, selectedRing, selectedPoints, hardwareMode, isPlaying, toGui>>

HardwareMode == {"toggle", "points", "rotate"}

EngineInit ==
  /\ rings = [r \in Ring |-> FreshRing([subdivision |-> InitialSubdivision[r], offset |-> 0])]
  /\ selectedRing = 0
  /\ selectedPoints = [r \in Ring |-> 0]
  /\ hardwareMode = "rotate"
  /\ isPlaying = FALSE
  /\ toGui = << >>

(***************************************************************************)
(* What the handlers share: safeRingIndex and what they send.  send() of a *)
(* message longer than the slot of the channel leaves no trace; only the   *)
(* timeline and the mask of a ring may be as long as that.                 *)
(***************************************************************************)
SafeRing(r) == IF r < NumRings THEN r ELSE NumRings - 1

Fits(m) ==
  /\ m.type = "POLY_RING_TIMELINE" => Cardinality(m.timeline) <= MaxTimelinePoints
  /\ m.type = "POLY_RING_ACTIVE" => Len(m.active) <= MaxActivePoints

Accepted(m) == IF Fits(m) THEN <<m>> ELSE << >>

SendsToGui(batch) == toGui' = toGui \o batch

SelectMsg(r) == [type |-> "POLY_SELECT", ring |-> r]
SelectedPointMsg(r, p) == [type |-> "POLY_SELECTED_POINT", ring |-> r, point |-> p]
ToggleMsg(r, p) == [type |-> "POLY_TOGGLE", ring |-> r, point |-> p]
HwModeMsg(mode) == [type |-> "POLY_HW_MODE", mode |-> mode]
PlayStateMsg(playing) == [type |-> "PLAY_STATE", playing |-> playing]
RebuildMsg == [type |-> "POLY_REBUILD"]
ReadyMsg == [type |-> "POLY_READY"]

(* sendRingData                                                            *)
RingData(r, ring) ==
  <<[type |-> "POLY_RING", ring |-> r]>>
    \o [i \in DOMAIN ring.shapes |->
          [type |-> "POLY_RING_SHAPE", ring |-> r, shape |-> ring.shapes[i]]]
    \o Accepted([type |-> "POLY_RING_TIMELINE", ring |-> r, timeline |-> ring.timeline])
    \o Accepted([type |-> "POLY_RING_ACTIVE", ring |-> r, active |-> ring.active])

AllRingData == FlattenSeq([i \in 1 .. NumRings |-> RingData(i - 1, rings'[i - 1])])

SendFullRebuildUnclamped(r) ==  \* mutant: no clampSelectedPoint
  /\ selectedRing' = SafeRing(r)
  /\ UNCHANGED selectedPoints
  /\ SendsToGui(<<RebuildMsg>> \o AllRingData \o <<SelectMsg(selectedRing'), ReadyMsg>>)

(* sendFullRebuild, once rings' is known: r becomes the selected ring.     *)
SendFullRebuild(r) ==
  /\ selectedRing' = SafeRing(r)
  /\ selectedPoints' =
       [selectedPoints EXCEPT ![SafeRing(r)] = Clamped(@, rings'[SafeRing(r)])]
  /\ SendsToGui(<<RebuildMsg>> \o AllRingData
                \o << SelectMsg(selectedRing'),
                      SelectedPointMsg(selectedRing', selectedPoints'[selectedRing']),
                      HwModeMsg(hardwareMode), ReadyMsg >>)

-----------------------------------------------------------------------------
(* One action per message, in the order in which start() looks for them.   *)
(* The handlers begin with _selectedRing = safeRingIndex(_selectedRing),   *)
(* which changes nothing where TypeOK holds and is left out below.         *)

GetInitialSetup ==
  /\ selectedPoints' = [selectedPoints EXCEPT ![selectedRing] = Clamped(@, rings[selectedRing])]
  /\ UNCHANGED <<rings, selectedRing, hardwareMode, isPlaying>>
  /\ SendsToGui(<<RebuildMsg>> \o AllRingData
                \o << SelectMsg(selectedRing),
                      SelectedPointMsg(selectedRing, selectedPoints'[selectedRing]),
                      PlayStateMsg(isPlaying), HwModeMsg(hardwareMode), ReadyMsg >>)

SetPlayingSilently(playing) ==  \* mutant: PLAY_STATE is not sent
  /\ isPlaying' = playing
  /\ UNCHANGED <<rings, selectedRing, selectedPoints, hardwareMode, toGui>>

SetPlaying(playing) ==
  /\ isPlaying' = playing
  /\ UNCHANGED <<rings, selectedRing, selectedPoints, hardwareMode>>
  /\ SendsToGui(<<PlayStateMsg(playing)>>)

(* POLY_NAV_LEFT and POLY_NAV_RIGHT are handed on to the GUI.              *)
Navigate(direction) ==
  /\ UNCHANGED engineState
  /\ SendsToGui(<<[type |-> direction]>>)

SetSelectedRing(r) ==
  /\ selectedRing' = SafeRing(r)
  /\ selectedPoints' = [selectedPoints EXCEPT ![SafeRing(r)] = Clamped(@, rings[SafeRing(r)])]
  /\ UNCHANGED <<rings, hardwareMode, isPlaying>>
  /\ SendsToGui(<< SelectMsg(selectedRing'),
                   SelectedPointMsg(selectedRing', selectedPoints'[selectedRing']) >>)

(* A mode the engine does not know is ignored; the mode is sent all the same. *)
SetHwMode(mode) ==
  /\ hardwareMode' = IF mode \in HardwareMode THEN mode ELSE hardwareMode
  /\ UNCHANGED <<rings, selectedRing, selectedPoints, isPlaying>>
  /\ SendsToGui(<<HwModeMsg(hardwareMode')>>)

MovedTruncated(point, amount, n) ==  \* mutant: next < 0 is not brought back
  IF point + amount < 0 THEN point + amount ELSE (point + amount) % n

Moved(point, amount, n) == (point + amount) % n

SelectPointDelta(amount) ==
  LET n == PointCount(rings[selectedRing])
  IN  /\ IF n = 0
         THEN UNCHANGED <<selectedPoints, toGui>>
         ELSE /\ selectedPoints' =
                   [selectedPoints EXCEPT ![selectedRing] = Moved(@, amount, n)]
              /\ SendsToGui(<<SelectedPointMsg(selectedRing, selectedPoints'[selectedRing])>>)
      /\ UNCHANGED <<rings, selectedRing, hardwareMode, isPlaying>>

(* The subdivision of the first shape, within 1 .. MaxSubdivision.         *)
Adjusted(subdivision, amount) ==
  IF subdivision + amount < 1 THEN 1
  ELSE IF subdivision + amount > MaxSubdivision THEN MaxSubdivision
  ELSE subdivision + amount

AdjustPoints(amount) ==
  LET ring == rings[selectedRing]
      shape == ring.shapes[1]
      subdivision == Adjusted(shape.subdivision, amount)
  IN  /\ IF amount # 0 /\ ring.shapes # << >> /\ subdivision # shape.subdivision
         THEN /\ rings' = [rings EXCEPT ![selectedRing] =
                             ShapeUpdated(@, 0, [shape EXCEPT !.subdivision = subdivision])]
              /\ SendFullRebuild(selectedRing)
         ELSE UNCHANGED <<rings, selectedRing, selectedPoints, toGui>>
      /\ UNCHANGED <<hardwareMode, isPlaying>>

RotateSelected(amount) ==
  /\ IF amount # 0
     THEN /\ rings' = [rings EXCEPT ![selectedRing] = TrackRotated(@, amount)]
          /\ SendFullRebuild(selectedRing)
     ELSE UNCHANGED <<rings, selectedRing, selectedPoints, toGui>>
  /\ UNCHANGED <<hardwareMode, isPlaying>>

EncoderDelta(amount) ==
  IF amount = 0 THEN UNCHANGED engineVars
  ELSE \/ hardwareMode = "toggle" /\ SelectPointDelta(amount)
       \/ hardwareMode = "points" /\ AdjustPoints(amount)
       \/ hardwareMode = "rotate" /\ RotateSelected(amount)

ToggleSelectedPoint ==
  LET r == selectedRing
      p == Clamped(selectedPoints[r], rings[r])
  IN  /\ rings' = [rings EXCEPT ![r] = PointToggled(@, p)]
      /\ selectedPoints' = [selectedPoints EXCEPT ![r] = p]
      /\ UNCHANGED <<selectedRing, hardwareMode, isPlaying>>
      /\ SendsToGui(<<SelectMsg(r), ToggleMsg(r, p), SelectedPointMsg(r, p)>>)

EncoderClick ==
  IF hardwareMode = "toggle" THEN ToggleSelectedPoint ELSE UNCHANGED engineVars

(***************************************************************************)
(* The messages that name a ring are ignored when there is no such ring.   *)
(* The sender of POLY_TOGGLE is taken to have toggled the point already:   *)
(* neither the toggle nor the new selected ring is sent back.              *)
(***************************************************************************)
ToggleUnclamped(r, p) ==  \* mutant: no clampSelectedPoint after the assignment
  /\ rings' = [rings EXCEPT ![r] = PointToggled(@, p)]
  /\ selectedRing' = r
  /\ selectedPoints' = [selectedPoints EXCEPT ![r] = p]
  /\ UNCHANGED <<hardwareMode, isPlaying>>
  /\ SendsToGui(<<SelectedPointMsg(r, selectedPoints'[r])>>)

ToggleKeepsSelection(r, p) ==  \* mutant: _selectedRing is not set
  /\ rings' = [rings EXCEPT ![r] = PointToggled(@, p)]
  /\ selectedPoints' = [selectedPoints EXCEPT ![r] = Clamped(p, rings[r])]
  /\ UNCHANGED <<selectedRing, hardwareMode, isPlaying>>
  /\ SendsToGui(<<SelectedPointMsg(r, selectedPoints'[r])>>)

Toggle(r, p) ==
  /\ rings' = [rings EXCEPT ![r] = PointToggled(@, p)]
  /\ selectedRing' = r
  /\ selectedPoints' = [selectedPoints EXCEPT ![r] = Clamped(p, rings[r])]
  /\ UNCHANGED <<hardwareMode, isPlaying>>
  /\ SendsToGui(<<SelectedPointMsg(r, selectedPoints'[r])>>)

AddShape(r, subdivision, offset) ==
  /\ rings' = [rings EXCEPT ![r] =
                 ShapeAdded(@, [subdivision |-> subdivision, offset |-> offset])]
  /\ SendFullRebuild(r)
  /\ UNCHANGED <<hardwareMode, isPlaying>>

RemoveShapeSilently(r, index) ==  \* mutant: no sendFullRebuild
  /\ rings' = [rings EXCEPT ![r] = ShapeRemoved(@, index)]
  /\ UNCHANGED <<selectedRing, selectedPoints, hardwareMode, isPlaying, toGui>>

RemoveShape(r, index) ==
  /\ rings' = [rings EXCEPT ![r] = ShapeRemoved(@, index)]
  /\ SendFullRebuild(r)
  /\ UNCHANGED <<hardwareMode, isPlaying>>

ModShape(r, index, subdivision, offset) ==
  IF index < Len(rings[r].shapes)
  THEN /\ rings' = [rings EXCEPT ![r] =
                      ShapeUpdated(@, index, [subdivision |-> subdivision, offset |-> offset])]
       /\ SendFullRebuild(r)
       /\ UNCHANGED <<hardwareMode, isPlaying>>
  ELSE UNCHANGED engineVars

RotateSilently(r, amount) ==  \* mutant: no sendFullRebuild
  /\ rings' = [rings EXCEPT ![r] = TrackRotated(@, amount)]
  /\ UNCHANGED <<selectedRing, selectedPoints, hardwareMode, isPlaying, toGui>>

Rotate(r, amount) ==
  /\ rings' = [rings EXCEPT ![r] = TrackRotated(@, amount)]
  /\ SendFullRebuild(r)
  /\ UNCHANGED <<hardwareMode, isPlaying>>

-----------------------------------------------------------------------------
(* The messages of the GUI and of the hardware service, and their dispatch. *)
ForRing(r, A) == IF r \in Ring THEN A ELSE UNCHANGED engineVars

Handle(m) ==
  \/ m.type = "GET_INITIAL_SETUP" /\ GetInitialSetup
  \/ m.type = "PLAY" /\ SetPlaying(TRUE)
  \/ m.type = "PAUSE" /\ SetPlaying(FALSE)
  \/ m.type \in {"POLY_NAV_LEFT", "POLY_NAV_RIGHT"} /\ Navigate(m.type)
  \/ m.type = "POLY_SET_SELECTED_RING" /\ SetSelectedRing(m.ring)
  \/ m.type = "POLY_HW_MODE" /\ SetHwMode(m.mode)
  \/ m.type = "POLY_SELECT_POINT_DELTA" /\ SelectPointDelta(m.amount)
  \/ m.type = "POLY_ENCODER_DELTA" /\ EncoderDelta(m.amount)
  \/ m.type = "POLY_ENCODER_CLICK" /\ EncoderClick
  \/ m.type = "POLY_TOGGLE_SELECTED_POINT" /\ ToggleSelectedPoint
  \/ m.type = "POLY_ADJUST_POINTS" /\ AdjustPoints(m.amount)
  \/ m.type = "POLY_ROTATE_SELECTED" /\ RotateSelected(m.amount)
  \/ m.type = "POLY_TOGGLE" /\ ForRing(m.ring, Toggle(m.ring, m.point))
  \/ m.type = "POLY_ADD_SHAPE" /\ ForRing(m.ring, AddShape(m.ring, m.subdivision, m.offset))
  \/ m.type = "POLY_REMOVE_SHAPE" /\ ForRing(m.ring, RemoveShape(m.ring, m.index))
  \/ m.type = "POLY_MOD_SHAPE"
       /\ ForRing(m.ring, ModShape(m.ring, m.index, m.subdivision, m.offset))
  \/ m.type = "POLY_ROTATE" /\ ForRing(m.ring, Rotate(m.ring, m.amount))

(***************************************************************************)
(* The engine on its own, for the properties that need no GUI: any message *)
(* of Inbox at any time.  What was sent is taken away before the next one, *)
(* since no handler looks at it.                                           *)
(***************************************************************************)
WithinBound(m) ==
  m.type = "POLY_ADD_SHAPE" /\ m.ring \in Ring => Len(rings[m.ring].shapes) < MaxShapes

Receives(m) ==
  /\ toGui = << >>
  /\ WithinBound(m)
  /\ Handle(m)

GuiTakes ==
  /\ toGui # << >>
  /\ toGui' = << >>
  /\ UNCHANGED engineState

EngineNext == GuiTakes \/ \E m \in Inbox : Receives(m)

EngineSpec == EngineInit /\ [][EngineNext]_engineVars

-----------------------------------------------------------------------------
TypeOK ==
  /\ rings \in [Ring -> RingType]
  /\ selectedRing \in Ring
  /\ selectedPoints \in [Ring -> Nat]
  /\ hardwareMode \in HardwareMode
  /\ isPlaying \in BOOLEAN

(***************************************************************************)
(* The sequencer indexes activePoints with positions of the timeline, so   *)
(* after every command the timeline must be the one of the shapes in force *)
(* and the mask must have one entry per point of it.                       *)
(***************************************************************************)
MasksFit ==
  \A r \in Ring : /\ rings[r].timeline = BuildTimeline(rings[r].shapes)
                  /\ MaskFits(rings[r])

(***************************************************************************)
(* Handlers read and toggle _selectedPoints[r] on the strength of an index *)
(* checked when it was stored.  No later command, on that ring or another, *)
(* may leave it beyond the timeline (0 stands for "none" on an empty one). *)
(***************************************************************************)
SelectionInRange ==
  \A r \in Ring : InRange(selectedPoints[r], rings[r])

(* What every handler relies on when it begins; neither part is inductive  *)
(* without the others.                                                     *)
EngineIsSound == TypeOK /\ MasksFit /\ SelectionInRange

(***************************************************************************)
(* The hardware controls act on the selected ring.  Whatever command, from *)
(* the touch screen, the encoder or the command file, edits a ring, that   *)
(* ring alone is edited and it is the selected one afterwards.             *)
(***************************************************************************)
EditSelects == [][\A r \in Ring : rings'[r] # rings[r] => selectedRing' = r]_engineVars

(***************************************************************************)
(* What a user does by mistake can be taken back: DEL on a shape that was  *)
(* just added, Rot > after Rot < and a second touch of a point each give   *)
(* the ring back as it was, mask included, whatever was edited before and  *)
(* although rebuildTimeline merges, cuts and fills.                        *)
(***************************************************************************)
EditsAreUndone ==
  \A r \in Ring :
    /\ \A n \in 0 .. MaxSubdivision, o \in Offsets :
         ShapeRemoved(ShapeAdded(rings[r], [subdivision |-> n, offset |-> o]),
                      Len(rings[r].shapes)) = rings[r]
    /\ \A amount \in -MaxSubdivision .. MaxSubdivision :
         TrackRotated(TrackRotated(rings[r], amount), -amount) = rings[r]
    /\ \A point \in 0 .. PointCount(rings[r]) :
         PointToggled(PointToggled(rings[r], point), point) = rings[r]
=============================================================================
