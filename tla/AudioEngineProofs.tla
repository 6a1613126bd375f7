------------------------- MODULE AudioEngineProofs -------------------------
(* Proofs about AudioEngine for every number of rings, every timeline      *)
(* resolution and every set of messages.                                   *)
EXTENDS AudioEngine, FiniteSetTheorems, TLAPS

-----------------------------------------------------------------------------
(* Lemmas on the operators of PolyRhythm: a ring is sound when its         *)
(* timeline is that of its shapes and its mask has one entry per point.    *)

SoundRing(ring) ==
  /\ ring \in RingType
  /\ ring.timeline = BuildTimeline(ring.shapes)
  /\ MaskFits(ring)

(* A timeline is a finite set of instants, so that its size is a number.   *)
LEMMA TimelineIsFinite ==
  ASSUME NEW timeline \in SUBSET Instant
  PROVE  IsFiniteSet(timeline) /\ Cardinality(timeline) \in Nat
<1>1. IsFiniteSet(Instant)
  BY FS_Interval, RhythmAssumption DEF Instant
<1> QED
  BY <1>1, FS_Subset, FS_CardinalityType

LEMMA ModRange ==
  ASSUME NEW a \in Int, NEW n \in Nat, n > 0
  PROVE  a % n \in 0 .. n - 1
  OBVIOUS

LEMMA TimelineType ==
  ASSUME NEW shapes \in Seq(Shape)
  PROVE  BuildTimeline(shapes) \in SUBSET Instant
<1>1. ASSUME NEW x \in Int
      PROVE  x % Ticks \in Instant
  BY <1>1, ModRange, RhythmAssumption DEF Instant
<1>2. ASSUME NEW i \in DOMAIN shapes, NEW j \in 0 .. shapes[i].subdivision - 1
      PROVE  (j * Ticks) \div shapes[i].subdivision + shapes[i].offset \in Int
  <2>1. shapes[i] \in Shape
    OBVIOUS
  <2>2. \A o \in Offsets : o \in Int
    BY RhythmAssumption
  <2>3. /\ shapes[i].subdivision \in Nat
        /\ shapes[i].offset \in Int
    BY <2>1, <2>2 DEF Shape
  <2>4. j \in Nat /\ shapes[i].subdivision > 0
    BY <2>3
  <2>5. j * Ticks \in Int
    BY <2>4, RhythmAssumption
  <2>6. (j * Ticks) \div shapes[i].subdivision \in Int
    BY <2>3, <2>4, <2>5
  <2> QED
    BY <2>3, <2>6
<1> QED
  BY <1>1, <1>2 DEF BuildTimeline, Points

LEMMA ResizedType ==
  ASSUME NEW mask \in Seq(BOOLEAN), NEW n \in Nat
  PROVE  Resized(mask, n) \in Seq(BOOLEAN) /\ Len(Resized(mask, n)) = n
  BY DEF Resized

LEMMA AllActiveType ==
  ASSUME NEW n \in Nat
  PROVE  [i \in 1 .. n |-> TRUE] \in Seq(BOOLEAN) /\ Len([i \in 1 .. n |-> TRUE]) = n
  OBVIOUS

LEMMA RebuiltIsSound ==
  ASSUME NEW ring \in RingType, NEW shapes \in Seq(Shape)
  PROVE  SoundRing(Rebuilt(ring, shapes))
<1> DEFINE timeline == BuildTimeline(shapes)
           n == Cardinality(timeline)
<1>1. timeline \in SUBSET Instant /\ n \in Nat
  BY TimelineType, TimelineIsFinite
<1>2. ring.active \in Seq(BOOLEAN)
  BY DEF RingType
<1>3. /\ Resized(ring.active, n) \in Seq(BOOLEAN)
      /\ Len(Resized(ring.active, n)) = n
  BY <1>1, <1>2, ResizedType
<1>4. Rebuilt(ring, shapes)
        = [shapes |-> shapes, timeline |-> timeline, active |-> Resized(ring.active, n)]
  BY DEF Rebuilt
<1> QED
  BY <1>1, <1>3, <1>4 DEF SoundRing, RingType, MaskFits

(* Each operation of the module on a sound ring yields a sound ring.       *)
LEMMA ShapeAddedIsSound ==
  ASSUME NEW ring, SoundRing(ring), NEW shape \in Shape
  PROVE  SoundRing(ShapeAdded(ring, shape))
<1>1. ring \in RingType /\ Append(ring.shapes, shape) \in Seq(Shape)
  BY DEF SoundRing, RingType
<1> QED
  BY <1>1, RebuiltIsSound DEF ShapeAdded

LEMMA ShapeRemovedIsSound ==
  ASSUME NEW ring, SoundRing(ring), NEW index \in Nat
  PROVE  SoundRing(ShapeRemoved(ring, index))
<1>1. CASE index < Len(ring.shapes)
  <2>1. ring \in RingType /\ ring.shapes \in Seq(Shape)
    BY DEF SoundRing, RingType
  <2>2. Len(ring.shapes) \in Nat
    BY <2>1
  <2>3. /\ SubSeq(ring.shapes, 1, index + 1 - 1) \in Seq(Shape)
        /\ SubSeq(ring.shapes, index + 1 + 1, Len(ring.shapes)) \in Seq(Shape)
    BY <1>1, <2>1, <2>2
  <2>4. RemoveAt(ring.shapes, index + 1) \in Seq(Shape)
    BY <2>3 DEF RemoveAt
  <2> QED
    BY <1>1, <2>1, <2>4, RebuiltIsSound DEF ShapeRemoved
<1>2. CASE ~ index < Len(ring.shapes)
  BY <1>2 DEF ShapeRemoved
<1> QED
  BY <1>1, <1>2

LEMMA ShapeUpdatedIsSound ==
  ASSUME NEW ring, SoundRing(ring), NEW index \in Nat, NEW shape \in Shape
  PROVE  SoundRing(ShapeUpdated(ring, index, shape))
<1>1. CASE index < Len(ring.shapes)
  <2>1. ring \in RingType /\ ring.shapes \in Seq(Shape)
    BY DEF SoundRing, RingType
  <2>2. [ring.shapes EXCEPT ![index + 1] = shape] \in Seq(Shape)
    BY <1>1, <2>1
  <2> QED
    BY <1>1, <2>1, <2>2, RebuiltIsSound DEF ShapeUpdated
<1>2. CASE ~ index < Len(ring.shapes)
  BY <1>2 DEF ShapeUpdated
<1> QED
  BY <1>1, <1>2

LEMMA NewMaskIsSound ==
  ASSUME NEW ring, SoundRing(ring),
         NEW mask \in Seq(BOOLEAN), Len(mask) = Len(ring.active)
  PROVE  /\ SoundRing([ring EXCEPT !.active = mask])
         /\ PointCount([ring EXCEPT !.active = mask]) = PointCount(ring)
  BY DEF SoundRing, RingType, MaskFits, PointCount

LEMMA PointToggledIsSound ==
  ASSUME NEW ring, SoundRing(ring), NEW point \in Nat
  PROVE  /\ SoundRing(PointToggled(ring, point))
         /\ PointCount(PointToggled(ring, point)) = PointCount(ring)
<1> DEFINE mask == [ring.active EXCEPT ![point + 1] = ~ @]
<1>1. ring.active \in Seq(BOOLEAN)
  BY DEF SoundRing, RingType
<1>2. CASE point < Len(ring.active)
  <2>0. \A b \in BOOLEAN : (~ b) \in BOOLEAN
    OBVIOUS
  <2>1. mask \in Seq(BOOLEAN) /\ Len(mask) = Len(ring.active)
    BY <1>1, <1>2, <2>0
  <2>2. PointToggled(ring, point) = [ring EXCEPT !.active = mask]
    BY <1>2 DEF PointToggled, SoundRing, RingType
  <2> HIDE DEF mask
  <2> QED
    BY <2>1, <2>2, NewMaskIsSound
<1>3. CASE ~ point < Len(ring.active)
  BY <1>3 DEF PointToggled
<1> QED
  BY <1>2, <1>3

LEMMA TrackRotatedIsSound ==
  ASSUME NEW ring, SoundRing(ring), NEW amount \in Int
  PROVE  /\ SoundRing(TrackRotated(ring, amount))
         /\ PointCount(TrackRotated(ring, amount)) = PointCount(ring)
<1> DEFINE n == Len(ring.active)
           mask == [i \in 1 .. n |-> ring.active[((i - 1 + amount) % n) + 1]]
<1>1. ring.active \in Seq(BOOLEAN) /\ n \in Nat
  BY DEF SoundRing, RingType
<1>2. ASSUME NEW i \in 1 .. n
      PROVE  ((i - 1 + amount) % n) + 1 \in 1 .. n
  <2>1. n \in Nat /\ n > 0 /\ i - 1 + amount \in Int
    BY <1>1
  <2> HIDE DEF n
  <2>2. (i - 1 + amount) % n \in 0 .. n - 1
    BY <2>1, ModRange
  <2> QED
    BY <2>1, <2>2
<1>3. mask \in Seq(BOOLEAN) /\ Len(mask) = n
  BY <1>1, <1>2
<1> QED
  BY <1>3, NewMaskIsSound DEF TrackRotated

LEMMA FreshRingIsSound ==
  ASSUME NEW shape \in Shape
  PROVE  SoundRing(FreshRing(shape))
<1> DEFINE timeline == BuildTimeline(<<shape>>)
           mask == [i \in 1 .. Cardinality(timeline) |-> TRUE]
<1>1. <<shape>> \in Seq(Shape)
  OBVIOUS
<1>2. timeline \in SUBSET Instant /\ Cardinality(timeline) \in Nat
  BY <1>1, TimelineType, TimelineIsFinite
<1>3. mask \in Seq(BOOLEAN) /\ Len(mask) = Cardinality(timeline)
  BY <1>2, AllActiveType
<1>4. FreshRing(shape) = [shapes |-> <<shape>>, timeline |-> timeline, active |-> mask]
  BY DEF FreshRing
<1> QED
  BY <1>1, <1>2, <1>3, <1>4 DEF SoundRing, RingType, MaskFits

-----------------------------------------------------------------------------
(* The inductive invariant is EngineIsSound.                               *)

LEMMA PointCountType ==
  ASSUME NEW ring, SoundRing(ring)
  PROVE  PointCount(ring) \in Nat
  BY TimelineIsFinite DEF SoundRing, RingType, PointCount

LEMMA ClampedInRange ==
  ASSUME NEW ring, SoundRing(ring), NEW point \in Nat
  PROVE  Clamped(point, ring) \in Nat /\ InRange(Clamped(point, ring), ring)
  BY PointCountType DEF Clamped, InRange

(* What has to hold of a state, said of one ring at a time.                *)
Sound ==
  /\ rings \in [Ring -> RingType]
  /\ \A r \in Ring : SoundRing(rings[r])
  /\ selectedRing \in Ring
  /\ selectedPoints \in [Ring -> Nat]
  /\ \A r \in Ring : InRange(selectedPoints[r], rings[r])
  /\ hardwareMode \in HardwareMode
  /\ isPlaying \in BOOLEAN

LEMMA SoundMeansSound == Sound <=> EngineIsSound
  BY DEF Sound, EngineIsSound, TypeOK, MasksFit, SelectionInRange, SoundRing, InRange

LEMMA SafeRingType ==
  ASSUME NEW r \in Nat
  PROVE  SafeRing(r) \in Ring /\ (r \in Ring => SafeRing(r) = r)
  BY EngineAssumption DEF SafeRing, Ring

(* One ring, sound, replaces ring r, and the full rebuild selects it.      *)
LEMMA RebuildIsSound ==
  ASSUME Sound, NEW r \in Ring, NEW ring, SoundRing(ring),
         rings' = [rings EXCEPT ![r] = ring],
         SendFullRebuild(r), UNCHANGED <<hardwareMode, isPlaying>>
  PROVE  Sound' /\ selectedRing' = r
<1>1. SafeRing(r) = r /\ selectedRing' = r
  BY SafeRingType DEF SendFullRebuild, Ring
<1>2. selectedPoints' = [selectedPoints EXCEPT ![r] = Clamped(@, ring)]
  BY <1>1 DEF SendFullRebuild, Sound
<1>3. rings' \in [Ring -> RingType] /\ \A q \in Ring : SoundRing(rings'[q])
  BY DEF Sound, SoundRing
<1>4. /\ Clamped(selectedPoints[r], ring) \in Nat
      /\ InRange(Clamped(selectedPoints[r], ring), ring)
  BY ClampedInRange DEF Sound
<1>5. /\ selectedPoints' \in [Ring -> Nat]
      /\ \A q \in Ring : InRange(selectedPoints'[q], rings'[q])
  BY <1>2, <1>4 DEF Sound
<1> QED
  BY <1>1, <1>3, <1>5 DEF Sound

(* One ring changes without losing a point, and its selected point is set. *)
LEMMA PointChosenIsSound ==
  ASSUME Sound, NEW r \in Ring, NEW ring, SoundRing(ring),
         PointCount(ring) = PointCount(rings[r]),
         NEW point \in Nat, InRange(point, ring),
         rings' = [rings EXCEPT ![r] = ring],
         selectedPoints' = [selectedPoints EXCEPT ![r] = point],
         selectedRing' \in Ring, UNCHANGED <<hardwareMode, isPlaying>>
  PROVE  Sound'
<1>1. rings' \in [Ring -> RingType] /\ \A q \in Ring : SoundRing(rings'[q])
  BY DEF Sound, SoundRing
<1>2. /\ selectedPoints' \in [Ring -> Nat]
      /\ \A q \in Ring : InRange(selectedPoints'[q], rings'[q])
  BY DEF Sound
<1> QED
  BY <1>1, <1>2 DEF Sound

LEMMA SelectionMovedIsSound ==
  ASSUME Sound, NEW r \in Ring, NEW point \in Nat, InRange(point, rings[r]),
         selectedPoints' = [selectedPoints EXCEPT ![r] = point],
         selectedRing' \in Ring, UNCHANGED rings,
         hardwareMode' \in HardwareMode, isPlaying' \in BOOLEAN
  PROVE  Sound'
  BY DEF Sound

-----------------------------------------------------------------------------
(* Each handler keeps the engine sound and edits no ring but the one that  *)
(* is selected when it is done.                                            *)

EditsSelected == \A r \in Ring : rings'[r] # rings[r] => selectedRing' = r

Keeps == Sound' /\ EditsSelected

LEMMA NothingChanges ==
  ASSUME Sound, UNCHANGED engineState
  PROVE  Keeps
  BY DEF Sound, engineState, Keeps, EditsSelected

LEMMA RebuildKeeps ==
  ASSUME Sound, NEW r \in Ring, NEW ring, SoundRing(ring),
         rings' = [rings EXCEPT ![r] = ring],
         SendFullRebuild(r), UNCHANGED <<hardwareMode, isPlaying>>
  PROVE  Keeps
<1>1. Sound' /\ selectedRing' = r
  BY RebuildIsSound
<1> QED
  BY <1>1 DEF Keeps, EditsSelected, Sound

LEMMA GetInitialSetupKeeps == Sound /\ GetInitialSetup => Keeps
<1> SUFFICES ASSUME Sound, GetInitialSetup PROVE Keeps
  OBVIOUS
<1>1. /\ selectedRing \in Ring
      /\ selectedPoints[selectedRing] \in Nat
      /\ SoundRing(rings[selectedRing])
  BY DEF Sound
<1>2. Sound'
  BY <1>1, ClampedInRange, SelectionMovedIsSound DEF GetInitialSetup, Sound
<1> QED
  BY <1>2 DEF Keeps, EditsSelected, GetInitialSetup

LEMMA SetPlayingKeeps ==
  ASSUME NEW playing \in BOOLEAN
  PROVE  Sound /\ SetPlaying(playing) => Keeps
  BY DEF Sound, SetPlaying, Keeps, EditsSelected

LEMMA SetHwModeKeeps ==
  ASSUME NEW mode
  PROVE  Sound /\ SetHwMode(mode) => Keeps
  BY DEF Sound, SetHwMode, Keeps, EditsSelected

LEMMA SetSelectedRingKeeps ==
  ASSUME NEW r \in Nat
  PROVE  Sound /\ SetSelectedRing(r) => Keeps
<1> SUFFICES ASSUME Sound, SetSelectedRing(r) PROVE Keeps
  OBVIOUS
<1> DEFINE q == SafeRing(r)
<1>1. q \in Ring
  BY SafeRingType
<1>2. selectedPoints[q] \in Nat /\ SoundRing(rings[q])
  BY <1>1 DEF Sound
<1>3. Sound'
  BY <1>1, <1>2, ClampedInRange, SelectionMovedIsSound DEF SetSelectedRing, Sound
<1> QED
  BY <1>3 DEF Keeps, EditsSelected, SetSelectedRing

LEMMA SelectPointDeltaKeeps ==
  ASSUME NEW amount \in Int
  PROVE  Sound /\ SelectPointDelta(amount) => Keeps
<1> SUFFICES ASSUME Sound, SelectPointDelta(amount) PROVE Keeps
  OBVIOUS
<1> DEFINE n == PointCount(rings[selectedRing])
           point == Moved(selectedPoints[selectedRing], amount, n)
<1>1. selectedRing \in Ring /\ selectedPoints[selectedRing] \in Nat /\ n \in Nat
  BY PointCountType DEF Sound
<1>2. CASE n = 0
  BY <1>2, NothingChanges DEF SelectPointDelta, engineState
<1>3. CASE n # 0
  <2>1. /\ selectedPoints' = [selectedPoints EXCEPT ![selectedRing] = point]
        /\ UNCHANGED <<rings, selectedRing, hardwareMode, isPlaying>>
    BY <1>3, <1>1 DEF SelectPointDelta, Sound
  <2>2. point \in 0 .. n - 1
    <3>1. selectedPoints[selectedRing] + amount \in Int /\ n > 0
      BY <1>1, <1>3
    <3> HIDE DEF n
    <3> QED
      BY <1>1, <3>1, ModRange DEF Moved
  <2>3. point \in Nat /\ InRange(point, rings[selectedRing])
    BY <1>1, <2>2 DEF InRange
  <2> HIDE DEF point
  <2>4. Sound'
    BY <1>1, <2>1, <2>3, SelectionMovedIsSound DEF Sound
  <2> QED
    BY <2>1, <2>4 DEF Keeps, EditsSelected
<1> QED
  BY <1>2, <1>3

LEMMA AdjustPointsKeeps ==
  ASSUME NEW amount \in Int
  PROVE  Sound /\ AdjustPoints(amount) => Keeps
<1> SUFFICES ASSUME Sound, AdjustPoints(amount) PROVE Keeps
  OBVIOUS
<1> DEFINE ring == rings[selectedRing]
           shape == ring.shapes[1]
           subdivision == Adjusted(shape.subdivision, amount)
           updated == [shape EXCEPT !.subdivision = subdivision]
           edits == amount # 0 /\ ring.shapes # << >> /\ subdivision # shape.subdivision
<1>1. selectedRing \in Ring /\ SoundRing(ring) /\ ring.shapes \in Seq(Shape)
  BY DEF Sound, RingType
<1>2. CASE edits
  <2>1. shape \in Shape
    BY <1>1, <1>2
  <2>2. subdivision \in Nat
    <3>1. shape.subdivision \in Nat
      BY <2>1 DEF Shape
    <3> HIDE DEF shape
    <3> QED
      BY <3>1, EngineAssumption DEF Adjusted
  <2>3. updated \in Shape
    BY <2>1, <2>2 DEF Shape
  <2>4. /\ rings' = [rings EXCEPT ![selectedRing] = ShapeUpdated(ring, 0, updated)]
        /\ SendFullRebuild(selectedRing)
        /\ UNCHANGED <<hardwareMode, isPlaying>>
    BY <1>2 DEF AdjustPoints
  <2>5. SoundRing(ShapeUpdated(ring, 0, updated))
    BY <1>1, <2>3, ShapeUpdatedIsSound
  <2> QED
    BY <1>1, <2>4, <2>5, RebuildKeeps
<1>3. CASE ~ edits
  BY <1>3, NothingChanges DEF AdjustPoints, engineState
<1> QED
  BY <1>2, <1>3

LEMMA RotateSelectedKeeps ==
  ASSUME NEW amount \in Int
  PROVE  Sound /\ RotateSelected(amount) => Keeps
<1> SUFFICES ASSUME Sound, RotateSelected(amount) PROVE Keeps
  OBVIOUS
<1>1. selectedRing \in Ring /\ SoundRing(rings[selectedRing])
  BY DEF Sound
<1>2. CASE amount # 0
  <2>1. rings' = [rings EXCEPT ![selectedRing] = TrackRotated(rings[selectedRing], amount)]
    BY <1>2 DEF RotateSelected
  <2>2. SoundRing(TrackRotated(rings[selectedRing], amount))
    BY <1>1, TrackRotatedIsSound
  <2> QED
    BY <1>1, <1>2, <2>1, <2>2, RebuildKeeps DEF RotateSelected
<1>3. CASE amount = 0
  BY <1>3, NothingChanges DEF RotateSelected, engineState
<1> QED
  BY <1>2, <1>3

LEMMA EncoderDeltaKeeps ==
  ASSUME NEW amount \in Int
  PROVE  Sound /\ EncoderDelta(amount) => Keeps
  BY SelectPointDeltaKeeps, AdjustPointsKeeps, RotateSelectedKeeps, NothingChanges
  DEF EncoderDelta, engineVars, engineState

LEMMA ToggleSelectedPointKeeps == Sound /\ ToggleSelectedPoint => Keeps
<1> SUFFICES ASSUME Sound, ToggleSelectedPoint PROVE Keeps
  OBVIOUS
<1> DEFINE r == selectedRing
           p == Clamped(selectedPoints[r], rings[r])
           ring == PointToggled(rings[r], p)
<1>1. r \in Ring /\ SoundRing(rings[r]) /\ selectedPoints[r] \in Nat
  BY DEF Sound
<1>2. p \in Nat /\ InRange(p, rings[r])
  BY <1>1, ClampedInRange
<1>3. SoundRing(ring) /\ PointCount(ring) = PointCount(rings[r])
  BY <1>1, <1>2, PointToggledIsSound
<1>4. /\ rings' = [rings EXCEPT ![r] = ring]
      /\ selectedPoints' = [selectedPoints EXCEPT ![r] = p]
      /\ UNCHANGED <<selectedRing, hardwareMode, isPlaying>>
  BY DEF ToggleSelectedPoint
<1>5. InRange(p, ring)
  BY <1>2, <1>3 DEF InRange
<1> HIDE DEF p, ring
<1>6. Sound'
  BY <1>1, <1>2, <1>3, <1>4, <1>5, PointChosenIsSound
<1> QED
  BY <1>1, <1>4, <1>6 DEF Keeps, EditsSelected, Sound

LEMMA EncoderClickKeeps == Sound /\ EncoderClick => Keeps
  BY ToggleSelectedPointKeeps, NothingChanges DEF EncoderClick, engineVars, engineState

LEMMA ToggleKeeps ==
  ASSUME NEW r \in Ring, NEW point \in Nat
  PROVE  Sound /\ Toggle(r, point) => Keeps
<1> SUFFICES ASSUME Sound, Toggle(r, point) PROVE Keeps
  OBVIOUS
<1> DEFINE p == Clamped(point, rings[r])
           ring == PointToggled(rings[r], point)
<1>1. SoundRing(rings[r])
  BY DEF Sound
<1>2. p \in Nat /\ InRange(p, rings[r])
  BY <1>1, ClampedInRange
<1>3. SoundRing(ring) /\ PointCount(ring) = PointCount(rings[r])
  BY <1>1, PointToggledIsSound
<1>4. /\ rings' = [rings EXCEPT ![r] = ring]
      /\ selectedPoints' = [selectedPoints EXCEPT ![r] = p]
      /\ selectedRing' = r
      /\ UNCHANGED <<hardwareMode, isPlaying>>
  BY DEF Toggle
<1>5. InRange(p, ring)
  BY <1>2, <1>3 DEF InRange
<1> HIDE DEF p, ring
<1>6. Sound'
  BY <1>2, <1>3, <1>4, <1>5, PointChosenIsSound
<1> QED
  BY <1>4, <1>6 DEF Keeps, EditsSelected, Sound

LEMMA AddShapeKeeps ==
  ASSUME NEW r \in Ring, NEW subdivision \in Nat, NEW offset \in Offsets
  PROVE  Sound /\ AddShape(r, subdivision, offset) => Keeps
<1> SUFFICES ASSUME Sound, AddShape(r, subdivision, offset) PROVE Keeps
  OBVIOUS
<1> DEFINE shape == [subdivision |-> subdivision, offset |-> offset]
<1>1. shape \in Shape /\ SoundRing(rings[r])
  BY DEF Sound, Shape
<1>2. SoundRing(ShapeAdded(rings[r], shape))
  BY <1>1, ShapeAddedIsSound
<1> QED
  BY <1>2, RebuildKeeps DEF AddShape

LEMMA RemoveShapeKeeps ==
  ASSUME NEW r \in Ring, NEW index \in Nat
  PROVE  Sound /\ RemoveShape(r, index) => Keeps
<1> SUFFICES ASSUME Sound, RemoveShape(r, index) PROVE Keeps
  OBVIOUS
<1>1. SoundRing(ShapeRemoved(rings[r], index))
  BY ShapeRemovedIsSound DEF Sound
<1> QED
  BY <1>1, RebuildKeeps DEF RemoveShape

LEMMA ModShapeKeeps ==
  ASSUME NEW r \in Ring, NEW index \in Nat, NEW subdivision \in Nat, NEW offset \in Offsets
  PROVE  Sound /\ ModShape(r, index, subdivision, offset) => Keeps
<1> SUFFICES ASSUME Sound, ModShape(r, index, subdivision, offset) PROVE Keeps
  OBVIOUS
<1> DEFINE shape == [subdivision |-> subdivision, offset |-> offset]
<1>1. shape \in Shape /\ SoundRing(rings[r])
  BY DEF Sound, Shape
<1>2. SoundRing(ShapeUpdated(rings[r], index, shape))
  BY <1>1, ShapeUpdatedIsSound
<1>3. CASE index < Len(rings[r].shapes)
  BY <1>2, <1>3, RebuildKeeps DEF ModShape
<1>4. CASE ~ index < Len(rings[r].shapes)
  BY <1>4, NothingChanges DEF ModShape, engineVars, engineState
<1> QED
  BY <1>3, <1>4

LEMMA RotateKeeps ==
  ASSUME NEW r \in Ring, NEW amount \in Int
  PROVE  Sound /\ Rotate(r, amount) => Keeps
<1> SUFFICES ASSUME Sound, Rotate(r, amount) PROVE Keeps
  OBVIOUS
<1>1. SoundRing(TrackRotated(rings[r], amount))
  BY TrackRotatedIsSound DEF Sound
<1> QED
  BY <1>1, RebuildKeeps DEF Rotate

-----------------------------------------------------------------------------
(* The fields of a command, by its type.                                   *)
LEMMA CommandFields ==
  ASSUME NEW m \in Command
  PROVE  /\ m.type = "POLY_SET_SELECTED_RING" => m.ring \in Nat
         /\ m.type \in {"POLY_SELECT_POINT_DELTA", "POLY_ENCODER_DELTA",
                        "POLY_ADJUST_POINTS", "POLY_ROTATE_SELECTED"} => m.amount \in Int
         /\ m.type = "POLY_TOGGLE" => m.point \in Nat
         /\ m.type = "POLY_ADD_SHAPE" => m.subdivision \in Nat /\ m.offset \in Offsets
         /\ m.type = "POLY_REMOVE_SHAPE" => m.index \in Nat
         /\ m.type = "POLY_MOD_SHAPE"
              => m.index \in Nat /\ m.subdivision \in Nat /\ m.offset \in Offsets
         /\ m.type = "POLY_ROTATE" => m.amount \in Int
  BY DEF Command

LEMMA HandleKeeps ==
  ASSUME NEW m \in Command
  PROVE  Sound /\ Handle(m) => Keeps
<1> SUFFICES ASSUME Sound, Handle(m) PROVE Keeps
  OBVIOUS
<1>1. CASE m.type = "GET_INITIAL_SETUP" /\ GetInitialSetup
  BY <1>1, GetInitialSetupKeeps
<1>2. CASE SetPlaying(TRUE) \/ SetPlaying(FALSE)
  BY <1>2, SetPlayingKeeps
<1>3. CASE Navigate(m.type)
  BY <1>3, NothingChanges DEF Navigate
<1>4. CASE m.type = "POLY_SET_SELECTED_RING" /\ SetSelectedRing(m.ring)
  BY <1>4, CommandFields, SetSelectedRingKeeps
<1>5. CASE SetHwMode(m.mode)
  BY <1>5, SetHwModeKeeps
<1>6. CASE m.type = "POLY_SELECT_POINT_DELTA" /\ SelectPointDelta(m.amount)
  BY <1>6, CommandFields, SelectPointDeltaKeeps
<1>7. CASE m.type = "POLY_ENCODER_DELTA" /\ EncoderDelta(m.amount)
  BY <1>7, CommandFields, EncoderDeltaKeeps
<1>8. CASE EncoderClick \/ ToggleSelectedPoint
  BY <1>8, EncoderClickKeeps, ToggleSelectedPointKeeps
<1>9. CASE m.type = "POLY_ADJUST_POINTS" /\ AdjustPoints(m.amount)
  BY <1>9, CommandFields, AdjustPointsKeeps
<1>10. CASE m.type = "POLY_ROTATE_SELECTED" /\ RotateSelected(m.amount)
  BY <1>10, CommandFields, RotateSelectedKeeps
<1>11. CASE m.type = "POLY_TOGGLE" /\ ForRing(m.ring, Toggle(m.ring, m.point))
  BY <1>11, CommandFields, ToggleKeeps, NothingChanges DEF ForRing, engineVars, engineState
<1>12. CASE /\ m.type = "POLY_ADD_SHAPE"
            /\ ForRing(m.ring, AddShape(m.ring, m.subdivision, m.offset))
  BY <1>12, CommandFields, AddShapeKeeps, NothingChanges DEF ForRing, engineVars, engineState
<1>13. CASE m.type = "POLY_REMOVE_SHAPE" /\ ForRing(m.ring, RemoveShape(m.ring, m.index))
  BY <1>13, CommandFields, RemoveShapeKeeps, NothingChanges DEF ForRing, engineVars, engineState
<1>14. CASE /\ m.type = "POLY_MOD_SHAPE"
            /\ ForRing(m.ring, ModShape(m.ring, m.index, m.subdivision, m.offset))
  BY <1>14, CommandFields, ModShapeKeeps, NothingChanges DEF ForRing, engineVars, engineState
<1>15. CASE m.type = "POLY_ROTATE" /\ ForRing(m.ring, Rotate(m.ring, m.amount))
  BY <1>15, CommandFields, RotateKeeps, NothingChanges DEF ForRing, engineVars, engineState
<1> QED
  BY <1>1, <1>2, <1>3, <1>4, <1>5, <1>6, <1>7, <1>8, <1>9, <1>10, <1>11, <1>12, <1>13,
     <1>14, <1>15 DEF Handle

(***************************************************************************)
(* Which messages touch the play state, the mode and the shapes.           *)
(***************************************************************************)
LEMMA HandlePlays ==
  ASSUME NEW m \in Command, Handle(m)
  PROVE  /\ m.type = "PLAY" => isPlaying' = TRUE
         /\ m.type = "PAUSE" => isPlaying' = FALSE
         /\ m.type \in {"PLAY", "PAUSE"} => toGui' = toGui \o <<PlayStateMsg(isPlaying')>>
         /\ m.type \notin {"PLAY", "PAUSE"} => isPlaying' = isPlaying
<1>1. ASSUME NEW playing, SetPlaying(playing)
      PROVE  isPlaying' = playing /\ toGui' = toGui \o <<PlayStateMsg(isPlaying')>>
  BY <1>1 DEF SetPlaying, SendsToGui
<1>2. /\ m.type = "PLAY" => SetPlaying(TRUE)
      /\ m.type = "PAUSE" => SetPlaying(FALSE)
  BY DEF Handle
<1>3. m.type \notin {"PLAY", "PAUSE"} => isPlaying' = isPlaying
  BY DEF Handle, GetInitialSetup, Navigate, SetSelectedRing, SetHwMode, SelectPointDelta,
         EncoderDelta, EncoderClick, ToggleSelectedPoint, AdjustPoints, RotateSelected, ForRing,
         Toggle, AddShape, RemoveShape, ModShape, Rotate, engineState, engineVars
<1> QED BY <1>1, <1>2, <1>3

LEMMA HandleModes ==
  ASSUME NEW m \in Command, Handle(m)
  PROVE  /\ m.type = "POLY_HW_MODE" /\ m.mode \in HardwareMode => hardwareMode' = m.mode
         /\ m.type = "POLY_HW_MODE" => toGui' = toGui \o <<HwModeMsg(hardwareMode')>>
         /\ m.type # "POLY_HW_MODE" => hardwareMode' = hardwareMode
<1>1. ASSUME NEW mode, SetHwMode(mode)
      PROVE  /\ mode \in HardwareMode => hardwareMode' = mode
             /\ toGui' = toGui \o <<HwModeMsg(hardwareMode')>>
  BY <1>1 DEF SetHwMode, SendsToGui
<1>2. m.type = "POLY_HW_MODE" => SetHwMode(m.mode)
  BY DEF Handle
<1>3. m.type # "POLY_HW_MODE" => hardwareMode' = hardwareMode
  BY DEF Handle, GetInitialSetup, SetPlaying, Navigate, SetSelectedRing, SelectPointDelta,
         EncoderDelta, EncoderClick, ToggleSelectedPoint, AdjustPoints, RotateSelected, ForRing,
         Toggle, AddShape, RemoveShape, ModShape, Rotate, engineState, engineVars
<1> QED BY <1>1, <1>2, <1>3

LEMMA HandleShapes ==
  ASSUME Sound, NEW m \in Command, Handle(m),
         m.type \notin {"POLY_ENCODER_DELTA", "POLY_ADJUST_POINTS", "POLY_ADD_SHAPE",
                        "POLY_REMOVE_SHAPE", "POLY_MOD_SHAPE"}
  PROVE  \A r \in Ring : rings'[r].shapes = rings[r].shapes
<1> DEFINE SameShapes == \A r \in Ring : rings'[r].shapes = rings[r].shapes
<1>1. rings \in [Ring -> RingType] /\ selectedRing \in Ring
  BY DEF Sound
<1>2. ASSUME UNCHANGED rings PROVE SameShapes
  BY <1>2
<1>3. ASSUME NEW r \in Ring, NEW ring, ring.shapes = rings[r].shapes,
             rings' = [rings EXCEPT ![r] = ring]
      PROVE  SameShapes
  BY <1>1, <1>3
<1>4. ASSUME NEW r \in Ring, NEW p
      PROVE  PointToggled(rings[r], p).shapes = rings[r].shapes
  BY <1>1 DEF PointToggled, RingType
<1>5. ASSUME NEW r \in Ring, NEW amount
      PROVE  TrackRotated(rings[r], amount).shapes = rings[r].shapes
  BY <1>1 DEF TrackRotated, RingType
<1> HIDE DEF SameShapes
<1>6. \A amount : RotateSelected(amount) => SameShapes
  BY <1>1, <1>2, <1>3, <1>5 DEF RotateSelected
<1>7. ToggleSelectedPoint => SameShapes
  BY <1>1, <1>3, <1>4 DEF ToggleSelectedPoint
<1>8. EncoderClick => SameShapes
  BY <1>2, <1>7 DEF EncoderClick, engineVars
<1>9. \A r, p : ForRing(r, Toggle(r, p)) => SameShapes
  BY <1>2, <1>3, <1>4 DEF ForRing, Toggle, engineVars
<1>10. \A r, amount : ForRing(r, Rotate(r, amount)) => SameShapes
  BY <1>2, <1>3, <1>5 DEF ForRing, Rotate, engineVars
<1>11. /\ GetInitialSetup => SameShapes
       /\ \A x : SetPlaying(x) \/ Navigate(x) \/ SetSelectedRing(x) \/ SetHwMode(x)
                   \/ SelectPointDelta(x) => SameShapes
  BY <1>2 DEF GetInitialSetup, SetPlaying, Navigate, SetSelectedRing, SetHwMode, SelectPointDelta,
              engineState
<1>12. SameShapes
  BY <1>6, <1>7, <1>8, <1>9, <1>10, <1>11 DEF Handle
<1> QED BY <1>12 DEF SameShapes

-----------------------------------------------------------------------------
LEMMA InitIsSound == EngineInit => Sound
<1> SUFFICES ASSUME EngineInit PROVE Sound
  OBVIOUS
<1> DEFINE shape(r) == [subdivision |-> InitialSubdivision[r], offset |-> 0]
<1>1. ASSUME NEW r \in Ring
      PROVE  SoundRing(FreshRing(shape(r)))
  BY EngineAssumption, FreshRingIsSound DEF Shape
<1>2. rings = [r \in Ring |-> FreshRing(shape(r))]
  BY DEF EngineInit
<1>3. \A r \in Ring : SoundRing(rings[r])
  BY <1>1, <1>2
<1>4. rings \in [Ring -> RingType]
  BY <1>2, <1>3 DEF SoundRing
<1>5. selectedRing \in Ring /\ hardwareMode \in HardwareMode /\ isPlaying \in BOOLEAN
  <2>1. NumRings \in Nat /\ NumRings > 0
    BY EngineAssumption
  <2>2. 0 \in Ring
    BY <2>1 DEF Ring
  <2> QED
    BY <2>2 DEF EngineInit, HardwareMode
<1>6. /\ selectedPoints \in [Ring -> Nat]
      /\ \A r \in Ring : InRange(selectedPoints[r], rings[r])
  BY DEF EngineInit, InRange
<1> HIDE DEF shape
<1> QED
  BY <1>3, <1>4, <1>5, <1>6 DEF Sound

LEMMA StepKeeps == Sound /\ [EngineNext]_engineVars => Keeps
<1> SUFFICES ASSUME Sound, [EngineNext]_engineVars PROVE Keeps
  OBVIOUS
<1>1. CASE GuiTakes
  BY <1>1, NothingChanges DEF GuiTakes
<1>2. ASSUME NEW m \in Inbox, Receives(m)
      PROVE  Keeps
  BY <1>2, HandleKeeps, EngineAssumption DEF Receives
<1>3. CASE UNCHANGED engineVars
  BY <1>3, NothingChanges DEF engineVars, engineState
<1> QED
  BY <1>1, <1>2, <1>3 DEF EngineNext

LEMMA AlwaysSound == EngineSpec => []Sound
<1>1. Sound /\ [EngineNext]_engineVars => Sound'
  BY StepKeeps DEF Keeps
<1> QED
  BY <1>1, InitIsSound, PTL DEF EngineSpec

(* No command, whatever its ring, point, index or amount, takes the        *)
(* engine's state out of its types: start() handles all of them without a  *)
(* subscript out of range.                                                 *)
THEOREM TypeCorrect == EngineSpec => []TypeOK
<1>1. Sound => TypeOK
  BY DEF Sound, TypeOK
<1> QED
  BY <1>1, AlwaysSound, PTL

(* rebuildTimeline and the track operations keep every mask as long as the *)
(* timeline it is indexed by.                                              *)
THEOREM MasksAlwaysFit == EngineSpec => []MasksFit
<1>1. Sound => MasksFit
  BY DEF Sound, MasksFit, SoundRing
<1> QED
  BY <1>1, AlwaysSound, PTL

(* The selected point of every ring stays on its timeline.                 *)
THEOREM SelectionStaysInRange == EngineSpec => []SelectionInRange
<1>1. Sound => SelectionInRange
  BY DEF Sound, SelectionInRange, InRange
<1> QED
  BY <1>1, AlwaysSound, PTL

(* What the handlers rely on holds whenever one begins.                    *)
THEOREM EngineIsAlwaysSound == EngineSpec => []EngineIsSound
BY TypeCorrect, MasksAlwaysFit, SelectionStaysInRange, PTL DEF EngineIsSound

(* A ring that a command edits is the selected ring afterwards.            *)
THEOREM EditsAlwaysSelect == EngineSpec => EditSelects
<1>1. Sound /\ [EngineNext]_engineVars => [EditsSelected]_engineVars
  BY StepKeeps DEF Keeps
<1>2. [EditsSelected]_engineVars
        => [\A r \in Ring : rings'[r] # rings[r] => selectedRing' = r]_engineVars
  BY DEF EditsSelected
<1> QED
  BY <1>1, <1>2, AlwaysSound, PTL DEF EngineSpec, EditSelects

-----------------------------------------------------------------------------
(* What can be taken back.                                                 *)

LEMMA ResizedBack ==
  ASSUME NEW mask \in Seq(BOOLEAN), NEW n \in Nat, n >= Len(mask)
  PROVE  Resized(Resized(mask, n), Len(mask)) = mask
<1> DEFINE longer == Resized(mask, n)
           k == Len(mask)
<1>1. k \in Nat /\ DOMAIN mask = 1 .. k
  OBVIOUS
<1>2. DOMAIN longer = 1 .. n
  BY DEF Resized
<1>3. ASSUME NEW i \in 1 .. k
      PROVE  (i \in DOMAIN longer /\ longer[i]) = mask[i]
  <2>1. i \in 1 .. n /\ mask[i] \in BOOLEAN
    BY <1>1
  <2>2. longer[i] = mask[i]
    BY <1>1, <2>1 DEF Resized
  <2> QED
    BY <1>2, <2>1, <2>2
<1>4. Resized(longer, k) = [i \in 1 .. k |-> mask[i]]
  BY <1>3 DEF Resized
<1> QED
  BY <1>1, <1>4

LEMMA AddedShapeIsRemoved ==
  ASSUME NEW ring, SoundRing(ring), NEW shape \in Shape
  PROVE  ShapeRemoved(ShapeAdded(ring, shape), Len(ring.shapes)) = ring
<1> DEFINE k == Len(ring.shapes)
           longer == Append(ring.shapes, shape)
           added == ShapeAdded(ring, shape)
           m == Cardinality(BuildTimeline(longer))
<1>1. /\ ring \in RingType
      /\ ring.shapes \in Seq(Shape)
      /\ ring.active \in Seq(BOOLEAN)
      /\ ring.timeline \in SUBSET Instant
      /\ k \in Nat
  BY DEF SoundRing, RingType
<1>2. /\ longer \in Seq(Shape)
      /\ Len(longer) = k + 1
      /\ \A i \in 1 .. k : longer[i] = ring.shapes[i]
  BY <1>1
<1>3. RemoveAt(longer, k + 1) = ring.shapes
  <2> DEFINE last == k + 1
  <2>1. /\ SubSeq(longer, 1, k) = ring.shapes
        /\ SubSeq(longer, k + 2, Len(longer)) = << >>
    BY <1>1, <1>2
  <2>2. ring.shapes \o << >> = ring.shapes
    BY <1>1
  <2>3. longer \in Seq(Shape) /\ last \in Int /\ last - 1 = k /\ last + 1 = k + 2
    BY <1>1, <1>2
  <2> HIDE DEF longer, k, last
  <2>4. RemoveAt(longer, last)
          = SubSeq(longer, 1, last - 1) \o SubSeq(longer, last + 1, Len(longer))
    BY <2>3 DEF RemoveAt
  <2>5. RemoveAt(longer, last) = ring.shapes
    BY <2>1, <2>2, <2>3, <2>4
  <2> QED
    BY <2>5 DEF last
<1>4. /\ added.shapes = longer
      /\ added.active = Resized(ring.active, m)
  BY DEF ShapeAdded, Rebuilt
<1>5. m \in Nat /\ Len(ring.active) <= m
  <2>1. ring.timeline \subseteq BuildTimeline(longer)
    BY <1>1, <1>2 DEF SoundRing, BuildTimeline
  <2>2. IsFiniteSet(BuildTimeline(longer)) /\ m \in Nat
    BY <1>2, TimelineType, TimelineIsFinite
  <2>3. Cardinality(ring.timeline) <= m
    BY <2>1, <2>2, FS_Subset
  <2> QED
    BY <2>2, <2>3 DEF SoundRing, MaskFits
<1>6. ShapeRemoved(added, k) = Rebuilt(added, ring.shapes)
  BY <1>1, <1>2, <1>3, <1>4 DEF ShapeRemoved
<1>7. Rebuilt(added, ring.shapes)
        = [shapes |-> ring.shapes, timeline |-> ring.timeline, active |-> ring.active]
  <2>1. Cardinality(BuildTimeline(ring.shapes)) = Len(ring.active)
    BY DEF SoundRing, MaskFits
  <2>2. Resized(added.active, Len(ring.active)) = ring.active
    BY <1>1, <1>4, <1>5, ResizedBack
  <2>3. BuildTimeline(ring.shapes) = ring.timeline
    BY DEF SoundRing
  <2> QED
    BY <2>1, <2>2, <2>3 DEF Rebuilt
<1>8. ring = [shapes |-> ring.shapes, timeline |-> ring.timeline, active |-> ring.active]
  BY <1>1 DEF RingType
<1> QED
  BY <1>6, <1>7, <1>8

LEMMA PointIsToggledBack ==
  ASSUME NEW ring, SoundRing(ring), NEW point \in Nat
  PROVE  PointToggled(PointToggled(ring, point), point) = ring
<1>1. ring \in RingType /\ ring.active \in Seq(BOOLEAN)
  BY DEF SoundRing, RingType
<1>2. CASE point < Len(ring.active)
  <2> DEFINE mask == [ring.active EXCEPT ![point + 1] = ~ @]
             once == [ring EXCEPT !.active = mask]
  <2>1. /\ PointToggled(ring, point) = once
        /\ once.active = mask
        /\ mask \in Seq(BOOLEAN)
        /\ Len(mask) = Len(ring.active)
    BY <1>1, <1>2 DEF PointToggled, RingType
  <2>2. [mask EXCEPT ![point + 1] = ~ @] = ring.active
    <3>1. point + 1 \in DOMAIN ring.active /\ ring.active[point + 1] \in BOOLEAN
      BY <1>1, <1>2
    <3>2. ~ mask[point + 1] = ring.active[point + 1]
      BY <3>1
    <3>3. [mask EXCEPT ![point + 1] = ring.active[point + 1]] = ring.active
      BY <1>1, <3>1
    <3> QED
      BY <3>2, <3>3
  <2>3. PointToggled(once, point) = [once EXCEPT !.active = ring.active]
    BY <1>2, <2>1, <2>2 DEF PointToggled
  <2>4. [once EXCEPT !.active = ring.active] = ring
    BY <1>1 DEF RingType
  <2> QED
    BY <2>1, <2>3, <2>4
<1>3. CASE ~ point < Len(ring.active)
  BY <1>3 DEF PointToggled
<1> QED
  BY <1>2, <1>3

(* (x - a) modulo n, and a modulo n from there, is x again.                *)
LEMMA MovedBack ==
  ASSUME NEW x \in Int, NEW a \in Int, NEW n \in Nat, n > 0, 0 <= x, x < n
  PROVE  (((x - a) % n) + a) % n = x
<1> DEFINE y == (x - a) % n
           q == (x - a) \div n
           z == (y + a) % n
           p == (y + a) \div n
<1>1. q \in Int /\ y \in Int /\ x - a = n * q + y
  OBVIOUS
<1>2. p \in Int /\ z \in 0 .. n - 1 /\ y + a = n * p + z
  BY <1>1
<1>3. n * (q + p) = x - z
  <2>1. n * (q + p) = n * q + n * p
    BY <1>1, <1>2
  <2> HIDE DEF y, q, z, p
  <2> QED
    BY <1>1, <1>2, <2>1
<1>4. q + p = 0
  <2> DEFINE d == q + p
  <2>1. d \in Int /\ n * d = x - z /\ z \in 0 .. n - 1
    BY <1>1, <1>2, <1>3
  <2> HIDE DEF d, z, y, q, p
  <2>2. -n < n * d /\ n * d < n
    BY <2>1
  <2>3. ~ d >= 1
    <3> SUFFICES ASSUME d >= 1 PROVE FALSE
      OBVIOUS
    <3>1. n * d = n + n * (d - 1)
      BY <2>1
    <3>2. n * (d - 1) >= 0
      BY <2>1
    <3>3. n * (d - 1) \in Int
      BY <2>1
    <3> QED
      BY <2>1, <2>2, <3>1, <3>2, <3>3
  <2>4. ~ d <= -1
    <3> SUFFICES ASSUME d <= -1 PROVE FALSE
      OBVIOUS
    <3>1. n * d = n * (d + 1) - n
      BY <2>1
    <3>2. n * (d + 1) <= 0
      BY <2>1
    <3>3. n * (d + 1) \in Int
      BY <2>1
    <3> QED
      BY <2>1, <2>2, <3>1, <3>2, <3>3
  <2>5. d = 0
    BY <2>1, <2>3, <2>4
  <2> QED
    BY <2>5 DEF d
<1>5. z = x
  <2> HIDE DEF y, q, z, p
  <2>1. n * (q + p) = 0
    BY <1>4
  <2> QED
    BY <1>2, <1>3, <2>1
<1> QED
  BY <1>5

LEMMA TrackIsRotatedBack ==
  ASSUME NEW ring, SoundRing(ring), NEW amount \in Int
  PROVE  TrackRotated(TrackRotated(ring, amount), -amount) = ring
<1> DEFINE n == Len(ring.active)
           mask == [i \in 1 .. n |-> ring.active[((i - 1 + amount) % n) + 1]]
           back == [i \in 1 .. n |-> mask[((i - 1 - amount) % n) + 1]]
<1>1. ring \in RingType /\ ring.active \in Seq(BOOLEAN) /\ n \in Nat /\ DOMAIN ring.active = 1 .. n
  BY DEF SoundRing, RingType
<1>2. \A j \in 1 .. n : mask[j] = ring.active[((j - 1 + amount) % n) + 1]
  OBVIOUS
<1>3. \A j \in 1 .. n : back[j] = mask[((j - 1 - amount) % n) + 1]
  OBVIOUS
<1>4. ASSUME NEW i \in 1 .. n
      PROVE  back[i] = ring.active[i]
  <2> DEFINE y == (i - 1 - amount) % n
  <2>1. /\ n > 0 /\ i - 1 \in Int /\ 0 <= i - 1 /\ i - 1 < n
        /\ i - 1 - amount \in Int
    BY <1>1
  <2> HIDE DEF n, mask, back
  <2>2. y \in 0 .. n - 1
    BY <1>1, <2>1, ModRange
  <2>3. (y + amount) % n = i - 1
    BY <1>1, <2>1, MovedBack
  <2>4. back[i] = mask[y + 1]
    BY <1>3
  <2> DEFINE j == y + 1
  <2>5. j \in 1 .. n /\ j - 1 + amount = y + amount
    BY <1>1, <2>2
  <2>6. back[i] = mask[j]
    BY <2>4
  <2> HIDE DEF y, j
  <2>7. mask[j] = ring.active[((j - 1 + amount) % n) + 1]
    BY <1>2, <2>5
  <2>8. i - 1 + 1 = i
    BY <1>1
  <2> QED
    BY <2>3, <2>5, <2>7, <2>8, <2>6
<1>5. back = ring.active
  <2> HIDE DEF n, mask
  <2>1. ASSUME NEW i \in 1 .. n
        PROVE  mask[((i - 1 - amount) % n) + 1] = ring.active[i]
    BY <1>4, <1>3, Zenon
  <2>2. back = [i \in 1 .. n |-> ring.active[i]]
    BY <2>1, Zenon
  <2>3. ring.active = [i \in 1 .. n |-> ring.active[i]]
    BY <1>1
  <2> QED
    BY <2>2, <2>3
<1>6. /\ Len(mask) = n
      /\ TrackRotated(ring, amount) = [ring EXCEPT !.active = mask]
      /\ [ring EXCEPT !.active = mask].active = mask
  BY <1>1 DEF TrackRotated, RingType
<1>7. \A i \in 1 .. n : i - 1 + (-amount) = i - 1 - amount
  BY <1>1
<1> HIDE DEF mask
<1>8. TrackRotated([ring EXCEPT !.active = mask], -amount)
        = [[ring EXCEPT !.active = mask] EXCEPT !.active = back]
  BY <1>6, <1>7 DEF TrackRotated
<1>9. [[ring EXCEPT !.active = mask] EXCEPT !.active = ring.active] = ring
  BY <1>1 DEF RingType
<1> QED
  BY <1>5, <1>6, <1>8, <1>9

LEMMA SoundUndoes == Sound => EditsAreUndone
<1> SUFFICES ASSUME Sound, NEW r \in Ring
             PROVE  /\ \A n \in 0 .. MaxSubdivision, o \in Offsets :
                         ShapeRemoved(ShapeAdded(rings[r], [subdivision |-> n, offset |-> o]),
                                      Len(rings[r].shapes)) = rings[r]
                    /\ \A amount \in -MaxSubdivision .. MaxSubdivision :
                         TrackRotated(TrackRotated(rings[r], amount), -amount) = rings[r]
                    /\ \A point \in 0 .. PointCount(rings[r]) :
                         PointToggled(PointToggled(rings[r], point), point) = rings[r]
  BY DEF EditsAreUndone
<1>1. SoundRing(rings[r])
  BY DEF Sound
<1>2. \A n \in 0 .. MaxSubdivision, o \in Offsets : [subdivision |-> n, offset |-> o] \in Shape
  BY EngineAssumption DEF Shape
<1>3. \A amount \in -MaxSubdivision .. MaxSubdivision : amount \in Int
  BY EngineAssumption
<1>4. \A point \in 0 .. PointCount(rings[r]) : point \in Nat
  BY <1>1, TimelineIsFinite DEF SoundRing, RingType, PointCount
<1> QED
  BY <1>1, <1>2, <1>3, <1>4, AddedShapeIsRemoved, TrackIsRotatedBack, PointIsToggledBack

(* Adding a shape, rotating and toggling can be taken back on every ring   *)
(* that the engine can reach.                                              *)
THEOREM EditsCanBeUndone == EngineSpec => []EditsAreUndone
BY SoundUndoes, AlwaysSound, PTL
=============================================================================
