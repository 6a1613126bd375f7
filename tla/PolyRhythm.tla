----------------------------- MODULE PolyRhythm -----------------------------
(***************************************************************************)
(* The part of PolyRhythmModule that the engine's message handlers change: *)
(* the shapes of one ring, the timeline merged from them, and which points *)
(* of the timeline are active on its single track.                         *)
(*                                                                         *)
(* A phase in [0.0, 1.0) is an instant of a cycle of Ticks ticks.  Where   *)
(* every subdivision in use divides Ticks, two points share an instant     *)
(* exactly when the code merges them (phases closer than epsilon), so a    *)
(* timeline, sorted and without duplicates, is a set of instants.  Point i *)
(* of the code is element i + 1 of the mask.                               *)
(***************************************************************************)
EXTENDS Integers, SequencesExt

CONSTANTS
  Ticks,     (* instants in one cycle                                     *)
  Offsets    (* the phase offsets in use, in ticks                        *)

ASSUME RhythmAssumption ==
  /\ Ticks \in Nat \ {0}
  /\ Offsets \subseteq 0 .. Ticks - 1

Instant == 0 .. Ticks - 1
Shape == [subdivision : Nat, offset : Offsets]
RingType == [shapes : Seq(Shape), timeline : SUBSET Instant, active : Seq(BOOLEAN)]

(* No shape of the program has euclideanHits > 0: every step is a point,   *)
(* and a shape of subdivision 0 has none.                                  *)
Points(shape) ==
  {((j * Ticks) \div shape.subdivision + shape.offset) % Ticks :
     j \in 0 .. shape.subdivision - 1}

BuildTimeline(shapes) == UNION {Points(shapes[i]) : i \in DOMAIN shapes}

(* std::vector<bool>::resize(n, false)                                     *)
Resized(mask, n) == [i \in 1 .. n |-> i \in DOMAIN mask /\ mask[i]]

(* What setRingActivePoints and rebuildTimeline keep equal.                *)
MaskFits(ring) == Len(ring.active) = Cardinality(ring.timeline)

(* The engine and the GUI bring a selected point back onto the timeline.   *)
PointCount(ring) == Cardinality(ring.timeline)

Clamped(point, ring) ==
  IF PointCount(ring) = 0 THEN 0
  ELSE IF point >= PointCount(ring) THEN PointCount(ring) - 1 ELSE point

(***************************************************************************)
(* rebuildTimeline() after _shapes became shapes                           *)
(***************************************************************************)
RebuiltKeepingMask(ring, shapes) ==  \* mutant: the masks are not resized
  [ring EXCEPT !.shapes = shapes, !.timeline = BuildTimeline(shapes)]

RebuiltBlank(ring, shapes) ==  \* mutant: assign in place of resize
  LET timeline == BuildTimeline(shapes)
  IN  [shapes   |-> shapes,
       timeline |-> timeline,
       active   |-> [i \in 1 .. Cardinality(timeline) |-> FALSE]]

Rebuilt(ring, shapes) ==
  LET timeline == BuildTimeline(shapes)
  IN  [shapes   |-> shapes,
       timeline |-> timeline,
       active   |-> Resized(ring.active, Cardinality(timeline))]

(* Every index is a std::size_t of the message, checked by the module.     *)
ShapeAdded(ring, shape) == Rebuilt(ring, Append(ring.shapes, shape))

ShapeRemoved(ring, index) ==
  IF index < Len(ring.shapes)
  THEN Rebuilt(ring, RemoveAt(ring.shapes, index + 1))
  ELSE ring

ShapeUpdated(ring, index, shape) ==
  IF index < Len(ring.shapes)
  THEN Rebuilt(ring, [ring.shapes EXCEPT ![index + 1] = shape])
  ELSE ring

PointToggled(ring, point) ==
  IF point < Len(ring.active)
  THEN [ring EXCEPT !.active[point + 1] = ~ @]
  ELSE ring

(* rotateTrack: std::rotate by amount modulo the size, so that a positive  *)
(* amount brings later points to the front.                                *)
TrackRotated(ring, amount) ==
  LET n == Len(ring.active)
  IN  [ring EXCEPT !.active = [i \in 1 .. n |-> ring.active[((i - 1 + amount) % n) + 1]]]

(* One shape, all of its points active: initialize() of the engine.        *)
FreshRing(shape) ==
  LET timeline == BuildTimeline(<<shape>>)
  IN  [shapes   |-> <<shape>>,
       timeline |-> timeline,
       active   |-> [i \in 1 .. Cardinality(timeline) |-> TRUE]]

(* A selected point is on the timeline, or 0 when the timeline is empty.   *)
InRange(point, ring) == point < PointCount(ring) \/ point = 0
=============================================================================
