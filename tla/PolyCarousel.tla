---------------------------- MODULE PolyCarousel ----------------------------
(***************************************************************************)
(* The GUI process: the loop of LVGL::start(), PolyRhythmCarousel and the  *)
(* PolyRhythmUI of each of its sets.                                       *)
(*                                                                         *)
(* Rings are shown in sets of RingsPerSet.  Ring data that comes from the  *)
(* engine is staged, ring by ring, between POLY_REBUILD and POLY_READY;    *)
(* POLY_READY fills every set from the staging area.  A set then lives its *)
(* own life: touches and POLY_TOGGLE change its copy of the masks, and a   *)
(* navigation writes the copy of two sets back before it refills them.     *)
(*                                                                         *)
(* The process has one thread besides the reader of the channel: handling  *)
(* one message, or one touch or key, is one step.                          *)
(***************************************************************************)
EXTENDS PolyRhythm

CONSTANTS
  RingsPerSet,  (* RINGS_PER_SET = 4                                      *)
  MaxSets       (* MAX_SETS = 5                                           *)

ASSUME CarouselAssumption ==
  /\ RingsPerSet \in Nat \ {0}
  /\ MaxSets \in Nat \ {0}

VARIABLES
  staged,       (* _staged: shapes, timeline and mask of every ring       *)
  sets,         (* _sets: per set its PolyRhythmUI and its SetSlot        *)
  currentSet,   (* _currentSet                                            *)
  pendingRing,  (* _pendingSelectedGlobalRing, or NoRing                  *)
  isAnimating,  (* _isAnimating                                           *)
  carouselMode, (* _hardwareMode of the carousel                          *)
  is_playing,   (* the loop's is_playing                                  *)
  toAudio       (* messages sent to the engine and not yet handled by it  *)

guiState == <<staged, sets, currentSet, pendingRing, isAnimating, carouselMode, is_playing>>
guiVars == <<staged, sets, currentSet, pendingRing, isAnimating, carouselMode, is_playing, toAudio>>

NoRing == -1

CarouselInit ==
  /\ staged = << >>
  /\ sets = << >>
  /\ currentSet = 0
  /\ pendingRing = NoRing
  /\ isAnimating = FALSE
  /\ carouselMode = "rotate"
  /\ is_playing = FALSE

SendsToAudio(m) == toAudio' = Append(toAudio, m)

(***************************************************************************)
(* A set: its rings, the selected point of each, the selected ring of its  *)
(* PolyRhythmUI and of its slot, how many rings the slot should have, the  *)
(* mode its buttons show and whether its playhead moves.                   *)
(***************************************************************************)
EmptySet == [rings |-> << >>, points |-> << >>, selected |-> 0, slotSelected |-> 0,
             ringCount |-> 0, mode |-> "rotate", playing |-> FALSE]

FirstRing(s) == s * RingsPerSet
SetOf(r) == r \div RingsPerSet
LocalOf(r) == r % RingsPerSet

(* PolyRhythmUI::selectRing, togglePointLocal and setSelectedPoint         *)
UiSelectRing(set, i) ==
  IF i < Len(set.rings)
  THEN [set EXCEPT !.selected = i, !.points[i + 1] = Clamped(@, set.rings[i + 1])]
  ELSE set

UiToggle(set, i, p) ==
  IF i < Len(set.rings)
  THEN [set EXCEPT !.rings[i + 1] = PointToggled(@, p)]
  ELSE set

UiSelectPoint(set, i, p) ==
  IF i < Len(set.rings)
  THEN [set EXCEPT !.points[i + 1] = Clamped(p, set.rings[i + 1])]
  ELSE set

ShownUncut(ring) ==  \* mutant: setRingActivePoints does not resize
  ring

(* setRingActivePoints: the mask is cut or filled to the timeline.         *)
ShownRing(ring) == [ring EXCEPT !.active = Resized(@, PointCount(ring))]

(***************************************************************************)
(* populateSet: the rings of set s that are staged, then rebuildFromData   *)
(* of the UI.                                                              *)
(***************************************************************************)
Populated(set, s, staging) ==
  LET n == IF FirstRing(s) + set.ringCount <= Len(staging) THEN set.ringCount
           ELSE IF FirstRing(s) < Len(staging) THEN Len(staging) - FirstRing(s) ELSE 0
  IN  [set EXCEPT
         !.rings = [i \in 1 .. n |-> ShownRing(staging[FirstRing(s) + i])],
         !.points = [i \in 1 .. n |-> 0],
         !.selected = IF n > 0 /\ @ >= n THEN 0 ELSE @,
         !.mode = carouselMode]

SyncedNothing(staging, s) ==  \* mutant: navigation does not write back
  staging

(* syncSetToStaged                                                         *)
Synced(staging, s) ==
  [i \in DOMAIN staging |->
     IF SetOf(i - 1) = s /\ LocalOf(i - 1) < sets[s + 1].ringCount
     THEN [staging[i] EXCEPT !.active =
             IF LocalOf(i - 1) < Len(sets[s + 1].rings)
             THEN sets[s + 1].rings[LocalOf(i - 1) + 1].active
             ELSE << >>]
     ELSE staging[i]]

(* applyLayout begins by keeping the selected ring of the centre set.      *)
LaidOut(ss, centre) == [ss EXCEPT ![centre + 1].slotSelected = ss[centre + 1].selected]

-----------------------------------------------------------------------------
(* Handling of one message of the engine.                                  *)

OnPlayState(playing) ==
  /\ is_playing' = playing
  /\ sets' = [s \in DOMAIN sets |-> [sets[s] EXCEPT !.playing = playing]]
  /\ UNCHANGED <<staged, currentSet, pendingRing, isAnimating, carouselMode, toAudio>>

(* The playhead itself is not modelled, only that it may start the sets.   *)
OnPlayhead == IF is_playing THEN UNCHANGED guiVars ELSE OnPlayState(TRUE)

Stages(staging) ==
  /\ staged' = staging
  /\ UNCHANGED <<sets, currentSet, pendingRing, isAnimating, carouselMode, is_playing, toAudio>>

OnRebuildIgnored ==  \* mutant: clearAllRings does not clear
  Stages(staged)

OnRebuild == Stages(<< >>)

OnRing == Stages(Append(staged, [shapes |-> << >>, timeline |-> {}, active |-> << >>]))

OnRingShape(r, shape) ==
  Stages(IF r < Len(staged)
         THEN [staged EXCEPT ![r + 1].shapes = Append(@, shape)] ELSE staged)

OnRingTimeline(r, timeline) ==
  Stages(IF r < Len(staged) THEN [staged EXCEPT ![r + 1].timeline = timeline] ELSE staged)

OnRingActive(r, active) ==
  Stages(IF r < Len(staged) THEN [staged EXCEPT ![r + 1].active = active] ELSE staged)

OnToggle(r, p) ==
  /\ sets' = IF SetOf(r) < Len(sets)
             THEN [sets EXCEPT ![SetOf(r) + 1] =
                     UiSelectPoint(UiToggle(@, LocalOf(r), p), LocalOf(r), p)]
             ELSE sets
  /\ UNCHANGED <<staged, currentSet, pendingRing, isAnimating, carouselMode, is_playing, toAudio>>

OnSelectedPoint(r, p) ==
  /\ sets' = IF SetOf(r) < Len(sets)
             THEN [sets EXCEPT ![SetOf(r) + 1] = UiSelectPoint(@, LocalOf(r), p)]
             ELSE sets
  /\ UNCHANGED <<staged, currentSet, pendingRing, isAnimating, carouselMode, is_playing, toAudio>>

OnHwModeForgets(mode) ==  \* mutant: the carousel does not keep the mode
  /\ sets' = [s \in DOMAIN sets |-> [sets[s] EXCEPT !.mode = mode]]
  /\ UNCHANGED <<staged, currentSet, pendingRing, isAnimating, carouselMode, is_playing, toAudio>>

OnHwMode(mode) ==
  /\ carouselMode' = mode
  /\ sets' = [s \in DOMAIN sets |-> [sets[s] EXCEPT !.mode = mode]]
  /\ UNCHANGED <<staged, currentSet, pendingRing, isAnimating, is_playing, toAudio>>

OnSelectStays(r) ==  \* mutant: no navigation to the set of the ring
  /\ pendingRing' = r
  /\ sets' = IF SetOf(r) < Len(sets)
             THEN [sets EXCEPT ![SetOf(r) + 1] =
                     [UiSelectRing(@, LocalOf(r)) EXCEPT !.slotSelected = LocalOf(r)]]
             ELSE sets
  /\ UNCHANGED <<staged, currentSet, isAnimating, carouselMode, is_playing, toAudio>>

OnSelect(r) ==
  /\ pendingRing' = r
  /\ IF SetOf(r) < Len(sets)
     THEN /\ currentSet' = SetOf(r)
          /\ sets' = [sets EXCEPT ![SetOf(r) + 1] =
                        [UiSelectRing(@, LocalOf(r)) EXCEPT !.slotSelected = LocalOf(r)]]
     ELSE UNCHANGED <<currentSet, sets>>
  /\ UNCHANGED <<staged, isAnimating, carouselMode, is_playing, toAudio>>

(* rebuildFromData of the carousel                                         *)
NumSets == LET n == (Len(staged) + RingsPerSet - 1) \div RingsPerSet
           IN  IF n <= MaxSets THEN n ELSE MaxSets

OnReady ==
  LET slot(s) ==
        LET kept == IF s <= Len(sets) THEN sets[s] ELSE EmptySet
            left == Len(staged) - FirstRing(s - 1)
        IN  Populated([kept EXCEPT !.ringCount = IF left < RingsPerSet THEN left ELSE RingsPerSet],
                      s - 1, staged)
      filled == [s \in 1 .. NumSets |-> slot(s)]
      restores == /\ pendingRing # NoRing
                  /\ SetOf(pendingRing) < NumSets
                  /\ LocalOf(pendingRing) < filled[SetOf(pendingRing) + 1].ringCount
      chosen(s) ==
        LET slotSelected == IF restores /\ SetOf(pendingRing) = s - 1
                            THEN LocalOf(pendingRing) ELSE filled[s].slotSelected
            last == filled[s].ringCount - 1
            ring == IF slotSelected > last THEN last ELSE slotSelected
        IN  UiSelectRing([filled[s] EXCEPT !.slotSelected = ring], ring)
      centre == IF restores THEN SetOf(pendingRing)
                ELSE IF currentSet >= NumSets /\ NumSets > 0 THEN 0 ELSE currentSet
  IN  /\ currentSet' = centre
      /\ sets' = IF NumSets = 0 THEN << >>
                 ELSE LaidOut([s \in 1 .. NumSets |-> chosen(s)], centre)
      /\ UNCHANGED <<staged, pendingRing, isAnimating, carouselMode, is_playing, toAudio>>

(***************************************************************************)
(* navigateLeft and navigateRight, once the new centre is known: write the *)
(* masks of both sets back, lay out, refill both sets, select again and    *)
(* tell the engine.                                                        *)
(***************************************************************************)
NavigateTo(centre) ==
  LET staging == Synced(Synced(staged, currentSet), centre)
      laidOut == LaidOut(sets, centre)
      refilled == [s \in DOMAIN sets |->
                     IF s - 1 \in {currentSet, centre}
                     THEN Populated(laidOut[s], s - 1, staging) ELSE laidOut[s]]
      ring == laidOut[centre + 1].slotSelected
  IN  /\ staged' = staging
      /\ currentSet' = centre
      /\ sets' = [refilled EXCEPT ![centre + 1] = UiSelectRing(@, ring)]
      /\ isAnimating' = TRUE
      /\ SendsToAudio([type |-> "POLY_SET_SELECTED_RING", ring |-> FirstRing(centre) + ring])
      /\ UNCHANGED <<pendingRing, carouselMode, is_playing>>

NavigateBy(n) ==
  IF isAnimating \/ Len(sets) <= 1
  THEN UNCHANGED guiVars
  ELSE NavigateTo((currentSet + n) % Len(sets))

NavigateLeft == NavigateBy(-1)
NavigateRight == NavigateBy(1)

HandleGui(m) ==
  \/ m.type = "PLAY_STATE" /\ OnPlayState(m.playing)
  \/ m.type = "POLY_PLAYHEAD" /\ OnPlayhead
  \/ m.type = "POLY_REBUILD" /\ OnRebuild
  \/ m.type = "POLY_RING" /\ OnRing
  \/ m.type = "POLY_RING_SHAPE" /\ OnRingShape(m.ring, m.shape)
  \/ m.type = "POLY_RING_TIMELINE" /\ OnRingTimeline(m.ring, m.timeline)
  \/ m.type = "POLY_RING_ACTIVE" /\ OnRingActive(m.ring, m.active)
  \/ m.type = "POLY_TOGGLE" /\ OnToggle(m.ring, m.point)
  \/ m.type = "POLY_SELECTED_POINT" /\ OnSelectedPoint(m.ring, m.point)
  \/ m.type = "POLY_HW_MODE" /\ OnHwMode(m.mode)
  \/ m.type = "POLY_NAV_LEFT" /\ NavigateLeft
  \/ m.type = "POLY_NAV_RIGHT" /\ NavigateRight
  \/ m.type = "POLY_SELECT" /\ OnSelect(m.ring)
  \/ m.type = "POLY_READY" /\ OnReady

-----------------------------------------------------------------------------
(* Touches and keys.  Only the set in the centre is interactive.           *)

Centre == sets[currentSet + 1]
GlobalOf(i) == FirstRing(currentSet) + i

(* A touch that only sends a message.                                      *)
Asks(m) == SendsToAudio(m) /\ UNCHANGED guiState

TouchDot(i, p) ==
  /\ i < Len(Centre.rings)
  /\ p < PointCount(Centre.rings[i + 1])
  /\ sets' = [sets EXCEPT ![currentSet + 1] = UiToggle(UiSelectPoint(@, i, p), i, p)]
  /\ SendsToAudio([type |-> "POLY_TOGGLE", ring |-> GlobalOf(i), point |-> p])
  /\ UNCHANGED <<staged, currentSet, pendingRing, isAnimating, carouselMode, is_playing>>

TouchRingLabel(i) ==
  /\ i < Len(Centre.rings)
  /\ sets' = [sets EXCEPT ![currentSet + 1] = [UiSelectRing(@, i) EXCEPT !.slotSelected = i]]
  /\ SendsToAudio([type |-> "POLY_SET_SELECTED_RING", ring |-> GlobalOf(i)])
  /\ UNCHANGED <<staged, currentSet, pendingRing, isAnimating, carouselMode, is_playing>>

(* The shape panel: one row per shape of the selected ring of the set.     *)
PanelShapes ==
  IF Centre.selected < Len(Centre.rings) THEN Centre.rings[Centre.selected + 1].shapes ELSE << >>

TouchAddShape ==
  Asks([type |-> "POLY_ADD_SHAPE", ring |-> GlobalOf(Centre.selected),
        subdivision |-> 4, offset |-> 0])

TouchRemoveShape(index) ==
  /\ index < Len(PanelShapes)
  /\ Asks([type |-> "POLY_REMOVE_SHAPE", ring |-> GlobalOf(Centre.selected), index |-> index])

(* onSubdivUp is capped at 32, onSubdivDown at 2.                          *)
TouchSubdivision(index, step, cap) ==
  LET shape == PanelShapes[index + 1]
      next == shape.subdivision + step
  IN  /\ index < Len(PanelShapes)
      /\ Asks([type |-> "POLY_MOD_SHAPE", ring |-> GlobalOf(Centre.selected), index |-> index,
               subdivision |-> IF step * next > step * cap THEN cap ELSE next,
               offset |-> shape.offset])

TouchRotate(amount) ==
  Asks([type |-> "POLY_ROTATE", ring |-> GlobalOf(Centre.selected), amount |-> amount])

TouchMode(mode) ==
  /\ sets' = [sets EXCEPT ![currentSet + 1].mode = mode]
  /\ SendsToAudio([type |-> "POLY_HW_MODE", mode |-> mode])
  /\ UNCHANGED <<staged, currentSet, pendingRing, isAnimating, carouselMode, is_playing>>

(* ENTER or the space bar (builds with SDL)                                *)
KeyPlay ==
  /\ is_playing' = ~ is_playing
  /\ sets' = [s \in DOMAIN sets |-> [sets[s] EXCEPT !.playing = is_playing']]
  /\ SendsToAudio([type |-> IF is_playing' THEN "PLAY" ELSE "PAUSE"])
  /\ UNCHANGED <<staged, currentSet, pendingRing, isAnimating, carouselMode>>

(* update(): some time after a navigation its animation is over.           *)
AnimationEnds ==
  /\ isAnimating
  /\ isAnimating' = FALSE
  /\ UNCHANGED <<staged, sets, currentSet, pendingRing, carouselMode, is_playing, toAudio>>

-----------------------------------------------------------------------------
(***************************************************************************)
(* The drawing code and the touch handlers index rings, points and masks   *)
(* without a check of their own.  Whatever part of a rebuild has arrived,  *)
(* and whatever was navigated or touched meanwhile, what a set shows is    *)
(* complete in itself: masks as long as their timelines, selections on     *)
(* them, and a centre that exists.                                         *)
(***************************************************************************)
SetsConsistent ==
  /\ sets # << >> => currentSet < Len(sets)
  /\ \A s \in DOMAIN sets :
       /\ Len(sets[s].points) = Len(sets[s].rings)
       /\ sets[s].selected < Len(sets[s].rings) \/ sets[s].rings = << >>
       /\ \A i \in DOMAIN sets[s].rings :
            /\ MaskFits(sets[s].rings[i])
            /\ InRange(sets[s].points[i], sets[s].rings[i])
=============================================================================
