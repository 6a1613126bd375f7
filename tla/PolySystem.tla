----------------------------- MODULE PolySystem -----------------------------
(***************************************************************************)
(* The engine, the GUI and the hardware service, joined by the two         *)
(* channels.  A channel keeps the order of what its users send and loses   *)
(* nothing it accepted (SharedMemory implements MessageChannel), so each   *)
(* direction is a queue: what is in the slot, in the MessageQueue of the   *)
(* receiver or still to be sent by a sender that waits for the slot.       *)
(***************************************************************************)
EXTENDS AudioEngine, PolyCarousel

CONSTANTS
  Touches,      (* the kinds of touch and key that the user may make      *)
  MaxTouches,   (* bound: how many of them                                *)
  Commands,     (* the messages the hardware service may send             *)
  MaxCommands   (* bound: how many of them                                *)

ASSUME SystemAssumption ==
  /\ Commands \subseteq Command
  /\ NumRings <= MaxSets * RingsPerSet  (* the 16 rings fit in the 5 sets of 4 *)

VARIABLES
  connected,    (* whether the GUI has sent GET_INITIAL_SETUP             *)
  touches,      (* how many touches and keys there were                   *)
  commands,     (* how many messages the hardware service sent            *)
  overtaken,    (* history: a point was touched or a navigation key       *)
                (* pressed while messages were under way, or the hardware *)
                (* service sent a POLY_TOGGLE of its own                  *)
  unannounced   (* history: the engine selected another ring on a         *)
                (* POLY_TOGGLE, and has sent no POLY_SELECT since         *)

systemVars == <<engineVars, guiVars, connected, touches, commands, overtaken, unannounced>>

SystemInit ==
  /\ EngineInit
  /\ CarouselInit
  /\ toAudio = << >>
  /\ connected = FALSE
  /\ touches = 0
  /\ commands = 0
  /\ overtaken = FALSE
  /\ unannounced = FALSE

UnderWay == toAudio # << >> \/ toGui # << >>

GuiStarts ==
  /\ ~ connected
  /\ connected' = TRUE
  /\ SendsToAudio([type |-> "GET_INITIAL_SETUP"])
  /\ UNCHANGED <<engineVars, guiState, touches, commands, overtaken, unannounced>>

GuiHandles ==
  /\ connected
  /\ toGui # << >>
  /\ HandleGui(Head(toGui))
  /\ toGui' = Tail(toGui)
  /\ UNCHANGED <<engineState, connected, touches, commands, overtaken, unannounced>>

Announces(batch) == \E i \in DOMAIN batch : batch[i].type = "POLY_SELECT"

EngineHandles ==
  /\ toAudio # << >>
  /\ toAudio' = Tail(toAudio)
  /\ Handle(Head(toAudio))
  /\ unannounced' = /\ \/ unannounced
                       \/ Head(toAudio).type = "POLY_TOGGLE" /\ selectedRing' # selectedRing
                    /\ ~ Announces(SubSeq(toGui', Len(toGui) + 1, Len(toGui')))
  /\ UNCHANGED <<guiState, connected, touches, commands, overtaken>>

(* At the end of each pass of its loop a playing engine sends the playhead; *)
(* bound: one of them under way at a time.                                 *)
EnginePlays ==
  /\ isPlaying
  /\ \A i \in DOMAIN toGui : toGui[i].type # "POLY_PLAYHEAD"
  /\ SendsToGui(<<[type |-> "POLY_PLAYHEAD"]>>)
  /\ UNCHANGED <<engineState, guiVars, connected, touches, commands, overtaken, unannounced>>

(* What a touch can act on exists once the sets do; a key needs no set.    *)
Touch(kind) ==
  \/ kind = "dot" /\ \E i \in 0 .. RingsPerSet - 1, p \in 0 .. 1 : TouchDot(i, p)
  \/ kind = "label" /\ \E i \in 0 .. RingsPerSet - 1 : TouchRingLabel(i)
  \/ kind = "add" /\ TouchAddShape
  \/ kind = "remove" /\ \E index \in 0 .. MaxShapes : TouchRemoveShape(index)
  \/ kind = "up" /\ \E index \in 0 .. MaxShapes : TouchSubdivision(index, 1, MaxSubdivision)
  \/ kind = "down" /\ \E index \in 0 .. MaxShapes : TouchSubdivision(index, -1, 2)
  \/ kind = "rotate" /\ \E amount \in {1, -1} : TouchRotate(amount)
  \/ kind = "mode" /\ \E mode \in HardwareMode : TouchMode(mode)

Key(kind) ==
  \/ kind = "left" /\ NavigateLeft
  \/ kind = "right" /\ NavigateRight
  \/ kind = "play" /\ KeyPlay

UserActs(kind) ==
  /\ connected
  /\ touches < MaxTouches
  /\ touches' = touches + 1
  /\ (sets # << >> /\ Touch(kind)) \/ Key(kind)
  /\ overtaken' = (overtaken \/ (UnderWay /\ kind \in {"dot", "left", "right"}))
  /\ UNCHANGED <<engineVars, connected, commands, unannounced>>

(* A POLY_TOGGLE comes from a "toggle" or "raw" line of the command file,  *)
(* never from the encoder: the GUI has not toggled the point and hears     *)
(* nothing of it from the engine.                                          *)
HardwareSends(m) ==
  /\ commands < MaxCommands
  /\ commands' = commands + 1
  /\ SendsToAudio(m)
  /\ overtaken' = (overtaken \/ m.type = "POLY_TOGGLE")
  /\ UNCHANGED <<engineVars, guiState, connected, touches, unannounced>>

AnimationPasses ==
  /\ AnimationEnds
  /\ UNCHANGED <<engineVars, connected, touches, commands, overtaken, unannounced>>

SystemNext ==
  \/ GuiStarts
  \/ GuiHandles
  \/ EngineHandles
  \/ EnginePlays
  \/ \E kind \in Touches : UserActs(kind)
  \/ \E m \in Commands : HardwareSends(m)
  \/ AnimationPasses

SystemSpec == SystemInit /\ [][SystemNext]_systemVars

-----------------------------------------------------------------------------
(* Nothing is under way and the GUI shows what it was told.                *)
Settled == connected /\ sets # << >> /\ ~ UnderWay

Shown(r) == sets[SetOf(r) + 1].rings[LocalOf(r) + 1]

(***************************************************************************)
(* POLY_REBUILD .. POLY_READY: once everything has arrived every ring is   *)
(* shown, in its set, with the shapes and the timeline that the engine     *)
(* plays, whatever edits crossed each other and whatever navigation fell   *)
(* between two messages of a rebuild.                                      *)
(***************************************************************************)
ShapesAgree ==
  Settled => \A r \in Ring : /\ Shown(r).shapes = rings[r].shapes
                             /\ Shown(r).timeline = rings[r].timeline

(***************************************************************************)
(* Toggles are applied twice, by the GUI at once and by the engine later,  *)
(* and navigation copies masks back.  As long as the user touches points   *)
(* and navigates only while nothing is under way, both ends agree on every *)
(* point of every ring, whatever the hardware sends meanwhile, except a    *)
(* POLY_TOGGLE, which only the GUI is expected to send.                    *)
(***************************************************************************)
MasksAgreeUnlessOvertaken ==
  Settled /\ ~ overtaken => \A r \in Ring : Shown(r).active = rings[r].active

(* The same without the proviso: navigateLeft says it keeps the user's     *)
(* toggles, and POLY_READY that all ring data was received.                *)
MasksAgree == Settled => \A r \in Ring : Shown(r).active = rings[r].active

(* Play and pause from the keyboard, the hardware and the engine's own     *)
(* echoes cross; in the end the GUI believes what the engine does.         *)
PlayStateAgrees == Settled => is_playing = isPlaying

(* setPlaying is forwarded to the sets: each set's playhead moves exactly  *)
(* while the engine plays.                                                 *)
PlayheadsMove == Settled => \A s \in DOMAIN sets : sets[s].playing = isPlaying

(* The mode buttons of every set show the mode the encoder acts in.        *)
ModesAgree == Settled => \A s \in DOMAIN sets : sets[s].mode = hardwareMode

ShownSelection == FirstRing(currentSet) + Centre.selected

(***************************************************************************)
(* The shape panel edits the ring it shows and the encoder the one the     *)
(* engine has selected.  They are the same ring, unless the engine took a  *)
(* ring from POLY_TOGGLE and has not announced a selection since.          *)
(***************************************************************************)
SelectionAgreesUnlessUnannounced ==
  Settled /\ ~ unannounced
    => ShownSelection = selectedRing /\ Centre.slotSelected = Centre.selected

(* The same without the proviso: the panel shows the selected ring.        *)
SelectionAgrees == Settled => ShownSelection = selectedRing

(* The point highlighted on the selected ring is the one a click toggles.  *)
SelectedPointAgrees ==
  Settled /\ ~ unannounced => Centre.points[Centre.selected + 1] = selectedPoints[selectedRing]
=============================================================================
