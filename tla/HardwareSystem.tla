--------------------------- MODULE HardwareSystem ---------------------------
(***************************************************************************)
(* The hardware service and the engine, joined by the channel GUIToAudio.  *)
(* What the GUI sends to the engine comes in between; what the engine      *)
(* sends to the GUI is taken away at once, since nothing here reads it.    *)
(***************************************************************************)
EXTENDS AudioEngine, HardwareInput

CONSTANTS
  GuiSends,   (* the messages that the GUI may send                       *)
  MaxPending  (* bound: messages under way when a new one is sent         *)

(* "raw" lines that the engine would not understand are left out.          *)
ASSUME SendersAssumption ==
  /\ GuiSends \subseteq Command
  /\ Lines \subseteq [cmd : {"mode"}, mode : ServiceMode] \cup [cmd : {"send"}, message : Command]

VARIABLES
  playElsewhere, (* history: PLAY or PAUSE came from the GUI or the file  *)
  modeSent,      (* history: the last to set a mode was the service, and  *)
                 (* the message was accepted                              *)
  shapeElsewhere (* history: something else than the potentiometer may     *)
                (* have changed a shape, or its message was refused       *)

history == <<playElsewhere, modeSent, shapeElsewhere>>
hardwareSystemVars == <<engineVars, hardwareVars, history>>

HardwareSystemInit ==
  /\ EngineInit
  /\ HardwareInit
  /\ playElsewhere = FALSE
  /\ modeSent = FALSE
  /\ shapeElsewhere = FALSE

EngineTakes ==
  /\ toAudio # << >>
  /\ toGui = << >>
  /\ toAudio' = Tail(toAudio)
  /\ Handle(Head(toAudio))
  /\ UNCHANGED <<contacts, knob, readings, service, endpoint, owed, lag, history>>

GuiReads ==
  /\ GuiTakes
  /\ UNCHANGED <<hardwareVars, history>>

SetsPlay(m) == m.type \in {"PLAY", "PAUSE"}
SetsMode(m) == m.type = "POLY_HW_MODE"
SetsShape(m) ==
  m.type \in {"POLY_ENCODER_DELTA", "POLY_ADJUST_POINTS", "POLY_ADD_SHAPE",
              "POLY_REMOVE_SHAPE", "POLY_MOD_SHAPE"}

Sent == SubSeq(toAudio', Len(toAudio) + 1, Len(toAudio'))
AnySent(Kind(_)) == \E i \in DOMAIN Sent : Kind(Sent[i])

(* The GUI has the segment open from its start.                            *)
GuiSendsMessage(m) ==
  /\ endpoint
  /\ Len(toAudio) < MaxPending
  /\ toAudio' = Append(toAudio, m)
  /\ playElsewhere' = (playElsewhere \/ SetsPlay(m))
  /\ modeSent' = (modeSent /\ ~ SetsMode(m))
  /\ shapeElsewhere' = (shapeElsewhere \/ SetsShape(m))
  /\ UNCHANGED <<engineVars, contacts, knob, readings, service, endpoint, owed, lag>>

ServicePolls ==
  /\ Len(toAudio) < MaxPending
  /\ \E down \in [Buttons -> BOOLEAN], raw \in PotReadings \cup {Unread} : Poll(down, raw)
  /\ modeSent' = \/ AnySent(SetsMode)
                 \/ modeSent /\ encoderMode' = encoderMode
  /\ shapeElsewhere' = \/ shapeElsewhere
                       \/ \E i \in DOMAIN Sent : Sent[i].type = "POLY_ENCODER_DELTA"
                       \/ lastMapped' # lastMapped /\ ~ endpoint
  /\ UNCHANGED <<engineVars, playElsewhere>>

ServiceReadsLine(line) ==
  /\ Len(toAudio) < MaxPending
  /\ CommandLine(line)
  /\ playElsewhere' = (playElsewhere \/ AnySent(SetsPlay))
  /\ modeSent' = \/ line.cmd = "mode" /\ endpoint
                 \/ modeSent /\ encoderMode' = encoderMode /\ ~ AnySent(SetsMode)
  /\ shapeElsewhere' = (shapeElsewhere \/ AnySent(SetsShape))
  /\ UNCHANGED engineVars

OutsideActs ==
  /\ UserActs \/ SegmentAppears
  /\ UNCHANGED <<engineVars, history>>

HardwareSystemNext ==
  \/ EngineTakes
  \/ GuiReads
  \/ \E m \in GuiSends : GuiSendsMessage(m)
  \/ ServicePolls
  \/ \E line \in Lines : ServiceReadsLine(line)
  \/ OutsideActs

HardwareSystemSpec == HardwareSystemInit /\ [][HardwareSystemNext]_hardwareSystemVars

(* Both loops go round for ever: the worker polls, the engine takes its    *)
(* messages and the GUI its own.                                           *)
HardwareSystemFairSpec ==
  /\ HardwareSystemSpec
  /\ WF_hardwareSystemVars(ServicePolls)
  /\ WF_hardwareSystemVars(EngineTakes)
  /\ WF_hardwareSystemVars(GuiReads)

-----------------------------------------------------------------------------
Quiet == toAudio = << >>

(***************************************************************************)
(* The service keeps a play state of its own to choose between PLAY and    *)
(* PAUSE.  As long as nobody else plays or pauses it is the engine's, also *)
(* when a message could not be sent: a press always changes what is heard. *)
(***************************************************************************)
PlayButtonToggles == Quiet /\ ~ playElsewhere => playingState = isPlaying

(***************************************************************************)
(* After a mode button, or a mode command, whose message was accepted the  *)
(* knob acts in the mode the service believes it is in.                    *)
(***************************************************************************)
ModeIsSynced == Quiet /\ modeSent => hardwareMode = encoderMode

(* What the service remembers of the engine is so.                         *)
ServiceMirrorsEngine == PlayButtonToggles /\ ModeIsSynced

(***************************************************************************)
(* As long as nothing else changes shapes, the first shape of the ring of  *)
(* the potentiometer has the subdivision last derived from it.             *)
(***************************************************************************)
PotSetsShape ==
  Quiet /\ ~ shapeElsewhere /\ lastMapped # Unread /\ PotRing \in Ring
    => rings[PotRing].shapes[1].subdivision = lastMapped

(***************************************************************************)
(* start() calls the sync of the initial mode "pending" when the segment   *)
(* is not there yet.  Once it is, the engine gets to know the mode.        *)
(***************************************************************************)
InitialModeArrives == endpoint ~> hardwareMode = encoderMode
=============================================================================
