--------------------------- MODULE InstrumentPath ---------------------------
(***************************************************************************)
(* An instrument and the modules that can be connected to its event input: *)
(* StepSequencerModule, ArpegiatorModule and EventEmitter.  One step is    *)
(* one pass through the graph: the three put their events into the port,   *)
(* then the instrument processes a buffer.  The sequencer counts samples;  *)
(* the other two look at the clock, so that they may fire at any pass.     *)
(***************************************************************************)
EXTENDS Instrument

CONSTANTS
  Tracks,          (* of the sequencer: a sequence of notes and patterns  *)
  StepCount,       (* "Step Count"                                        *)
  BufferSize,      (* samples by which the sequencer counts a buffer      *)
  SamplesPerStep,  (* sample rate / (steps per second)                    *)
  ArpSequences,    (* the values that "NoteSequence" is given             *)
  IndexPeriod,     (* bound: noteIndex is counted modulo this, a multiple *)
                   (* of the length of every sequence                     *)
  EmitterNote      (* "Note" of the emitter                               *)

ASSUME InstrumentPathAssumption ==
  /\ StepCount \in Nat \ {0}
  /\ BufferSize \in Nat \ {0}
  /\ SamplesPerStep \in Nat
  /\ Tracks \in Seq([note : Nat, pattern : [1 .. StepCount -> BOOLEAN]])
  /\ EmitterNote \in Nat
  /\ ArpSequences \subseteq Seq(Nat)
  /\ IndexPeriod \in Nat \ {0}
  /\ \A s \in ArpSequences \ {<< >>} : IndexPeriod % Len(s) = 0

VARIABLES
  pool,         (* of the instrument                                      *)
  currentStep,  (* of the sequencer                                       *)
  counter,      (* its _sampleCounter                                     *)
  firstProcess, (* its _isFirstProcess                                    *)
  sequence,     (* of the arpeggiator: its notes                          *)
  noteIndex,    (* its _currentNoteIndex                                  *)
  lastNote,     (* its _lastNote                                          *)
  emitterOn     (* _isOn of the emitter                                   *)

sequencer == <<currentStep, counter, firstProcess>>
arpegiator == <<sequence, noteIndex, lastNote>>
pathVars == <<pool, sequencer, arpegiator, emitterOn>>

PathInit ==
  /\ pool = SilentPool
  /\ currentStep = 0
  /\ counter = 0
  /\ firstProcess = TRUE
  /\ sequence \in ArpSequences
  /\ noteIndex = 0
  /\ lastNote = -1
  /\ emitterOn = FALSE

-----------------------------------------------------------------------------
(* StepSequencerModule::process: the events of a step.                     *)
HitLeftOn(n) == <<NoteOn(n)>>  \* mutant: a hit lasts until someone ends it
Hit(n) == <<NoteOn(n), NoteOff(n)>>

StepEvents(step) ==
  FlattenSeq([i \in DOMAIN Tracks |->
                IF Tracks[i].pattern[step + 1] THEN Hit(Tracks[i].note) ELSE << >>])

StepIsOverLate == counter > SamplesPerStep  \* mutant: looks before it counts
StepIsOver == counter + BufferSize >= SamplesPerStep

SequencerEvents ==
  (IF firstProcess THEN StepEvents(currentStep) ELSE << >>)
    \o (IF StepIsOver THEN StepEvents(currentStep') ELSE << >>)

SequencerProcesses ==
  /\ firstProcess' = FALSE
  /\ counter' = IF StepIsOver THEN 0 ELSE counter + BufferSize
  /\ currentStep' = IF StepIsOver THEN (currentStep + 1) % StepCount ELSE currentStep

(* ArpegiatorModule::process, when its interval is over.                   *)
ArpNote == sequence[(noteIndex % Len(sequence)) + 1]

ArpOffIfOther(n) ==  \* mutant: a note that is repeated is not ended
  IF lastNote \notin {-1, n} THEN <<NoteOff(lastNote)>> ELSE << >>

ArpOff(n) == IF lastNote # -1 THEN <<NoteOff(lastNote)>> ELSE << >>

ArpEvents == IF sequence = << >> THEN << >> ELSE ArpOff(ArpNote) \o <<NoteOn(ArpNote)>>

ArpProcesses ==
  /\ IF sequence = << >>
     THEN UNCHANGED <<noteIndex, lastNote>>
     ELSE noteIndex' = (noteIndex + 1) % IndexPeriod /\ lastNote' = ArpNote
  /\ UNCHANGED sequence

(* EventEmitter::process, when its time is over.                           *)
EmitterEvents == <<IF emitterOn THEN NoteOff(EmitterNote) ELSE NoteOn(EmitterNote)>>

(* What the instrument reads in a pass.                                    *)
Port(arpFires, emitterFires) ==
  SequencerEvents \o (IF arpFires THEN ArpEvents ELSE << >>)
                  \o (IF emitterFires THEN EmitterEvents ELSE << >>)

Pass ==
  \E arpFires, emitterFires \in BOOLEAN :
    /\ arpFires => ~ firstProcess  \* its first call only starts its clock
    /\ SequencerProcesses
    /\ IF arpFires THEN ArpProcesses ELSE UNCHANGED arpegiator
    /\ emitterOn' = IF emitterFires THEN ~ emitterOn ELSE emitterOn
    /\ pool' \in Processed(pool, Port(arpFires, emitterFires))

(* SetParameterCommand for "NoteSequence": _currentNoteIndex goes on.      *)
SetSequence ==
  /\ sequence' \in ArpSequences \ {sequence}
  /\ UNCHANGED <<pool, sequencer, noteIndex, lastNote, emitterOn>>

PathNext == Pass \/ SetSequence

PathSpec == PathInit /\ [][PathNext]_pathVars

-----------------------------------------------------------------------------
Notes ==
  {Tracks[i].note : i \in DOMAIN Tracks} \cup {EmitterNote}
    \cup UNION {ToSet(s) : s \in ArpSequences}

VoiceType == [state : VoiceState, noteNumber : Notes, stage : Stage] \cup {Free}

PathTypeOK ==
  /\ pool \in [voices : [VoiceIndex -> VoiceType], active : Seq(VoiceIndex)]
  /\ currentStep \in 0 .. StepCount - 1
  /\ counter \in 0 .. SamplesPerStep
  /\ firstProcess \in BOOLEAN
  /\ sequence \in ArpSequences
  /\ noteIndex \in 0 .. IndexPeriod - 1
  /\ lastNote \in Notes \cup {-1}
  /\ emitterOn \in BOOLEAN

Held(n) == {v \in VoiceIndex : Holds(pool.voices[v], n)}

(***************************************************************************)
(* Voices are neither lost nor handed out twice: a voice that plays is     *)
(* listed among the active ones, and none is listed twice, although a      *)
(* voice can be given back and stay listed until the next buffer.          *)
(***************************************************************************)
VoicesAccountedFor ==
  /\ VoiceIndex \ FreeVoices(pool) \subseteq ToSet(pool.active)
  /\ Len(pool.active) = Cardinality(ToSet(pool.active))

(***************************************************************************)
(* Hits of the sequencer neither pile up nor cut each other off: the       *)
(* NOTE_OFF that follows a NOTE_ON is read before it and ends the last hit *)
(* of that note, so that one voice at most is held for it.                 *)
(***************************************************************************)
SequencerHoldsOneVoice ==
  \A i \in DOMAIN Tracks : Cardinality(Held(Tracks[i].note)) <= 1

(***************************************************************************)
(* The arpeggiator never leaves a note hanging: of its notes at most one   *)
(* is held, the one it sent last, also when its sequence has changed.      *)
(***************************************************************************)
ArpHoldsOneNote ==
  \A n \in UNION {ToSet(s) : s \in ArpSequences} :
    Cardinality(Held(n)) <= (IF n = lastNote THEN 1 ELSE 0)

(* Neither of the two sources piles up voices.                             *)
NotesDoNotPileUp == SequencerHoldsOneVoice /\ ArpHoldsOneNote

(***************************************************************************)
(* A hit of the sequencer and a new note of the arpeggiator are heard: a   *)
(* voice is free for them, since released ones are given back in time.  A  *)
(* note that the arpeggiator repeats is not: the NOTE_OFF for its last     *)
(* note is read after the NOTE_ON and silences it.                         *)
(***************************************************************************)
Sounds(voices, n) == \E v \in VoiceIndex : Holds(voices[v], n)

NotesAreHeard ==
  [][/\ currentStep' # currentStep =>
          \A i \in DOMAIN Tracks :
            Tracks[i].pattern[currentStep' + 1] => Sounds(pool'.voices, Tracks[i].note)
     /\ lastNote' # lastNote => Sounds(pool'.voices, lastNote')]_pathVars

(***************************************************************************)
(* The envelope of a voice follows the note of that voice, whatever the    *)
(* voices processed before it do: while the note is held it goes through   *)
(* attack, decay and sustain in this order and once.                       *)
(***************************************************************************)
Rank == [s \in Stage |-> CASE s = "ATTACK" -> 1 [] s = "DECAY" -> 2 [] s = "SUSTAIN" -> 3
                           [] OTHER -> 0]

EnvelopeFollowsNote ==
  [][\A v \in VoiceIndex :
       LET before == pool.voices[v]
           after == pool'.voices[v]
       IN  after.state = "ACTIVE" =>
             /\ Rank[after.stage] > 0
             /\ before.state = "ACTIVE" => Rank[before.stage] <= Rank[after.stage]]_pathVars
=============================================================================
