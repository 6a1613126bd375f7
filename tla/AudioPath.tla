----------------------------- MODULE AudioPath -----------------------------
(***************************************************************************)
(* The loop of AudioEngine::start() with the audio graph that initialize() *)
(* builds: the rings, which turn the points of one buffer into note        *)
(* events, the sampler they are connected to, and the audio output.        *)
(*                                                                         *)
(* One thread does it all: the messages are handled first, then, while     *)
(* playing, every module processes one buffer.  A buffer is Span ticks     *)
(* long.  The note of a ring is the ring itself (the sixteen notes of      *)
(* initialize() are distinct).  The offset that an event carries within    *)
(* its buffer is left out: no module reads it.                             *)
(***************************************************************************)
EXTENDS AudioEngine, Sampler

CONSTANTS
  Span,    (* ticks of the cycle that pass in one buffer                  *)
  Watched  (* the ring whose points are counted                           *)

(* At 120 BPM and four beats per cycle a buffer is 1/187 of a cycle.       *)
(* initialize() makes sixteen rings, and a sampler has sixteen voices.     *)
ASSUME AudioPathAssumption ==
  /\ Span \in 1 .. Ticks - 1
  /\ NumRings <= NumVoices
  /\ Note = Ring
  /\ Watched \in Ring

VARIABLES
  phase,       (* per ring, _phase                                        *)
  voices,      (* _voices of the sampler                                  *)
  travelled,   (* history: ticks since the timeline of the watched ring   *)
               (* changed, whole cycles left out                          *)
  scanned,     (* history: points found on it since then, less one full   *)
               (* timeline for every whole cycle                          *)
  emptied      (* history: a buffer was processed while some ring had no  *)
               (* point                                                   *)

histories == <<travelled, scanned, emptied>>
audioPathVars == <<engineVars, phase, voices, histories>>

AudioPathInit ==
  /\ EngineInit
  /\ phase = [r \in Ring |-> 0]
  /\ voices = SilentPool
  /\ travelled = 0
  /\ scanned = 0
  /\ emptied = FALSE

-----------------------------------------------------------------------------
(***************************************************************************)
(* PolyRhythmModule::process: the window [_phase, _phase + bufferSpan) and *)
(* the timeline points in it.  A ring without points does nothing at all.  *)
(***************************************************************************)
Idle(r) == rings[r].timeline = {}

HitClosed(r, p) ==  \* mutant: the window includes its end
  LET end == phase[r] + Span
  IN  IF end >= Ticks
      THEN p >= phase[r] \/ p <= end % Ticks
      ELSE p >= phase[r] /\ p <= end

Hit(r, p) ==
  LET end == phase[r] + Span
  IN  IF end >= Ticks
      THEN p >= phase[r] \/ p < end % Ticks
      ELSE p >= phase[r] /\ p < end

Hits(r) == {p \in rings[r].timeline : Hit(r, p)}

AdvanceUnlessSilent(r) ==  \* mutant: a ring without active points stops too
  IF Idle(r) \/ \A i \in DOMAIN rings[r].active : ~ rings[r].active[i]
  THEN phase[r] ELSE (phase[r] + Span) % Ticks

Advance(r) == IF Idle(r) THEN phase[r] ELSE (phase[r] + Span) % Ticks

(* The timeline is scanned in its order, also when the window wraps.       *)
SortedTimeline(r) == SetToSortSeq(rings[r].timeline, <)

IsActive(r, i) == i \in DOMAIN rings[r].active /\ rings[r].active[i]

EventsOf(r) ==
  LET At(i) == IF Hit(r, SortedTimeline(r)[i]) /\ IsActive(r, i)
               THEN <<NoteOn(r), NoteOff(r)>> ELSE << >>
  IN  FlattenSeq([i \in 1 .. PointCount(rings[r]) |-> At(i)])

(* The execution order runs from the last ring to the first, then comes    *)
(* the sampler.                                                            *)
SamplerPort == FlattenSeq([i \in 1 .. NumRings |-> EventsOf(NumRings - i)])

PlayheadMsg == [type |-> "POLY_PLAYHEAD"]

(* The end of one pass of the loop, while playing.                         *)
ProcessBuffer ==
  /\ isPlaying
  /\ toGui = << >>
  /\ phase' = [r \in Ring |-> Advance(r)]
  /\ voices' = SamplerProcessed(voices, SamplerPort)
  /\ toGui' = <<PlayheadMsg>>
  /\ IF Idle(Watched)
     THEN UNCHANGED <<travelled, scanned>>
     ELSE LET whole == IF travelled + Span >= Ticks THEN 1 ELSE 0
          IN  /\ travelled' = travelled + Span - whole * Ticks
              /\ scanned' = scanned + Cardinality(Hits(Watched))
                              - whole * PointCount(rings[Watched])
  /\ emptied' = (emptied \/ \E r \in Ring : Idle(r))
  /\ UNCHANGED engineState

(* One message of the loop's beginning.                                    *)
HandleMessage ==
  /\ EngineNext
  /\ IF rings'[Watched].timeline = rings[Watched].timeline
     THEN UNCHANGED <<travelled, scanned>>
     ELSE travelled' = 0 /\ scanned' = 0
  /\ UNCHANGED <<phase, voices, emptied>>

AudioPathNext == ProcessBuffer \/ HandleMessage

AudioPathSpec == AudioPathInit /\ [][AudioPathNext]_audioPathVars

-----------------------------------------------------------------------------
(***************************************************************************)
(* However buffers fall on the cycle and wherever the window wraps, every  *)
(* point of a ring is found exactly once in every cycle: none is skipped   *)
(* at the border of two buffers or at the end of the cycle, none is played *)
(* twice.                                                                  *)
(***************************************************************************)
OncePerCycle ==
  LET start == phase[Watched] - travelled
  IN  scanned = Cardinality({p \in rings[Watched].timeline :
                               (p - start) % Ticks < travelled})

(***************************************************************************)
(* A NOTE_OFF follows every NOTE_ON at once, and both reach the sampler    *)
(* before it plays.  A ring with an active point in the buffer is heard    *)
(* all the same, from the start of its sample, also when a voice still     *)
(* plays its last hit and the pool is as small as the number of rings.     *)
(***************************************************************************)
Fires(r) ==
  /\ phase'[r] # phase[r]
  /\ \E i \in 1 .. PointCount(rings[r]) : Hit(r, SortedTimeline(r)[i]) /\ IsActive(r, i)

Begun(n) == MixVoice(Playing(n, 0))

HitsAreHeard ==
  [][\A r \in DOMAIN SampleSize :
       Fires(r) => \E v \in VoiceIndex : voices'[v] = Begun(r)]_audioPathVars

(***************************************************************************)
(* Hits of one ring neither pile up voices nor starve the others: no two   *)
(* voices play one note.                                                   *)
(***************************************************************************)
OneVoicePerNote ==
  \A v, w \in VoiceIndex :
    voices[v] # Free /\ voices[v].noteNumber = voices[w].noteNumber => v = w

(***************************************************************************)
(* A sample rings out: a voice stops before the end of its sample only     *)
(* because its own ring was hit again, whatever the others play and        *)
(* whatever is edited meanwhile.  This is what the code does, not what     *)
(* PolyRhythmModule::process says of it: the NOTE_OFF it sends after each  *)
(* NOTE_ON is read before it (InputPort::get takes the last signal first), *)
(* so it ends the hit before and never its own.                            *)
(***************************************************************************)
SamplesRingOut ==
  [][\A v \in VoiceIndex :
       LET n == voices[v].noteNumber
       IN  /\ voices[v] # Free
           /\ voices[v].playbackPosition + Grains <= SampleSize[n]
           /\ ~ Fires(n)
           => voices'[v].noteNumber = n]_audioPathVars

(***************************************************************************)
(* "NOTE_OFF, short hit" (PolyRhythmModule::process): a quarter of a       *)
(* buffer after its hit, so no voice plays beyond the buffer that follows. *)
(* Not so: SamplesRingOut says what happens instead.                       *)
(***************************************************************************)
HitsAreShort == \A v \in VoiceIndex : voices[v].playbackPosition <= Grains

(***************************************************************************)
(* The engine sends the phase of the first ring as the playhead of all,    *)
(* "all modules share the same BPM": they do keep in step as long as none  *)
(* is processed while it has no point.                                     *)
(***************************************************************************)
RingsInStep == \A r, q \in Ring : phase[r] = phase[q]

RingsInStepUnlessEmptied == emptied \/ RingsInStep
=============================================================================
