----------------------------- MODULE Instrument -----------------------------
(***************************************************************************)
(* Instrument::process with its VoiceManager: each note that is on plays   *)
(* on a voice of its own, a clone of the instrument's graph.  Of that      *)
(* graph the model keeps the stage of an ADSRModule (EnvelopeModule goes   *)
(* through the same stages); the sound is left out.                        *)
(*                                                                         *)
(* What a voice holds is read only while it is active or released: an      *)
(* inactive voice is Free.                                                 *)
(***************************************************************************)
EXTENDS Ports, Lists

CONSTANTS
  NumVoices,    (* 16: the size of the pool                               *)
  HasAudioOut,  (* the graph has an "instrument_audio_out" module, which  *)
                (* always sends a signal                                  *)
  Samples       (* samples of one buffer, as far as stages are concerned  *)

ASSUME InstrumentAssumption ==
  /\ NumVoices \in Nat \ {0}
  /\ HasAudioOut \in BOOLEAN
  /\ Samples \in Nat \ {0}

VoiceIndex == 1 .. NumVoices
Stage == {"OFF", "ATTACK", "DECAY", "SUSTAIN", "RELEASE"}
VoiceState == {"INACTIVE", "ACTIVE", "RELEASED"}

Free == [state |-> "INACTIVE", noteNumber |-> -1, stage |-> "OFF"]

(* A clone of the graph starts with its envelopes OFF.                     *)
Started(n) == [state |-> "ACTIVE", noteNumber |-> n, stage |-> "OFF"]

(* The pool: _voices, and the indexes of _activeVoices.                    *)
SilentPool == [voices |-> [v \in VoiceIndex |-> Free], active |-> << >>]

FreeVoices(pool) == {v \in VoiceIndex : pool.voices[v].state = "INACTIVE"}
FindFreeVoice(pool) ==
  CHOOSE v \in FreeVoices(pool) : \A w \in FreeVoices(pool) : v <= w

NoteOnVoice(pool, n) ==
  IF FreeVoices(pool) = {}
  THEN pool
  ELSE [voices |-> [pool.voices EXCEPT ![FindFreeVoice(pool)] = Started(n)],
        active |-> Append(pool.active, FindFreeVoice(pool))]

Holds(voice, n) == voice.state = "ACTIVE" /\ voice.noteNumber = n

Ended(pool, n) == {v \in ToSet(pool.active) : Holds(pool.voices[v], n)}

NoteOffVoice(pool, n) ==
  LET released(v) == [pool.voices[v] EXCEPT !.state = "RELEASED"]
  IN  [pool EXCEPT !.voices = [v \in VoiceIndex |->
         IF v \in Ended(pool, n) THEN released(v) ELSE pool.voices[v]]]

KeepInactiveVoices(pool) == pool  \* mutant: nothing leaves _activeVoices

RemoveInactiveVoices(pool) ==
  [pool EXCEPT !.active = Keep(@, VoiceIndex \ FreeVoices(pool))]

HandleEvent(pool, e) ==
  IF e.kind = "NOTE_ON" THEN NoteOnVoice(pool, e.note) ELSE NoteOffVoice(pool, e.note)

(***************************************************************************)
(* ADSRModule::process, sample by sample: the note decides first, then the *)
(* stage may come to its end.  When it does depends on the times that the  *)
(* parameters give: it may at any sample.                                  *)
(***************************************************************************)
Begun(stage, isNoteOn) ==
  IF isNoteOn /\ stage = "OFF" THEN "ATTACK"
  ELSE IF ~ isNoteOn /\ stage \notin {"RELEASE", "OFF"} THEN "RELEASE"
  ELSE stage

Following ==
  [s \in Stage |-> CASE s = "ATTACK" -> "DECAY" [] s = "DECAY" -> "SUSTAIN"
                     [] s = "RELEASE" -> "OFF" [] OTHER -> s]

AfterSample(stages, isNoteOn) ==
  UNION {{Begun(s, isNoteOn), Following[Begun(s, isNoteOn)]} : s \in stages}

AfterBuffer(stage, isNoteOn) ==
  LET after[i \in 0 .. Samples] ==
        IF i = 0 THEN {stage} ELSE AfterSample(after[i - 1], isNoteOn)
  IN  after[Samples]

IsNoteOnOfFirst(pool, v) ==  \* mutant: the flag of the first voice stays in the context
  pool.voices[Head(pool.active)].state = "ACTIVE"

(* context.isNoteOn while the graph of voice v is processed.               *)
IsNoteOn(pool, v) == pool.voices[v].state = "ACTIVE"

AfterSignalReleased(voice) == voice  \* mutant: a released voice is not given back

(* A released voice is given back as soon as its graph has put out a       *)
(* signal, wherever its envelope is.                                       *)
AfterSignal(voice) ==
  IF voice.state = "RELEASED" /\ HasAudioOut THEN Free ELSE voice

(* The loop over the active voices: what may come of each pool when the    *)
(* graph of voice v is processed.                                          *)
Plays(voice, s) == AfterSignal([voice EXCEPT !.stage = s])

ProcessVoice(pools, v) ==
  UNION {{[p EXCEPT !.voices = [w \in VoiceIndex |->
             IF w = v THEN Plays(p.voices[v], s) ELSE p.voices[w]]] :
           s \in AfterBuffer(p.voices[v].stage, IsNoteOn(p, v))} : p \in pools}

VoicesProcessed(pool) ==
  LET after[i \in 0 .. Len(pool.active)] ==
        IF i = 0 THEN {pool} ELSE ProcessVoice(after[i - 1], pool.active[i])
  IN  after[Len(pool.active)]

EventsHandled(pool, events) ==
  LET after[i \in 0 .. Len(events)] ==
        IF i = 0 THEN pool ELSE HandleEvent(after[i - 1], events[i])
  IN  after[Len(events)]

(* What may come of the pool when the instrument processes these events.   *)
Processed(pool, port) ==
  VoicesProcessed(EventsHandled(RemoveInactiveVoices(pool), ReadPort(port)))
=============================================================================
