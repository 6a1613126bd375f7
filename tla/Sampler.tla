------------------------------ MODULE Sampler ------------------------------
(***************************************************************************)
(* SamplerModule: a pool of voices that play samples, driven by the events *)
(* of one input port.                                                      *)
(*                                                                         *)
(* A buffer of audio is Grains grains long; samples are measured in grains *)
(* so that one can end inside a buffer or with it.  What a voice sounds    *)
(* like (velocity, mixing, normalisation) is left out.                     *)
(***************************************************************************)
EXTENDS Ports

CONSTANTS
  NumVoices,   (* 16: _maxVoices                                          *)
  Note,        (* the notes that events may carry                         *)
  SampleSize,  (* the notes with a sample, and its length in grains       *)
  Grains       (* the length of one buffer                                *)

ASSUME SamplerAssumption ==
  /\ NumVoices \in Nat \ {0}
  /\ Grains \in Nat \ {0}
  /\ Note \subseteq Nat
  /\ DOMAIN SampleSize \subseteq Note
  /\ \A n \in DOMAIN SampleSize : SampleSize[n] \in Nat

VoiceIndex == 1 .. NumVoices

(* What a voice holds is read only while it plays: a silent voice is Free. *)
Free == [noteNumber |-> -1, playbackPosition |-> 0]
Playing(n, position) == [noteNumber |-> n, playbackPosition |-> position]

(* The constructor: every voice of the pool is silent.                     *)
SilentPool == [v \in VoiceIndex |-> Free]

FreeVoices(voices) == {v \in VoiceIndex : voices[v] = Free}
FindFreeVoice(voices) ==
  CHOOSE v \in FreeVoices(voices) : \A w \in FreeVoices(voices) : v <= w

TriggerSample(voices, n) ==
  IF n \notin DOMAIN SampleSize \/ FreeVoices(voices) = {}
  THEN voices
  ELSE [voices EXCEPT ![FindFreeVoice(voices)] = Playing(n, 0)]

StopSampleOfAnyNote(voices, n) == SilentPool  \* mutant: notes are not compared

StopSample(voices, n) ==
  [v \in VoiceIndex |-> IF voices[v].noteNumber = n THEN Free ELSE voices[v]]

HandleNoteOnOnly(voices, e) ==  \* mutant: NOTE_OFF is ignored
  IF e.kind = "NOTE_ON" THEN TriggerSample(voices, e.note) ELSE voices

HandleEvent(voices, e) ==
  IF e.kind = "NOTE_ON"
  THEN TriggerSample(voices, e.note)
  ELSE StopSample(voices, e.note)

(* mixVoices: a voice ends when it is asked for a grain beyond its sample, *)
(* so a sample that ends with the buffer ends at the start of the next.    *)
MixVoice(voice) ==
  IF voice # Free /\ voice.playbackPosition + Grains <= SampleSize[voice.noteNumber]
  THEN [voice EXCEPT !.playbackPosition = @ + Grains]
  ELSE Free

MixVoices(voices) == [v \in VoiceIndex |-> MixVoice(voices[v])]

EventsHandled(voices, events) ==
  LET after[i \in 0 .. Len(events)] ==
        IF i = 0 THEN voices ELSE HandleEvent(after[i - 1], events[i])
  IN  after[Len(events)]

SamplerProcessed(voices, port) == MixVoices(EventsHandled(voices, ReadPort(port)))
=============================================================================
