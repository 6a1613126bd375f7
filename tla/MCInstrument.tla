---------------------------- MODULE MCInstrument ----------------------------
(* An instance of InstrumentPath for TLC: a sequencer, an arpeggiator with *)
(* several sequences, and an emitter, all of other notes.                  *)
EXTENDS InstrumentPath

MCTracks == << [note |-> 1, pattern |-> <<TRUE, TRUE, FALSE>>] >>
MCArpSequences == {<<3, 4>>, <<4>>, << >>}
=============================================================================
