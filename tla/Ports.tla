------------------------------- MODULE Ports -------------------------------
(***************************************************************************)
(* The events that modules send each other, and InputPort, which gives its *)
(* signals back last in, first out.  An event carries an offset within its *)
(* buffer and a velocity as well; the offset is read by no module.         *)
(***************************************************************************)
EXTENDS Integers, SequencesExt

NoteOn(n) == [kind |-> "NOTE_ON", note |-> n]
NoteOff(n) == [kind |-> "NOTE_OFF", note |-> n]

(* InputPort::get() until it returns nothing.                              *)
ReadInOrder(port) == port  \* mutant: the oldest signal first
ReadPort(port) == Reverse(port)
=============================================================================
