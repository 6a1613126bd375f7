--------------------------- MODULE MCAudioOutput ---------------------------
(* An instance of AudioOutput for TLC: sizes of which none divides another *)
EXTENDS AudioOutput

MCItem == 0 .. Buffers - 1
=============================================================================
