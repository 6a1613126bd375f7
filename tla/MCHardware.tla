----------------------------- MODULE MCHardware -----------------------------
(* Instances of HardwareSystem for TLC: one ring, a few pins, and lines    *)
(* and messages of chosen kinds.                                           *)
EXTENDS HardwareSystem

MCInitialSubdivision == [r \in Ring |-> 2]
MCInbox == {}

NoReadings == {}
MovablePins == Pins
NoWays == {}
BothWays == {-1, 1}
NoLines == {}
NoMessages == {}

ButtonRole == [pin \in Pins |-> IF pin = 1 THEN "play" ELSE "rotate"]

CommandLines == {[cmd |-> "send", message |-> [type |-> "PAUSE"]],
                 [cmd |-> "mode", mode |-> "points"],
                 [cmd |-> "send",
                  message |-> [type |-> "POLY_REMOVE_SHAPE", ring |-> 0, index |-> 0]]}
GuiMode == {[type |-> "POLY_HW_MODE", mode |-> "points"]}

(* A potentiometer of three readings, two of them in one deadband that     *)
(* belong to different subdivisions.                                       *)
PotValues == {0, 252, 258}
=============================================================================
