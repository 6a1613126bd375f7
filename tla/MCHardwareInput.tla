-------------------------- MODULE MCHardwareInput --------------------------
(* Instances of HardwareInput for TLC: contacts, knob and potentiometer.   *)
EXTENDS HardwareInput

ButtonRole == [pin \in Pins |-> IF pin = 1 THEN "play" ELSE "rotate"]
PotEnds == {0, 1023}
AllButtons == Buttons
BothWays == {-1, 1}
NoLines == {}
=============================================================================
