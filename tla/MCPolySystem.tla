---------------------------- MODULE MCPolySystem ----------------------------
(* Instances of PolySystem for TLC: three rings in two sets, and a few     *)
(* touches and hardware commands of chosen kinds at any moment.            *)
EXTENDS PolySystem

MCInitialSubdivision == [r \in Ring |-> IF r = 1 THEN 1 ELSE 2]

MCInbox == {}

Mode(m) == [type |-> "POLY_HW_MODE", mode |-> m]
Play == {[type |-> "PLAY"], [type |-> "PAUSE"]}
SelectRing(r) == [type |-> "POLY_SET_SELECTED_RING", ring |-> r]
Nav == [type |-> "POLY_NAV_RIGHT"]

EditCommands == {[type |-> "POLY_TOGGLE", ring |-> 1, point |-> 0],
                 [type |-> "POLY_TOGGLE_SELECTED_POINT"], SelectRing(2), Nav,
                 [type |-> "POLY_ENCODER_DELTA", amount |-> 1], Mode("points")}

ModeCommands == Play \cup {Mode("toggle"), Mode("other"), [type |-> "POLY_NAV_LEFT"]}

NoCommands == {}
=============================================================================
