---------------------------- MODULE MCAudioPath ----------------------------
(* An instance of AudioPath for TLC: two rings with samples of different   *)
(* lengths on a pool of two voices, and every kind of message, with        *)
(* indexes in range and one beyond.                                        *)
EXTENDS AudioPath

MCInitialSubdivision == [r \in Ring |-> 2 - r]
MCSampleSize == [r \in Ring |-> IF r = 0 THEN 4 ELSE 1]

RingNumber == 0 .. NumRings

MCInbox ==
  [type : {"GET_INITIAL_SETUP", "PLAY", "POLY_NAV_RIGHT",
           "POLY_ENCODER_CLICK", "POLY_TOGGLE_SELECTED_POINT"}]
    \cup [type : {"POLY_SET_SELECTED_RING"}, ring : RingNumber]
    \cup [type : {"POLY_HW_MODE"}, mode : {"toggle", "rotate", "other"}]
    \cup [type : {"POLY_SELECT_POINT_DELTA", "POLY_ENCODER_DELTA", "POLY_ADJUST_POINTS",
                  "POLY_ROTATE_SELECTED"}, amount : {-1, 1}]
    \cup [type : {"POLY_TOGGLE"}, ring : RingNumber, point : {1, 3}]
    \cup [type : {"POLY_ADD_SHAPE"}, ring : RingNumber, subdivision : {2}, offset : Offsets]
    \cup [type : {"POLY_REMOVE_SHAPE"}, ring : RingNumber, index : 0 .. MaxShapes]
    \cup [type : {"POLY_MOD_SHAPE"}, ring : RingNumber, index : 0 .. MaxShapes,
          subdivision : {2}, offset : Offsets]
    \cup [type : {"POLY_ROTATE"}, ring : RingNumber, amount : {-1, 1}]
=============================================================================
