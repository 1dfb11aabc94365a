--------------------------- MODULE MCChipDispatch ----------------------------
(* Small instances of ChipDispatch for TLC.                                 *)
EXTENDS ChipDispatch

A == <<1, 1>>
B == <<2, 1>>

TwoEndpoints == {A, B}

RoomAndOne == {<<A>>, <<A, B>>}
RoomSubscription == {<<A, B>>}
=============================================================================
