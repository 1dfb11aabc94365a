------------------------ MODULE MCIntegrationDispatch ------------------------
(* Small instances of IntegrationDispatch for TLC.                          *)
EXTENDS IntegrationDispatch

\* A room of two endpoints and a single one.
RoomAndLamp == [c \in Calls |-> IF c = "room" THEN {1, 2} ELSE {3}]
=============================================================================
