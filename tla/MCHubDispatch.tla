--------------------------- MODULE MCHubDispatch ----------------------------
(* Small instances of HubDispatch for TLC.                                  *)
EXTENDS HubDispatch, TLC

CallerSymmetry == Permutations(Callers)

Group(id) == [kind |-> "group", ids |-> <<id>>]
Devices(ids) == [kind |-> "devices", ids |-> ids]

\* Overlapping device lists, dispatched unsplit (Home Assistant's policy); an
\* alias of the room has the room's list, hence its mailbox key.
OverlappingLists == [n \in Nodes |-> IF n = "hall" THEN Devices(<<"a", "b">>)
                                                   ELSE Devices(<<"b", "c">>)]

\* A device list that the policy splits and a native group (Hue's policy).
ListAndGroup == [n \in Nodes |-> IF n = "hall" THEN Devices(<<"a", "b">>)
                                               ELSE Group("g1")]
=============================================================================
