-------------------------- MODULE MCPendingDispatch --------------------------
(* Small instances of PendingDispatch for TLC.                              *)
EXTENDS PendingDispatch

\* A room, a lamp in it and the mailbox keys of the two.
InRoom == [n \in Nodes |-> "room"]
OwnTarget == [n \in Nodes |-> n]
OnRoom == [i \in Items |-> "room"]
OneCommandEach == [c \in Calls |-> {c}]
=============================================================================
