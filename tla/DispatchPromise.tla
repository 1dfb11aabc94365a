--------------------------- MODULE DispatchPromise ---------------------------
(***************************************************************************)
(* What rhythm-os promises the clients about a hub call whose commands an  *)
(* integration carries out later: the call is settled at most once, as     *)
(* answered only when all of its commands have ended (each of them may     *)
(* have failed, of which the clients are told one by one), or as failed at *)
(* any time; once settled it stays so, whatever its commands go on to do.  *)
(* Several calls may fail together.                                        *)
(***************************************************************************)
CONSTANTS Calls, Commands, CommandsOf

VARIABLES
  phase,  \* call -> "idle", "accepted", "answered" or "failed"
  ended   \* the commands that have ended

Init == phase = [c \in Calls |-> "idle"] /\ ended = {}

Move(cs, p) == phase' = [c \in Calls |-> IF c \in cs THEN p ELSE phase[c]]

Accept(c) ==
  /\ phase[c] = "idle"
  /\ Move({c}, "accepted")
  /\ UNCHANGED ended

End(m) ==
  /\ ended' = ended \cup {m}
  /\ UNCHANGED phase

Answer(c) ==
  /\ phase[c] = "accepted"
  /\ CommandsOf[c] \subseteq ended
  /\ Move({c}, "answered")
  /\ UNCHANGED ended

Fail(cs) ==
  /\ \A c \in cs : phase[c] \in {"idle", "accepted"}
  /\ Move(cs, "failed")
  /\ UNCHANGED ended

Next ==
  \/ \E c \in Calls : Accept(c) \/ Answer(c)
  \/ \E m \in Commands : End(m)
  \/ \E cs \in SUBSET Calls : Fail(cs)

Spec == Init /\ [][Next]_<<phase, ended>>
=============================================================================
