--------------------------- MODULE MailboxPromise ----------------------------
(***************************************************************************)
(* What a hub's dispatcher promises about the commands it has accepted     *)
(* (composite_controller.rs), whatever its queue, worker, pacing and       *)
(* supervision do: of each mailbox key the latest command waits; it is     *)
(* given to the hub when no call is under way that shares a lamp with it   *)
(* and the hub is not busy, or displaced by a later one.  Nothing is       *)
(* refused or forgotten but while its key cools down after a call that     *)
(* timed out, or when the dispatcher is closed.                            *)
(*                                                                         *)
(* A command is its number in the order of acceptance.  Only waiting       *)
(* commands are sent, so the hub carries out those of a key in order.      *)
(***************************************************************************)
EXTENDS Naturals, FiniteSets

CONSTANTS
  Keys,   \* mailbox keys
  Lamps,  \* Lamps[k]: the lamps and groups key k addresses
  Limit   \* calls the hub takes at a time

VARIABLES
  queued,    \* key -> the command that waits, or 0
  flying,    \* calls under way, those that have timed out included
  done,      \* key -> the latest command carried out
  cool,      \* the keys that cool down
  accepted,  \* commands accepted so far
  open

state == <<queued, flying, done, cool, accepted, open>>

Init ==
  /\ queued = [k \in Keys |-> 0] /\ flying = {} /\ done = [k \in Keys |-> 0]
  /\ cool = {} /\ accepted = 0 /\ open = TRUE

\* A new command takes the place of the one that waits.
Accept(k) ==
  /\ open /\ k \notin cool
  /\ accepted' = accepted + 1
  /\ queued' = [queued EXCEPT ![k] = accepted + 1]
  /\ UNCHANGED <<flying, done, cool, open>>

\* A waiting command whose key has begun to cool down fails.
Refuse(k) ==
  /\ queued[k] # 0 /\ k \in cool
  /\ queued' = [queued EXCEPT ![k] = 0]
  /\ UNCHANGED <<flying, done, cool, accepted, open>>

\* The waiting command is given to the hub.
Send(k) ==
  /\ queued[k] # 0 /\ k \notin cool
  /\ Cardinality(flying) < Limit
  /\ \A f \in flying : Lamps[f.key] \cap Lamps[k] = {}
  /\ queued' = [queued EXCEPT ![k] = 0]
  /\ flying' = flying \cup {[key |-> k, cmd |-> queued[k]]}
  /\ UNCHANGED <<done, cool, accepted, open>>

\* The hub carries a command out, perhaps late; a cooldown may be lifted.
Carry(f) ==
  /\ done' = [done EXCEPT ![f.key] = f.cmd]
  /\ cool' \in SUBSET cool
  /\ UNCHANGED <<queued, flying, accepted, open>>

\* A call takes too long: its key, or the hub as a whole, cools down.
Chill(f) ==
  /\ cool' \in {cool \cup {f.key}, Keys}
  /\ UNCHANGED <<queued, flying, done, accepted, open>>

\* Cooldowns end with time.
Warm ==
  /\ cool' \in SUBSET cool
  /\ UNCHANGED <<queued, flying, done, accepted, open>>

\* A call is over.
End(f) ==
  /\ flying' = flying \ {f}
  /\ UNCHANGED <<queued, done, cool, accepted, open>>

\* The dispatcher is closed: what waits fails, calls under way go on.
Shut ==
  /\ open' = FALSE
  /\ queued' = [k \in Keys |-> 0]
  /\ UNCHANGED <<flying, done, cool, accepted>>

Next ==
  \/ \E k \in Keys : Accept(k) \/ Refuse(k) \/ Send(k)
  \/ \E f \in flying : Carry(f) \/ Chill(f) \/ End(f)
  \/ Warm \/ Shut

Spec == Init /\ [][Next]_state
=============================================================================
