--------------------------- MODULE PendingDispatch ---------------------------
(***************************************************************************)
(* The pending marks behind the app's spinner (rhythm-os commands.rs,      *)
(* lifecycle.rs, event_loop.rs), composed with the accepted dispatches of  *)
(* IntegrationDispatch.                                                    *)
(*                                                                         *)
(* A user's work item marks its room from before it is sent until the      *)
(* command worker is done with it.  What the worker enqueues at a hub's    *)
(* mailbox marks the addressed node as well, if a user's mark is there,    *)
(* until the outcome.  The mailbox releases its mutex before its queued    *)
(* event reaches the listener, and the listener takes the state's mutex    *)
(* once for each thing it does.                                            *)
(*                                                                         *)
(* A call of IntegrationDispatch is a slot of the mailbox.  Rooms and      *)
(* lamps are nodes; Parent is the room of a lamp and a room's own self.    *)
(***************************************************************************)
EXTENDS IntegrationDispatch

CONSTANTS
  Nodes, Parent,  \* the nodes, and node -> its parent in the topology
  Target,         \* node -> the mailbox key its commands go to
  Items, RoomOf,  \* the work items of users, and item -> the node it marks
  Nobody,         \* the worker is idle; no event; no superseded node
  MaxTicks        \* bound on periodic ticks

VARIABLES
  pending,   \* pending_node_dispatches; 0: no entry
  item,      \* item -> "new", "marked", "sent", "taken" or "over"
  worker,    \* what the command worker is at: an item, "tick" or Nobody
  event,     \* the queued event whose listener runs on the worker's stack
  slot,      \* call -> "free", "queued" or "running"
  node,      \* call -> the node its slot addresses
  ticks

pendingVars == <<pending, item, worker, event, slot, node, ticks>>

allVars == <<vars, pendingVars>>

PInit ==
  /\ Init
  /\ pending = [n \in Nodes |-> 0]
  /\ item = [i \in Items |-> "new"]
  /\ worker = Nobody /\ event = Nobody
  /\ slot = [c \in Calls |-> "free"] /\ node = [c \in Calls |-> Nobody]
  /\ ticks = 0

Mark(n) == pending' = [pending EXCEPT ![n] = @ + 1]

\* clear_node_dispatch_pending, k times: a node without an entry is left.
ClearedBy(n, k) == IF k >= pending[n] THEN 0 ELSE pending[n] - k

Clear(n) == pending' = [pending EXCEPT ![n] = ClearedBy(n, 1)]

-----------------------------------------------------------------------------
(* send_work_item_with_pending: the mark first; an item that finds no room  *)
(* in the channel for 30 s is dropped.                                      *)

MarkItem(i) ==
  /\ item[i] = "new"
  /\ item' = [item EXCEPT ![i] = "marked"]
  /\ Mark(RoomOf[i])
  /\ UNCHANGED <<vars, worker, event, slot, node, ticks>>

SendItem(i) ==
  /\ item[i] = "marked"
  /\ item' = [item EXCEPT ![i] = "sent"]
  /\ UNCHANGED <<vars, pending, worker, event, slot, node, ticks>>

DropItem(i) ==
  /\ item[i] = "marked"
  /\ item' = [item EXCEPT ![i] = "over"]
  /\ Clear(RoomOf[i])
  /\ UNCHANGED <<vars, worker, event, slot, node, ticks>>

-----------------------------------------------------------------------------
(* process_work_item, on the single command worker.                         *)

TakeItem(i) ==
  /\ worker = Nobody /\ item[i] = "sent"
  /\ worker' = i
  /\ item' = [item EXCEPT ![i] = "taken"]
  /\ UNCHANGED <<vars, pending, event, slot, node, ticks>>

TakeTick ==
  /\ worker = Nobody
  /\ ticks < MaxTicks /\ ticks' = ticks + 1
  /\ worker' = "tick"
  /\ UNCHANGED <<vars, pending, item, event, slot, node>>

\* The nodes the work under way may address: a user's item its room and the
\* lamps in it, a tick any.
Addressed == IF worker = "tick" THEN Nodes
             ELSE {n \in Nodes : RoomOf[worker] \in {n, Parent[n]}}

Queued(n, old) == [at |-> "clear", node |-> n, old |-> old]

\* HubDispatcher::enqueue into a free slot ...
Enqueue(c, n) ==
  /\ worker # Nobody /\ event = Nobody /\ n \in Addressed
  /\ slot[c] = "free"
  /\ \A d \in Calls : slot[d] = "queued" => Target[node[d]] # Target[n]
  /\ slot' = [slot EXCEPT ![c] = "queued"]
  /\ node' = [node EXCEPT ![c] = n]
  /\ event' = Queued(n, Nobody)
  /\ UNCHANGED <<vars, pending, item, worker, ticks>>

\* ... or onto the command that is queued there: an event only if the slot
\* now addresses another node.
Coalesce(c, n) ==
  /\ worker # Nobody /\ event = Nobody /\ n \in Addressed
  /\ slot[c] = "queued" /\ Target[node[c]] = Target[n]
  /\ node' = [node EXCEPT ![c] = n]
  /\ event' = IF node[c] = n THEN Nobody ELSE Queued(n, node[c])
  /\ UNCHANGED <<vars, pending, item, worker, slot, ticks>>

\* The item has been processed, or its panic has been caught.
EndItem ==
  /\ worker # Nobody /\ event = Nobody
  /\ worker' = Nobody
  /\ IF worker = "tick" THEN UNCHANGED <<pending, item>>
     ELSE Clear(RoomOf[worker]) /\ item' = [item EXCEPT ![worker] = "over"]
  /\ UNCHANGED <<vars, event, slot, node, ticks>>

-----------------------------------------------------------------------------
(* The queued listener of install_dispatch_outcome_listener.                *)

ClearSuperseded ==
  /\ event # Nobody /\ event.at = "clear"
  /\ IF event.old = Nobody THEN UNCHANGED pending ELSE Clear(event.old)
  /\ event' = [event EXCEPT !.at = "check"]
  /\ UNCHANGED <<vars, item, worker, slot, node, ticks>>

\* node_has_user_pending_dispatch.
HasUserPending(n) == pending[n] > 0 \/ pending[Parent[n]] > 0

CheckUser ==
  /\ event # Nobody /\ event.at = "check"
  /\ event' = IF HasUserPending(event.node) THEN [event EXCEPT !.at = "mark"] ELSE Nobody
  /\ UNCHANGED <<vars, pending, item, worker, slot, node, ticks>>

MarkQueued ==
  /\ event # Nobody /\ event.at = "mark"
  /\ Mark(event.node)
  /\ event' = Nobody
  /\ UNCHANGED <<vars, item, worker, slot, node, ticks>>

-----------------------------------------------------------------------------
(* The hub dispatcher, and what it hands to the controller.                 *)

Start(c) ==
  /\ slot[c] = "queued"
  /\ slot' = [slot EXCEPT ![c] = "running"]
  /\ UNCHANGED <<vars, pending, item, worker, event, node, ticks>>

\* A step of the controller or of a running call; the marks it gives back
\* are those of the nodes its calls address.
Controller ==
  /\ \/ \E c \in Calls : slot[c] = "running" /\ (Accept(c) \/ CallFails(c) \/ Register(c))
     \/ \E m \in Commands : Finish(m)
     \/ PublishReport \/ Restart \/ Poll \/ Apply
  /\ pending' = [n \in Nodes |->
       ClearedBy(n, Cardinality({c \in Calls : node[c] = n /\ released'[c] # released[c]}))]
  /\ UNCHANGED <<item, worker, event, slot, node, ticks>>

PNext ==
  \/ \E i \in Items : MarkItem(i) \/ SendItem(i) \/ DropItem(i) \/ TakeItem(i)
  \/ TakeTick \/ EndItem
  \/ \E c \in Calls, n \in Nodes : Enqueue(c, n) \/ Coalesce(c, n)
  \/ ClearSuperseded \/ CheckUser \/ MarkQueued
  \/ \E c \in Calls : Start(c)
  \/ Controller

PSpec == PInit /\ [][PNext]_allVars

-----------------------------------------------------------------------------
(* Properties.                                                              *)

\* Nothing is left that could still give a mark back.
Quiet ==
  /\ \A i \in Items : item[i] \in {"new", "over"}
  /\ worker = Nobody
  /\ \A c \in Calls : slot[c] = "free" \/ released[c] > 0

\* No mark is leaked: once all work is over no node is flagged.  The comment
\* in install_dispatch_outcome_listener says so of the order of mark and
\* clear; the outcome, on another thread, may overtake the mark.
NoLeakedMark == Quiet => \A n \in Nodes : pending[n] = 0
=============================================================================
