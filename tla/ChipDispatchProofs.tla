------------------------- MODULE ChipDispatchProofs --------------------------
(***************************************************************************)
(* The inductive invariant IInv of ChipDispatch and what follows from it,  *)
(* for every set of endpoints, threads and subscriptions and every budget. *)
(***************************************************************************)
EXTENDS ChipDispatch, SeqLemmas, FiniteSetTheorems

-----------------------------------------------------------------------------
(* The inductive invariant.                                                 *)

PassPcs == {"pass", "scan", "spawn", "spawn_release"}
LanePcs == {"run", "proof", "failure", "publish", "release"}
Pcs == {"idle", "off", "enqueue", "supersede"} \cup PassPcs \cup LanePcs
         \cup {"sub_wait", "sub_run", "sub_failure", "sub_permit"}
Evidence == [at : Nat, kind : {"none", "proof", "failure"}]
Slot == [running : BOOLEAN, pending : 0..MaxCommands, ticket : BOOLEAN]
Health == [proof : Nat, failures : Nat, failed : Nat, retry : Nat]
Lane == [at : Endpoints, recovery : BOOLEAN, stamp : Nat]

\* The state of the dispatcher and of the budget.
SharedTypes ==
  /\ lock \in Threads \cup {Free}
  /\ slots \in [Endpoints -> Slot]
  /\ activeIds \subseteq Cmds
  /\ ready \in Seq(Endpoints)
  /\ queue \in Seq(Endpoints \cup Subscribers)
  /\ health \in [Endpoints -> Health]

\* What the threads keep.
ThreadTypes ==
  /\ left \in Nat /\ todo \in Seq(Endpoints)
  /\ gone \in [Submitters -> SUBSET Cmds] /\ sel \in [Threads -> 0..MaxCommands]
  /\ lane \in [Cmds -> Lane \cup {NoLane}]
  /\ sub \in [Subscribers -> [targets : Seq(Endpoints), stamp : Nat]]
  /\ cmds \in 0..MaxCommands /\ now \in Nat
  /\ outcomes \in [Cmds -> Nat] /\ best \in [Endpoints -> Evidence]

\* Where the threads of each kind may be.
PcTypes ==
  /\ pc \in [Threads -> Pcs]
  /\ \A t \in Submitters : pc[t] \in {"idle", "enqueue", "supersede"} \cup PassPcs
  /\ \A t \in Subscribers :
       pc[t] \in {"idle", "sub_wait", "sub_run", "sub_failure", "sub_permit"} \cup PassPcs
  /\ \A t \in Reporters : pc[t] \in {"idle"} \cup PassPcs
  /\ \A t \in Cmds : pc[t] \in {"off"} \cup LanePcs \cup PassPcs
  /\ \A t \in Subscribers : pc[t] \in {"sub_wait", "sub_run", "sub_failure"} => sub[t].targets # <<>>

\* A mutex is held exactly where the code holds it, and what its holder has
\* found out remains true.
LockInv ==
  /\ \A t \in Threads : pc[t] \in {"enqueue", "scan"} <=> lock = t
  /\ \A t \in Threads : pc[t] = "enqueue" => todo # <<>> /\ cmds + Len(todo) <= MaxCommands
  /\ \A t \in Threads : pc[t] = "scan" => left <= Len(ready) /\ activeLanes < Capacity
  /\ activeLanes <= Capacity

\* Thread t has been handed the lane of its selected command.
Hands(t) == pc[t] \in {"spawn", "spawn_release"}

\* A lane has one thread that answers for it: its own once it runs, before
\* that the pass that has admitted it.
LaneInv ==
  /\ \A t \in Threads : Hands(t) =>
       sel[t] \in Cmds /\ lane[sel[t]] # NoLane /\ pc[sel[t]] = "off"
  /\ \A t, u \in Threads : Hands(t) /\ Hands(u) /\ sel[t] = sel[u] => t = u
  /\ \A c \in Cmds : pc[c] \in LanePcs => lane[c] # NoLane
  /\ \A c \in Cmds : lane[c] # NoLane /\ pc[c] = "off" =>
       \E t \in Threads : Hands(t) /\ sel[t] = c
  /\ \A c \in Cmds : lane[c] # NoLane \/ pc[c] # "off" => c <= cmds

\* A command that waits, or that has been replaced, has no lane and waits in
\* one place.
WaitInv ==
  /\ \A e \in Endpoints : slots[e].pending # 0 =>
       /\ slots[e].pending <= cmds
       /\ lane[slots[e].pending] = NoLane /\ pc[slots[e].pending] = "off"
  /\ \A e, f \in Endpoints : slots[e].pending = slots[f].pending /\ slots[e].pending # 0 => e = f
  /\ \A t \in Submitters : \A c \in gone[t] :
       /\ c <= cmds /\ lane[c] = NoLane /\ pc[c] = "off"
       /\ \A e \in Endpoints : slots[e].pending # c
       /\ \A u \in Submitters : c \in gone[u] => u = t
  /\ \A c \in Cmds : c > cmds => outcomes[c] = 0

\* The permits by kind.
RecoveryHolding == {c \in Holding : lane[c].recovery}
ReadyHolding == {c \in Holding : ~lane[c].recovery}

PermitInv ==
  /\ IsFiniteSet(Subscribing)
  /\ recoveryInFlight = Cardinality(RecoveryHolding) + Cardinality(Subscribing)
  /\ inFlight = recoveryInFlight + Cardinality(ReadyHolding)
  /\ recoveryInFlight <= 1 /\ inFlight <= Capacity
  /\ Cardinality(ReadyHolding) <= Capacity - 1

EvidenceInv ==
  \A e \in Endpoints :
    /\ best[e].kind = "none" => best[e].at = 0
    /\ best[e].kind = "proof" => best[e].at > 0
    /\ health[e].proof = IF best[e].kind = "proof" THEN best[e].at ELSE 0
    /\ health[e].failed = IF best[e].kind = "failure" THEN best[e].at ELSE 0

Resting(t) == pc[t] \in {"idle", "off"}

\* Nobody but t is active, and t has no lane of its own to finish.
Alone(t) == t \notin Laned /\ \A u \in Threads \ {t} : Resting(u)

\* While endpoints are queued somebody is active; and what a pass without
\* company has put back waits for the recovery permit behind somebody else.
ProgressInv ==
  /\ ready # <<>> => \E t \in Threads : ~Resting(t)
  /\ \A t \in Threads : pc[t] = "scan" /\ Alone(t) =>
       \A i \in (left + 1)..Len(ready) :
         ~Ready(ready[i]) /\ slots[ready[i]].ticket /\ Head(queue) # ready[i]

IInv ==
  /\ SharedTypes /\ ThreadTypes /\ PcTypes
  /\ LockInv /\ LaneInv /\ WaitInv
  /\ OneLanePerEndpoint /\ TicketsOwned /\ PermitInv
  /\ AnsweredOnce /\ EvidenceInv /\ ProgressInv

-----------------------------------------------------------------------------
(* Constants, and what leaves a part of the invariant alone.                *)

\* The kinds of threads are disjoint.
LEMMA ThreadKinds ==
  /\ \A t \in Submitters \cup Subscribers \cup Reporters : t \in Threads /\ t \notin Cmds
  /\ \A c \in Cmds : c \in Threads /\ c \notin Submitters \cup Subscribers \cup Reporters
  /\ \A t \in Threads : t # Free
  /\ \A t \in Subscribers : t \notin Submitters /\ t \notin Reporters /\ t \notin Endpoints
  /\ \A t \in Submitters : t \notin Reporters
  /\ \A t \in Threads : t \in Submitters \/ t \in Subscribers \/ t \in Reporters \/ t \in Cmds
<1>1. Cmds \subseteq Nat
  BY BoundsAssumption DEF Cmds
<1>2. QED BY <1>1, ThreadAssumption DEF Threads

\* Command ids are numbers, and 0 is none of them.
LEMMA CmdFacts ==
  /\ MaxCommands \in Nat
  /\ \A c : c \in Cmds <=> c \in 0..MaxCommands /\ c # 0
  /\ \A c \in Cmds : c \in Nat /\ c >= 1 /\ c <= MaxCommands
<1>1. QED BY BoundsAssumption DEF Cmds

\* A lane is told from none by its endpoint.
LEMMA LaneIsNot ==
  /\ \A x \in Lane : x # NoLane /\ x.at \in Endpoints /\ x.recovery \in BOOLEAN /\ x.stamp \in Nat
  /\ NoLane \notin Lane
<1>1. <<>> \notin Endpoints
  BY BoundsAssumption
<1>2. \A x \in Lane : x.at \in Endpoints /\ x.recovery \in BOOLEAN /\ x.stamp \in Nat
  BY DEF Lane
<1>3. NoLane.at = <<>>
  BY DEF NoLane
<1>4. QED BY <1>1, <1>2, <1>3

\* The commands that hold a permit, one by one, now and after a step.
LEMMA HoldingFacts ==
  /\ Laned \subseteq Cmds /\ Holding \subseteq Laned
  /\ \A c \in Cmds : c \in Laned <=> lane[c] # NoLane
  /\ \A c \in Cmds : c \in Holding <=>
       /\ lane[c] # NoLane
       /\ (\E u \in Threads : pc[u] = "spawn" /\ sel[u] = c) \/ pc[c] \notin {"off", "release"}
<1>1. \A c : c \in Spawning <=> \E u \in Threads : pc[u] = "spawn" /\ sel[u] = c
  BY DEF Spawning
<1>2. QED BY <1>1 DEF Laned, Holding

\* The same after a step.
LEMMA HoldingNext ==
  /\ Laned' \subseteq Cmds /\ Holding' \subseteq Laned'
  /\ \A c \in Cmds : c \in Laned' <=> lane'[c] # NoLane
  /\ \A c \in Cmds : c \in Holding' <=>
       /\ lane'[c] # NoLane
       /\ (\E u \in Threads : pc'[u] = "spawn" /\ sel'[u] = c) \/ pc'[c] \notin {"off", "release"}
<1>1. \A c : c \in Spawning' <=> \E u \in Threads : pc'[u] = "spawn" /\ sel'[u] = c
  BY DEF Spawning
<1>2. QED BY <1>1 DEF Laned, Holding

\* The sets that are counted are finite.
LEMMA FiniteHolding ==
  /\ IsFiniteSet(Laned) /\ Cardinality(Laned) \in Nat
  /\ IsFiniteSet(RecoveryHolding) /\ Cardinality(RecoveryHolding) \in Nat
  /\ IsFiniteSet(ReadyHolding) /\ Cardinality(ReadyHolding) \in Nat
<1>1. IsFiniteSet(Cmds)
  BY BoundsAssumption, FS_Interval DEF Cmds
<1>2. Laned \subseteq Cmds /\ RecoveryHolding \subseteq Cmds /\ ReadyHolding \subseteq Cmds
  BY HoldingFacts DEF RecoveryHolding, ReadyHolding
<1>3. QED BY <1>1, <1>2, FS_Subset, FS_CardinalityType

\* Lanes keep their endpoint and the kind of their permit.
SameLanes ==
  \A c \in Cmds : /\ lane'[c] = NoLane <=> lane[c] = NoLane
                  /\ lane'[c].at = lane[c].at /\ lane'[c].recovery = lane[c].recovery

\* Nobody gets or gives back a permit.
SameHolding == Holding' = Holding /\ RecoveryHolding' = RecoveryHolding /\ ReadyHolding' = ReadyHolding

\* A step that starts no lane leaves the lanes exclusive.
LEMMA OneLaneFrame ==
  ASSUME OneLanePerEndpoint, SameLanes, UNCHANGED <<slots, activeLanes, ready>>
  PROVE  OneLanePerEndpoint'
<1>1. Laned' = Laned
  BY DEF SameLanes, Laned
<1>2. \A c \in Laned : lane'[c].at = lane[c].at
  BY DEF SameLanes, Laned
<1>3. {lane[c].at : c \in Laned}' = {lane[c].at : c \in Laned}
  BY <1>1, <1>2
<1>4. \A e : Vain(e)' <=> Vain(e)
  BY DEF Vain
<1>5. \A c, d \in Laned : lane'[c].at = lane'[d].at => c = d
  BY <1>2 DEF OneLanePerEndpoint
<1>6. QED BY <1>1, <1>3, <1>4, <1>5 DEF OneLanePerEndpoint

\* A step that leaves tickets and their owners alone keeps them matched.
LEMMA TicketsFrame ==
  ASSUME TicketsOwned, UNCHANGED <<slots, queue>>,
         \A u \in Subscribers : pc'[u] = "sub_wait" <=> pc[u] = "sub_wait"
  PROVE  TicketsOwned'
<1>1. \A e : Vain(e)' <=> Vain(e)
  BY DEF Vain
<1>2. {u \in Subscribers : pc[u] = "sub_wait"}' = {u \in Subscribers : pc[u] = "sub_wait"}
  OBVIOUS
<1>3. QED BY <1>1, <1>2 DEF TicketsOwned

\* A step that leaves permits and their holders alone keeps the budget.
LEMMA PermitFrame ==
  ASSUME PermitInv, SameHolding, Subscribing' = Subscribing, UNCHANGED <<inFlight, recoveryInFlight>>
  PROVE  PermitInv'
<1>1. QED BY DEF PermitInv, SameHolding

\* A step that answers nobody keeps every answer single.
LEMMA AnswerFrame ==
  ASSUME AnsweredOnce, SameHolding, UNCHANGED <<slots, gone, cmds, outcomes>>
  PROVE  AnsweredOnce'
<1>1. QED BY DEF AnsweredOnce, SameHolding

\* An active thread keeps the work ahead, and is company for every pass but
\* its own.
LEMMA ProgressMove ==
  ASSUME NEW t \in Threads, ~Resting(t)', pc'[t] # "scan"
  PROVE  ProgressInv'
<1>1. ASSUME NEW u \in Threads, pc'[u] = "scan"
      PROVE  ~Alone(u)'
  BY <1>1 DEF Alone
<1>2. QED BY <1>1 DEF ProgressInv

\* The places of a thread where a subscription's permit is in use.
SubPcs == {"sub_run", "sub_failure", "sub_permit"}

\* A thread moves on without touching a permit.
LEMMA MoveHolding ==
  ASSUME PcTypes, NEW t \in Threads, NEW p \in Pcs \ {"spawn"}, pc[t] # "spawn",
         pc' = [pc EXCEPT ![t] = p],
         t \in Laned => (pc[t] \in {"off", "release"} <=> p \in {"off", "release"}),
         t \in Subscribers => (pc[t] \in SubPcs <=> p \in SubPcs),
         SameLanes, sel' = sel
  PROVE  SameHolding /\ Subscribing' = Subscribing
<1>1. /\ \A u \in Threads : pc'[u] = IF u = t THEN p ELSE pc[u]
      /\ \A u \in Threads : pc'[u] = "spawn" <=> pc[u] = "spawn"
  BY DEF PcTypes
<1>2. SameHolding
  <2>1. \A c \in Cmds : lane[c] # NoLane =>
          (pc'[c] \in {"off", "release"} <=> pc[c] \in {"off", "release"})
    BY <1>1, ThreadKinds DEF Laned
  <2>2. \A c \in Cmds : c \in Holding' <=> c \in Holding
    BY <1>1, <2>1, HoldingFacts, HoldingNext DEF SameLanes
  <2>3. Holding' = Holding /\ Holding \subseteq Cmds
    BY <2>2, HoldingFacts, HoldingNext
  <2>4. QED BY <2>3 DEF SameHolding, SameLanes, RecoveryHolding, ReadyHolding
<1>3. Subscribing' = Subscribing
  <2>1. \A u \in Subscribers : u \in Subscribing' <=> u \in Subscribing
    BY <1>1, ThreadKinds DEF Subscribing, SubPcs
  <2>2. QED BY <2>1 DEF Subscribing
<1>4. QED BY <1>2, <1>3

\* A thread goes on without being handed a lane or handing one over.
LEMMA LaneMove ==
  ASSUME IInv, NEW t \in Threads, NEW p \in Pcs \ {"spawn", "spawn_release"},
         pc[t] \notin {"off", "spawn", "spawn_release"},
         pc' = [pc EXCEPT ![t] = p],
         t \in Laned => p # "off", t \in Cmds /\ p \in LanePcs => t \in Laned,
         SameLanes, sel' = sel, cmds' \in Nat, cmds <= cmds'
  PROVE  LaneInv'
<1>0. ThreadTypes /\ PcTypes /\ LaneInv
  BY DEF IInv
<1>1. /\ \A u \in Threads : pc'[u] = IF u = t THEN p ELSE pc[u]
      /\ \A u \in Threads : Hands(u)' <=> Hands(u)
      /\ \A u \in Threads : Hands(u) => u # t
  BY <1>0 DEF PcTypes, Hands
<1>2. \A u \in Threads : Hands(u)' => sel'[u] \in Cmds /\ lane'[sel'[u]] # NoLane /\ pc'[sel'[u]] = "off"
  <2>1. SUFFICES ASSUME NEW u \in Threads, Hands(u)
                 PROVE  sel[u] \in Cmds /\ lane'[sel[u]] # NoLane /\ pc'[sel[u]] = "off"
    BY <1>1
  <2>2. sel[u] \in Cmds /\ lane[sel[u]] # NoLane /\ pc[sel[u]] = "off"
    BY <1>0, <2>1 DEF LaneInv
  <2>3. sel[u] # t
    BY <2>2
  <2>4. QED BY <1>1, <2>2, <2>3, ThreadKinds DEF SameLanes
<1>3. \A u, v \in Threads : Hands(u)' /\ Hands(v)' /\ sel'[u] = sel'[v] => u = v
  BY <1>0, <1>1 DEF LaneInv
<1>4. \A c \in Cmds : pc'[c] \in LanePcs => lane'[c] # NoLane
  BY <1>0, <1>1, ThreadKinds DEF LaneInv, SameLanes, Laned
<1>5. \A c \in Cmds : lane'[c] # NoLane /\ pc'[c] = "off" => \E u \in Threads : Hands(u)' /\ sel'[u] = c
  <2>1. SUFFICES ASSUME NEW c \in Cmds, lane[c] # NoLane, pc'[c] = "off"
                 PROVE  \E u \in Threads : Hands(u) /\ sel[u] = c
    BY <1>1 DEF SameLanes
  <2>2. c # t
    BY <1>1, <2>1 DEF Laned
  <2>3. pc[c] = "off"
    BY <1>1, <2>1, <2>2, ThreadKinds
  <2>4. QED BY <1>0, <2>1, <2>3 DEF LaneInv
<1>6. \A c \in Cmds : lane'[c] # NoLane \/ pc'[c] # "off" => c <= cmds'
  <2>1. \A c \in Cmds : lane[c] # NoLane \/ pc[c] # "off" => c <= cmds
    BY <1>0 DEF LaneInv
  <2>2. \A c \in Cmds : c <= cmds => c <= cmds'
    BY <1>0, CmdFacts DEF ThreadTypes
  <2>3. QED BY <1>1, <2>1, <2>2, ThreadKinds DEF SameLanes
<1>7. QED BY <1>2, <1>3, <1>4, <1>5, <1>6 DEF LaneInv

\* A step of a thread that neither admits a lane nor starts, answers or
\* releases one.
LEMMA PlainMove ==
  ASSUME IInv, NEW t \in Threads, NEW p \in Pcs \ {"spawn", "spawn_release"},
         pc[t] \notin {"off", "spawn", "spawn_release", "release"}, p # "release",
         pc' = [pc EXCEPT ![t] = p],
         t \in Laned => p # "off", t \in Cmds /\ p \in LanePcs => t \in Laned,
         t \in Subscribers => (pc[t] \in SubPcs <=> p \in SubPcs),
         SameLanes, UNCHANGED <<slots, sel, gone, cmds, outcomes, inFlight, recoveryInFlight>>
  PROVE  LaneInv' /\ WaitInv' /\ PermitInv' /\ AnsweredOnce'
<1>0. /\ ThreadTypes /\ PcTypes /\ LaneInv /\ WaitInv /\ PermitInv /\ AnsweredOnce
  BY DEF IInv
<1>1. \A u \in Threads : pc'[u] = IF u = t THEN p ELSE pc[u]
  BY <1>0 DEF PcTypes
<1>2. LaneInv'
  <2>1. cmds' \in Nat /\ cmds <= cmds'
    BY <1>0, CmdFacts DEF ThreadTypes
  <2>2. QED BY <2>1, LaneMove
<1>3. WaitInv'
  <2>1. \A c \in Cmds : lane[c] = NoLane /\ pc[c] = "off" => lane'[c] = NoLane /\ pc'[c] = "off"
    BY <1>1, ThreadKinds DEF SameLanes
  <2>2. \A e \in Endpoints : slots[e].pending # 0 => slots[e].pending \in Cmds
    BY <1>0, CmdFacts DEF IInv, SharedTypes, Slot
  <2>3. \A u \in Submitters : \A c \in gone[u] : c \in Cmds
    BY <1>0 DEF ThreadTypes
  <2>4. QED BY <1>0, <2>1, <2>2, <2>3 DEF WaitInv
<1>4. SameHolding /\ Subscribing' = Subscribing
  BY <1>0, MoveHolding
<1>5. PermitInv' /\ AnsweredOnce'
  BY <1>0, <1>4, PermitFrame, AnswerFrame
<1>6. QED BY <1>2, <1>3, <1>5

-----------------------------------------------------------------------------
(* CommandDispatcher::submit preserves the invariant.                       *)

\* A caller hands in a batch; nothing is queued yet.
LEMMA SubmitStep ==
  ASSUME IInv, NEW t \in Submitters, NEW batch \in Batches, Submit(t, batch)
  PROVE  IInv'
<1>1. /\ pc[t] = "idle" /\ lock = Free /\ cmds + Len(batch) <= MaxCommands
      /\ lock' = t /\ todo' = batch /\ pc' = [pc EXCEPT ![t] = "enqueue"]
      /\ UNCHANGED <<slots, activeIds, ready, activeLanes, health, queue, inFlight, recoveryInFlight,
                     left, gone, sel, lane, sub, cmds, subs, now, outcomes, best>>
  BY DEF Submit, Goto, queueVars, budget, work, bounds, ghost
<1>2. t \in Threads /\ t \notin Cmds /\ t \notin Subscribers /\ t \notin Reporters
  BY ThreadKinds
<1>3. batch \in Seq(Endpoints) /\ batch # <<>>
  BY BoundsAssumption
<1>4. \A u \in Threads : pc'[u] = IF u = t THEN "enqueue" ELSE pc[u]
  BY <1>1, <1>2 DEF IInv, PcTypes
<1>5. SharedTypes' /\ ThreadTypes'
  BY <1>1, <1>2, <1>3 DEF IInv, SharedTypes, ThreadTypes
<1>6. PcTypes'
  BY <1>1, <1>2, <1>4, ThreadKinds DEF IInv, PcTypes, Pcs
<1>7. LockInv'
  BY <1>1, <1>2, <1>3, <1>4, ThreadKinds DEF IInv, LockInv
<1>8. SameLanes
  BY <1>1 DEF SameLanes
<1>9. LaneInv' /\ WaitInv' /\ PermitInv' /\ AnsweredOnce'
  BY <1>1, <1>2, <1>8, PlainMove DEF IInv, Pcs, LanePcs, Laned, ThreadTypes
<1>10. OneLanePerEndpoint'
  BY <1>1, <1>8, OneLaneFrame DEF IInv
<1>11. TicketsOwned'
  BY <1>1, <1>2, <1>4, TicketsFrame, ThreadKinds DEF IInv
<1>12. EvidenceInv'
  BY <1>1 DEF IInv, EvidenceInv
<1>13. ProgressInv'
  BY <1>2, <1>4, ProgressMove DEF Resting
<1>14. QED BY <1>5, <1>6, <1>7, <1>9, <1>10, <1>11, <1>12, <1>13 DEF IInv

\* The plans enter their slots, and those they supersede leave them.
LEMMA EnqueueStep ==
  ASSUME IInv, NEW t \in Submitters, Enqueue(t)
  PROVE  IInv'
<1> DEFINE e == Head(todo)
           c == cmds + 1
           ticket == ~slots[e].running /\ ~Ready(e) /\ ~slots[e].ticket
           p == IF Len(todo) = 1 THEN "supersede" ELSE "enqueue"
<1>1. /\ pc[t] = "enqueue" /\ cmds' = c
      /\ activeIds' = (activeIds \ {slots[e].pending}) \cup {c}
      /\ slots' = [slots EXCEPT ![e].pending = c, ![e].ticket = @ \/ ticket]
      /\ queue' = IF ticket THEN Append(queue, e) ELSE queue
      /\ gone' = [gone EXCEPT ![t] = @ \cup ({slots[e].pending} \ {0})]
      /\ ready' = IF ~slots[e].running /\ slots[e].pending = 0 THEN Append(ready, e) ELSE ready
      /\ todo' = Tail(todo)
      /\ IF Len(todo) = 1 THEN lock' = Free /\ pc' = [pc EXCEPT ![t] = "supersede"]
         ELSE UNCHANGED <<lock, pc>>
      /\ UNCHANGED <<activeLanes, health, inFlight, recoveryInFlight, left, sel, lane, sub, subs, now,
                     outcomes, best>>
  BY DEF Enqueue, Goto, work, WasIdle, Superseded
<1>2. t \in Threads /\ t \notin Cmds /\ t \notin Subscribers /\ t \notin Reporters
  BY ThreadKinds
<1>3. /\ todo \in Seq(Endpoints) /\ todo # <<>> /\ cmds + Len(todo) <= MaxCommands /\ lock = t
      /\ cmds \in Nat /\ MaxCommands \in Nat
  BY <1>1, <1>2, CmdFacts DEF IInv, ThreadTypes, LockInv
<1>4. /\ e \in Endpoints /\ Tail(todo) \in Seq(Endpoints)
      /\ Len(Tail(todo)) = Len(todo) - 1 /\ Len(todo) \in Nat /\ Len(todo) > 0
  BY <1>3, TailFacts, LenProperties
<1>5. c \in Cmds /\ c \in 0..MaxCommands /\ c # 0 /\ c > cmds
  BY <1>3, <1>4, CmdFacts
<1>6. pc' = [pc EXCEPT ![t] = p] /\ \A u \in Threads : pc'[u] = IF u = t THEN p ELSE pc[u]
  BY <1>1, <1>2 DEF IInv, PcTypes
<1>7. slots[e] \in Slot /\ \A f \in Endpoints : slots[f] \in Slot
  BY <1>4 DEF IInv, SharedTypes
<1>8. \A f \in Endpoints :
        /\ slots'[f].running = slots[f].running
        /\ slots'[f].pending = IF f = e THEN c ELSE slots[f].pending
        /\ slots'[f].ticket <=> slots[f].ticket \/ (f = e /\ ticket)
  <2>1. \A f \in Endpoints : f # e => slots'[f] = slots[f]
    BY <1>1 DEF IInv, SharedTypes
  <2>2. slots'[e] = [slots[e] EXCEPT !.pending = c, !.ticket = @ \/ ticket]
    BY <1>1, <1>4 DEF IInv, SharedTypes
  <2>3. slots'[e].running = slots[e].running /\ slots'[e].pending = c
    BY <1>7, <2>2 DEF Slot
  <2>4. slots'[e].ticket = (slots[e].ticket \/ ticket)
    BY <1>7, <2>2 DEF Slot
  <2>5. QED BY <2>1, <2>3, <2>4
<1>9. SharedTypes'
  <2>1. slots' \in [Endpoints -> Slot]
    BY <1>1, <1>4, <1>5, <1>7 DEF IInv, SharedTypes, Slot
  <2>2. ready' \in Seq(Endpoints)
    BY <1>1, <1>4, AppendFacts DEF IInv, SharedTypes
  <2>3. queue' \in Seq(Endpoints \cup Subscribers)
    BY <1>1, <1>4, AppendFacts DEF IInv, SharedTypes
  <2>4. lock' \in Threads \cup {Free}
    BY <1>1 DEF IInv, SharedTypes
  <2>5. QED BY <1>1, <1>5, <2>1, <2>2, <2>3, <2>4 DEF IInv, SharedTypes
<1>10. ThreadTypes'
  <2>1. {slots[e].pending} \ {0} \subseteq Cmds
    BY <1>7, CmdFacts DEF Slot
  <2>2. gone' \in [Submitters -> SUBSET Cmds]
    BY <1>1, <2>1 DEF IInv, ThreadTypes
  <2>3. QED BY <1>1, <1>4, <1>5, <2>2 DEF IInv, ThreadTypes
<1>11. PcTypes'
  BY <1>1, <1>2, <1>6, ThreadKinds DEF IInv, PcTypes, Pcs
<1>12. LockInv'
  <2>1. \A u \in Threads : u # t => pc[u] \notin {"enqueue", "scan"}
    BY <1>3 DEF IInv, LockInv
  <2>2. \A u \in Threads : pc'[u] \in {"enqueue", "scan"} <=> lock' = u
    BY <1>1, <1>2, <1>3, <1>6, <2>1, ThreadKinds
  <2>3. p = "enqueue" => Tail(todo) # <<>> /\ c + Len(Tail(todo)) <= MaxCommands
    <3>1. p = "enqueue" => Len(todo) > 1
      BY <1>4
    <3>2. QED BY <1>3, <1>4, <3>1, LongTail
  <2>4. QED BY <1>1, <1>6, <2>1, <2>2, <2>3 DEF IInv, LockInv
<1>13. LaneInv'
  <2>1. cmds' \in Nat /\ cmds <= cmds' /\ t \in Threads \ Cmds
    BY <1>1, <1>2, <1>3
  <2>2. p \in Pcs \ {"spawn", "spawn_release"} /\ t \notin Laned /\ SameLanes
    BY <1>1, <1>2 DEF Pcs, Laned, SameLanes
  <2>3. QED BY <1>1, <1>6, <2>1, <2>2, LaneMove
<1>14. WaitInv'
  <2>1. lane[c] = NoLane /\ pc[c] = "off"
    BY <1>3, <1>5 DEF IInv, LaneInv
  <2>2. \A d \in Cmds : pc'[d] = pc[d]
    BY <1>2, <1>6, ThreadKinds
  <2>3. \A f \in Endpoints : slots[f].pending \in 0..MaxCommands /\ (slots[f].pending # 0 => slots[f].pending \in Cmds)
    BY <1>7, CmdFacts DEF Slot
  <2>4. \A f \in Endpoints : slots'[f].pending = IF f = e THEN c ELSE slots[f].pending
    BY <1>8
  <2>5. \A f \in Endpoints : slots[f].pending # c
    BY <1>3, <1>5, <2>3 DEF IInv, WaitInv
  <2>6. \A f \in Endpoints : slots'[f].pending # 0 =>
          /\ slots'[f].pending <= cmds'
          /\ lane'[slots'[f].pending] = NoLane /\ pc'[slots'[f].pending] = "off"
    <3>1. ASSUME NEW f \in Endpoints, f # e, slots[f].pending # 0
          PROVE  slots[f].pending <= cmds' /\ lane[slots[f].pending] = NoLane
                 /\ pc'[slots[f].pending] = "off"
      <4>1. slots[f].pending <= cmds /\ lane[slots[f].pending] = NoLane
            /\ pc[slots[f].pending] = "off"
        BY <3>1 DEF IInv, WaitInv
      <4>2. slots[f].pending \in Cmds
        BY <2>3, <3>1
      <4>3. QED BY <1>1, <1>3, <2>2, <4>1, <4>2, CmdFacts
    <3>2. c <= cmds' /\ lane[c] = NoLane /\ pc'[c] = "off"
      BY <1>1, <1>3, <1>5, <2>1, <2>2
    <3>3. QED BY <1>1, <2>4, <3>1, <3>2
  <2>7. \A f, g \in Endpoints : slots'[f].pending = slots'[g].pending /\ slots'[f].pending # 0 => f = g
    BY <2>4, <2>5 DEF IInv, WaitInv
  <2>8. \A u \in Submitters : gone[u] \subseteq Cmds
            /\ gone'[u] = IF u = t THEN gone[t] \cup ({slots[e].pending} \ {0}) ELSE gone[u]
    BY <1>1 DEF IInv, ThreadTypes
  <2>9. \A u \in Submitters : \A d \in gone[u] :
          /\ d <= cmds /\ d # c /\ lane[d] = NoLane /\ pc'[d] = "off"
          /\ \A f \in Endpoints : slots'[f].pending # d
          /\ d # slots[e].pending
    BY <1>3, <1>4, <1>5, <2>2, <2>4, <2>8, CmdFacts DEF IInv, WaitInv
  <2>10. slots[e].pending # 0 =>
          /\ slots[e].pending <= cmds /\ lane[slots[e].pending] = NoLane
          /\ pc'[slots[e].pending] = "off"
          /\ \A f \in Endpoints : slots'[f].pending # slots[e].pending
    BY <1>4, <2>2, <2>3, <2>4, <2>5 DEF IInv, WaitInv
  <2>11. \A u \in Submitters : \A d \in gone'[u] :
           /\ d <= cmds' /\ lane'[d] = NoLane /\ pc'[d] = "off"
           /\ \A f \in Endpoints : slots'[f].pending # d
           /\ \A v \in Submitters : d \in gone'[v] => v = u
    <3>1. ASSUME NEW u \in Submitters, NEW d \in gone'[u]
          PROVE  /\ d <= cmds /\ lane[d] = NoLane /\ pc'[d] = "off" /\ d \in Cmds
                 /\ \A f \in Endpoints : slots'[f].pending # d
      BY <1>4, <2>3, <2>8, <2>9, <2>10
    <3>2. ASSUME NEW u \in Submitters, NEW d \in gone'[u], NEW v \in Submitters, d \in gone'[v]
          PROVE  v = u
      BY <2>8, <2>9, <3>2 DEF IInv, WaitInv
    <3>3. ASSUME NEW d \in Cmds, d <= cmds PROVE d <= cmds'
      BY <1>1, <1>3, <3>3, CmdFacts
    <3>4. QED BY <1>1, <3>1, <3>2, <3>3
  <2>12. \A d \in Cmds : d > cmds' => outcomes'[d] = 0
    BY <1>1, <1>3, CmdFacts DEF IInv, WaitInv
  <2>13. QED BY <2>6, <2>7, <2>11, <2>12 DEF WaitInv
<1>15. SameLanes
  BY <1>1 DEF SameLanes
<1>16. OneLanePerEndpoint'
  <2>1. {f \in Endpoints : slots[f].running}' = {f \in Endpoints : slots[f].running}
    BY <1>8
  <2>2. Laned' = Laned /\ {lane[d].at : d \in Laned}' = {lane[d].at : d \in Laned}
    BY <1>1 DEF Laned
  <2>3. \A f \in Endpoints : Vain(f)' <=> IF f = e THEN slots[e].running ELSE Vain(f)
    BY <1>5, <1>8 DEF Vain
  <2>4. ready \in Seq(Endpoints) /\ IsInjective(ready) /\ ToSet(ready) = {f \in Endpoints : ~Vain(f)}
    BY DEF IInv, SharedTypes, OneLanePerEndpoint
  <2>5. IsInjective(ready') /\ ToSet(ready') = {f \in Endpoints : ~Vain(f)'}
    <3>1. CASE ~slots[e].running /\ slots[e].pending = 0
      <4>1. Vain(e) /\ ready' = Append(ready, e)
        BY <1>1, <3>1 DEF Vain
      <4>2. IsInjective(ready') /\ ToSet(ready') = ToSet(ready) \cup {e}
        BY <1>4, <2>4, <4>1, AppendFacts, FreshAppend
      <4>3. QED BY <1>4, <2>3, <2>4, <3>1, <4>2
    <3>2. CASE ~(~slots[e].running /\ slots[e].pending = 0)
      <4>1. ready' = ready
        BY <1>1, <3>2
      <4>2. Vain(e) <=> slots[e].running
        BY <3>2 DEF Vain
      <4>3. QED BY <2>3, <2>4, <4>1, <4>2
    <3>3. QED BY <3>1, <3>2
  <2>6. QED BY <1>1, <2>1, <2>2, <2>5 DEF IInv, OneLanePerEndpoint
<1>17. TicketsOwned'
  <2>1. {u \in Subscribers : pc[u] = "sub_wait"}' = {u \in Subscribers : pc[u] = "sub_wait"}
    BY <1>2, <1>6, ThreadKinds
  <2>2. \A f \in Endpoints : slots'[f].ticket <=> slots[f].ticket \/ (f = e /\ ticket)
    BY <1>7, <1>8
  <2>3. queue \in Seq(Endpoints \cup Subscribers) /\ IsInjective(queue)
        /\ ToSet(queue) = {f \in Endpoints : slots[f].ticket} \cup {u \in Subscribers : pc[u] = "sub_wait"}
    BY DEF IInv, SharedTypes, TicketsOwned
  <2>4. IsInjective(queue') /\ ToSet(queue') = {f \in Endpoints : slots'[f].ticket}
                                \cup {u \in Subscribers : pc[u] = "sub_wait"}
    <3>1. CASE ticket
      <4>1. e \notin ToSet(queue) /\ e \in Endpoints \cup Subscribers
        BY <1>4, <2>3, <3>1, ThreadKinds
      <4>2. queue' = Append(queue, e)
        BY <1>1, <3>1
      <4>3. IsInjective(queue') /\ ToSet(queue') = ToSet(queue) \cup {e}
        BY <2>3, <4>1, <4>2, AppendFacts, FreshAppend
      <4>4. QED BY <1>4, <2>2, <2>3, <3>1, <4>3
    <3>2. CASE ~ticket
      <4>1. queue' = queue
        BY <1>1, <3>2
      <4>2. QED BY <2>2, <2>3, <3>2, <4>1
    <3>3. QED BY <3>1, <3>2
  <2>5. \A f \in Endpoints : slots'[f].ticket => ~Vain(f)'
    <3>1. slots[e].ticket => ~slots[e].running
      BY <1>4 DEF IInv, TicketsOwned, Vain
    <3>2. QED BY <1>5, <1>8, <2>2, <3>1 DEF IInv, TicketsOwned, Vain
  <2>6. QED BY <2>1, <2>4, <2>5 DEF TicketsOwned
<1>18. SameHolding /\ Subscribing' = Subscribing
  BY <1>1, <1>2, <1>6, <1>15, MoveHolding DEF IInv, Pcs, Laned
<1>19. PermitInv'
  BY <1>1, <1>18, PermitFrame DEF IInv
<1>20. AnsweredOnce'
  <2>1. SUFFICES ASSUME NEW d \in 1..cmds'
                 PROVE  outcomes[d] = IF \/ \E f \in Endpoints : slots'[f].pending = d
                                         \/ \E u \in Submitters : d \in gone'[u]
                                         \/ d \in Holding
                                      THEN 0 ELSE 1
    BY <1>1, <1>18 DEF AnsweredOnce, SameHolding
  <2>2. \A f \in Endpoints : slots'[f].pending = IF f = e THEN c ELSE slots[f].pending
    BY <1>8
  <2>3. \A u \in Submitters :
          gone'[u] = IF u = t THEN gone[t] \cup ({slots[e].pending} \ {0}) ELSE gone[u]
    BY <1>1 DEF IInv, ThreadTypes
  <2>4. CASE d = c
    <3>1. outcomes[c] = 0
      BY <1>3, <1>5 DEF IInv, WaitInv
    <3>2. QED BY <1>4, <2>2, <2>4, <3>1
  <2>5. CASE d # c
    <3>1. d \in 1..cmds /\ d # 0
      BY <1>1, <1>3, <2>5
    <3>2. (\E f \in Endpoints : slots'[f].pending = d) \/ (\E u \in Submitters : d \in gone'[u])
            <=> (\E f \in Endpoints : slots[f].pending = d) \/ (\E u \in Submitters : d \in gone[u])
      BY <1>4, <2>2, <2>3, <2>5, <3>1
    <3>3. outcomes[d] = IF \/ \E f \in Endpoints : slots[f].pending = d
                           \/ \E u \in Submitters : d \in gone[u]
                           \/ d \in Holding
                        THEN 0 ELSE 1
      BY <3>1 DEF IInv, AnsweredOnce
    <3>4. QED BY <3>2, <3>3
  <2>6. QED BY <2>4, <2>5
<1>21. EvidenceInv'
  BY <1>1 DEF IInv, EvidenceInv
<1>22. ProgressInv'
  BY <1>2, <1>6, ProgressMove DEF Resting
<1>23. QED BY <1>9, <1>10, <1>11, <1>12, <1>13, <1>14, <1>16, <1>17, <1>19, <1>20, <1>21, <1>22 DEF IInv

\* A superseded plan is answered outside the lock.
LEMMA PublishSupersededStep ==
  ASSUME IInv, NEW t \in Submitters, PublishSuperseded(t)
  PROVE  IInv'
<1>1. /\ pc[t] = "supersede" /\ pc' = [pc EXCEPT ![t] = "pass"]
      /\ outcomes' = [d \in Cmds |-> IF d \in gone[t] THEN outcomes[d] + 1 ELSE outcomes[d]]
      /\ gone' = [gone EXCEPT ![t] = {}]
      /\ UNCHANGED <<lock, slots, activeIds, ready, activeLanes, health, queue, inFlight,
                     recoveryInFlight, left, todo, sel, lane, sub, cmds, subs, now, best>>
  BY DEF PublishSuperseded, Publish, Goto, queueVars, budget, work, bounds
<1>2. t \in Threads /\ t \notin Cmds /\ t \notin Subscribers /\ t \notin Reporters
  BY ThreadKinds
<1>3. \A u \in Threads : pc'[u] = IF u = t THEN "pass" ELSE pc[u]
  BY <1>1, <1>2 DEF IInv, PcTypes
<1>4. \A u \in Submitters : gone[u] \subseteq Cmds /\ gone'[u] = IF u = t THEN {} ELSE gone[u]
  BY <1>1 DEF IInv, ThreadTypes
<1>5. SharedTypes'
  BY <1>1 DEF IInv, SharedTypes
<1>6. ThreadTypes'
  BY <1>1 DEF IInv, ThreadTypes
<1>7. PcTypes'
  BY <1>1, <1>2, <1>3, ThreadKinds DEF IInv, PcTypes, Pcs, PassPcs
<1>8. LockInv'
  BY <1>1, <1>2, <1>3, ThreadKinds DEF IInv, LockInv
<1>9. LaneInv'
  <2>1. cmds' \in Nat /\ cmds <= cmds' /\ t \in Threads \ Cmds
    BY <1>1, <1>2, CmdFacts DEF IInv, ThreadTypes
  <2>2. "pass" \in Pcs \ {"spawn", "spawn_release"} /\ t \notin Laned /\ SameLanes
    BY <1>1, <1>2 DEF Pcs, PassPcs, Laned, SameLanes
  <2>3. QED BY <1>1, <2>1, <2>2, LaneMove
<1>10. SameLanes
  BY <1>1 DEF SameLanes
<1>11. WaitInv'
  <2>1. \A d \in Cmds : pc'[d] = pc[d]
    BY <1>2, <1>3, ThreadKinds
  <2>2. \A f \in Endpoints : slots[f].pending # 0 => slots[f].pending \in Cmds
    BY CmdFacts DEF IInv, SharedTypes, Slot
  <2>3. \A d \in Cmds : d > cmds => d \notin gone[t]
    BY CmdFacts DEF IInv, WaitInv, ThreadTypes
  <2>4. \A d \in Cmds : d > cmds' => outcomes'[d] = 0
    BY <1>1, <2>3 DEF IInv, WaitInv
  <2>5. \A u \in Submitters : \A d \in gone'[u] :
           /\ d <= cmds' /\ lane'[d] = NoLane /\ pc'[d] = "off"
           /\ \A f \in Endpoints : slots'[f].pending # d
           /\ \A v \in Submitters : d \in gone'[v] => v = u
    BY <1>1, <1>4, <2>1 DEF IInv, WaitInv
  <2>6. QED BY <1>1, <2>1, <2>2, <2>4, <2>5 DEF IInv, WaitInv
<1>12. OneLanePerEndpoint'
  BY <1>1, <1>10, OneLaneFrame DEF IInv
<1>13. TicketsOwned'
  BY <1>1, <1>2, <1>3, TicketsFrame, ThreadKinds DEF IInv
<1>14. SameHolding /\ Subscribing' = Subscribing
  BY <1>1, <1>2, <1>10, MoveHolding DEF IInv, Pcs, PassPcs, Laned
<1>15. PermitInv'
  BY <1>1, <1>14, PermitFrame DEF IInv
<1>16. AnsweredOnce'
  <2>1. SUFFICES ASSUME NEW d \in 1..cmds
                 PROVE  outcomes'[d] = IF \/ \E f \in Endpoints : slots[f].pending = d
                                          \/ \E u \in Submitters : d \in gone'[u]
                                          \/ d \in Holding
                                       THEN 0 ELSE 1
    BY <1>1, <1>14 DEF AnsweredOnce, SameHolding
  <2>2. d \in Cmds
    BY BoundsAssumption DEF IInv, ThreadTypes, Cmds
  <2>3. outcomes[d] = IF \/ \E f \in Endpoints : slots[f].pending = d
                         \/ \E u \in Submitters : d \in gone[u]
                         \/ d \in Holding
                      THEN 0 ELSE 1
    BY DEF IInv, AnsweredOnce
  <2>4. CASE d \in gone[t]
    <3>1. /\ ~\E f \in Endpoints : slots[f].pending = d
          /\ ~\E u \in Submitters : d \in gone'[u]
          /\ d \notin Holding
      BY <1>4, <2>2, <2>4, HoldingFacts DEF IInv, WaitInv
    <3>2. outcomes[d] = 0
      BY <2>3, <2>4
    <3>3. outcomes'[d] = 1
      BY <1>1, <2>2, <2>4, <3>2
    <3>4. QED BY <3>1, <3>3
  <2>5. CASE d \notin gone[t]
    <3>1. (\E u \in Submitters : d \in gone'[u]) <=> (\E u \in Submitters : d \in gone[u])
      BY <1>4, <2>5
    <3>2. QED BY <1>1, <2>2, <2>3, <2>5, <3>1
  <2>6. QED BY <2>4, <2>5
<1>17. EvidenceInv'
  BY <1>1 DEF IInv, EvidenceInv
<1>18. ProgressInv'
  BY <1>2, <1>3, ProgressMove DEF Resting
<1>19. QED BY <1>5, <1>6, <1>7, <1>8, <1>9, <1>11, <1>12, <1>13, <1>15, <1>16, <1>17, <1>18 DEF IInv

-----------------------------------------------------------------------------
(* start_ready_lanes preserves the invariant.                               *)

\* Where a thread goes on after a pass.
LEMMA AfterFacts ==
  ASSUME PcTypes, NEW t \in Threads, pc[t] \in PassPcs \cup {"idle", "proof"}
  PROVE  /\ After(t) \in {"idle", "publish", "off"}
         /\ After(t) \in Pcs \ {"spawn", "spawn_release"}
         /\ t \in Cmds => After(t) = IF t \in Laned THEN "publish" ELSE "off"
         /\ t \notin Cmds => After(t) = "idle" /\ t \notin Laned
<1>1. QED BY DEF After, Laned, Pcs, LanePcs

\* There is a lane, and a thread answers for it.
LEMMA LanedActive ==
  ASSUME IInv, NEW t \in Threads, activeLanes > 0, ~Hands(t), t \notin Laned
  PROVE  \E u \in Threads \ {t} : ~Resting(u)
<1>1. Laned # {}
  <2>1. Cardinality({}) = 0
    BY FS_EmptySet
  <2>2. activeLanes = Cardinality(Laned)
    BY DEF IInv, OneLanePerEndpoint
  <2>3. QED BY <2>1, <2>2
<1>2. PICK c \in Cmds : lane[c] # NoLane /\ c \in Laned
  BY <1>1, HoldingFacts
<1>3. CASE pc[c] # "off"
  <2>1. c # t /\ pc[c] # "idle" /\ c \in Threads
    BY <1>2, ThreadKinds DEF IInv, PcTypes, LanePcs, PassPcs
  <2>2. QED BY <1>3, <2>1 DEF Resting
<1>4. CASE pc[c] = "off"
  <2>1. PICK u \in Threads : Hands(u) /\ sel[u] = c
    BY <1>2, <1>4 DEF IInv, LaneInv
  <2>2. u # t /\ ~Resting(u)
    BY <2>1 DEF Resting, Hands
  <2>3. QED BY <2>2
<1>5. QED BY <1>3, <1>4

\* A thread takes the lock and begins to scan the ready queue.
LEMMA BeginPassStep ==
  ASSUME IInv, NEW t \in Threads, BeginPass(t)
  PROVE  IInv'
<1> DEFINE p == IF activeLanes >= Capacity THEN After(t) ELSE "scan"
<1>1. /\ pc[t] = "pass" /\ lock = Free /\ pc' = [pc EXCEPT ![t] = p]
      /\ IF activeLanes >= Capacity THEN UNCHANGED <<lock, left>>
         ELSE lock' = t /\ left' = Len(ready)
      /\ UNCHANGED <<slots, activeIds, ready, activeLanes, health, queue, inFlight, recoveryInFlight,
                     todo, gone, sel, lane, sub, cmds, subs, now, outcomes, best>>
  BY DEF BeginPass, Goto, queueVars, budget, work, bounds, ghost
<1>2. /\ After(t) \in {"idle", "publish", "off"}
      /\ After(t) \in Pcs \ {"spawn", "spawn_release"}
      /\ t \in Cmds => After(t) = IF t \in Laned THEN "publish" ELSE "off"
      /\ t \notin Cmds => After(t) = "idle" /\ t \notin Laned
  BY <1>1, AfterFacts DEF IInv, PassPcs
<1>3. \A u \in Threads : pc'[u] = IF u = t THEN p ELSE pc[u]
  BY <1>1 DEF IInv, PcTypes
<1>4. /\ ready \in Seq(Endpoints) /\ Len(ready) \in Nat /\ Capacity \in Nat /\ Capacity > 0
  BY LenProperties, CapacityAssumption DEF IInv, SharedTypes
<1>5. p \in Pcs \ {"spawn", "spawn_release"}
  BY <1>2 DEF Pcs, PassPcs
<1>6. SharedTypes'
  BY <1>1 DEF IInv, SharedTypes
<1>7. ThreadTypes'
  BY <1>1, <1>4 DEF IInv, ThreadTypes
<1>8. PcTypes'
  BY <1>1, <1>2, <1>3, <1>5, ThreadKinds DEF IInv, PcTypes, PassPcs, LanePcs
<1>9. Laned \subseteq Cmds /\ activeLanes \in Nat
  BY HoldingFacts, FiniteHolding DEF IInv, OneLanePerEndpoint
<1>10. LockInv'
  BY <1>1, <1>2, <1>3, <1>4, <1>9, ThreadKinds DEF IInv, LockInv
<1>11. SameLanes
  BY <1>1 DEF SameLanes
<1>12. LaneInv' /\ WaitInv' /\ PermitInv' /\ AnsweredOnce'
  <2>1. t \in Laned => p # "off"
    BY <1>2, <1>9
  <2>2. t \in Cmds /\ p \in LanePcs => t \in Laned
    BY <1>2 DEF LanePcs
  <2>3. t \in Subscribers => (pc[t] \in SubPcs <=> p \in SubPcs)
    BY <1>1, <1>2 DEF SubPcs
  <2>4. p # "release"
    BY <1>2
  <2>5. QED BY <1>1, <1>5, <1>11, <2>1, <2>2, <2>3, <2>4, PlainMove
<1>13. OneLanePerEndpoint'
  BY <1>1, <1>11, OneLaneFrame DEF IInv
<1>14. TicketsOwned'
  <2>1. \A u \in Subscribers : pc'[u] = "sub_wait" <=> pc[u] = "sub_wait"
    BY <1>1, <1>2, <1>3, ThreadKinds
  <2>2. QED BY <1>1, <2>1, TicketsFrame DEF IInv
<1>15. EvidenceInv'
  BY <1>1 DEF IInv, EvidenceInv
<1>16. ProgressInv'
  <2>1. CASE activeLanes >= Capacity
    <3>1. \E u \in Threads : ~Resting(u)'
      <4>1. CASE t \in Laned
        BY <1>2, <1>3, <1>9, <2>1, <4>1 DEF Resting
      <4>2. CASE t \notin Laned
        <5>1. PICK u \in Threads \ {t} : ~Resting(u)
          BY <1>1, <1>4, <1>9, <2>1, <4>2, LanedActive DEF Hands
        <5>2. QED BY <1>3, <5>1 DEF Resting
      <4>3. QED BY <4>1, <4>2
    <3>2. \A u \in Threads : pc'[u] # "scan"
      BY <1>1, <1>2, <1>3, <2>1, ThreadKinds DEF IInv, LockInv
    <3>3. QED BY <3>1, <3>2 DEF ProgressInv
  <2>2. CASE ~(activeLanes >= Capacity)
    <3>1. pc'[t] = "scan" /\ ~Resting(t)'
      BY <1>3, <2>2 DEF Resting
    <3>2. \A u \in Threads : u # t => ~Alone(u)'
      BY <3>1 DEF Alone
    <3>3. (left' + 1)..Len(ready') = {}
      BY <1>1, <1>4, <2>2
    <3>4. QED BY <3>1, <3>2, <3>3 DEF ProgressInv
  <2>3. QED BY <2>1, <2>2
<1>17. QED BY <1>6, <1>7, <1>8, <1>10, <1>12, <1>13, <1>14, <1>15, <1>16 DEF IInv

\* A pass without company finds the budget unused and no subscription waiting.
LEMMA AloneFacts ==
  ASSUME IInv, NEW t \in Threads, pc[t] = "scan", Alone(t)
  PROVE  /\ inFlight = 0 /\ recoveryInFlight = 0
         /\ \A u \in Subscribers : pc[u] # "sub_wait"
<1>1. \A u \in Threads : u # t => pc[u] \in {"idle", "off"}
  BY DEF Alone, Resting
<1>2. Holding = {}
  <2>1. SUFFICES ASSUME NEW c \in Cmds, c \in Holding PROVE FALSE
    BY HoldingFacts
  <2>2. /\ lane[c] # NoLane /\ c \in Threads /\ c # t
        /\ (\E u \in Threads : pc[u] = "spawn" /\ sel[u] = c) \/ pc[c] \notin {"off", "release"}
    BY <2>1, HoldingFacts, ThreadKinds DEF Alone
  <2>3. pc[c] # "idle"
    BY DEF IInv, PcTypes, LanePcs, PassPcs
  <2>4. QED BY <1>1, <2>2, <2>3
<1>3. Subscribing = {}
  BY <1>1, ThreadKinds DEF Subscribing
<1>4. RecoveryHolding = {} /\ ReadyHolding = {}
  BY <1>2 DEF RecoveryHolding, ReadyHolding
<1>5. Cardinality({}) = 0
  BY FS_EmptySet
<1>6. inFlight = 0 /\ recoveryInFlight = 0
  BY <1>3, <1>4, <1>5 DEF IInv, PermitInv
<1>7. QED BY <1>1, <1>6, ThreadKinds

\* The scan has come to its end: the lock is given up.
LEMMA EndPassStep ==
  ASSUME IInv, NEW t \in Threads, EndPass(t)
  PROVE  IInv'
<1>1. /\ pc[t] = "scan" /\ left = 0 /\ lock' = Free /\ pc' = [pc EXCEPT ![t] = After(t)]
      /\ UNCHANGED <<slots, activeIds, ready, activeLanes, health, queue, inFlight, recoveryInFlight,
                     left, todo, gone, sel, lane, sub, cmds, subs, now, outcomes, best>>
  BY DEF EndPass, Goto, queueVars, budget, locals, work, bounds, ghost
<1>2. /\ After(t) \in {"idle", "publish", "off"}
      /\ After(t) \in Pcs \ {"spawn", "spawn_release"}
      /\ t \in Cmds => After(t) = IF t \in Laned THEN "publish" ELSE "off"
      /\ t \notin Cmds => After(t) = "idle" /\ t \notin Laned
  BY <1>1, AfterFacts DEF IInv, PassPcs
<1>3. \A u \in Threads : pc'[u] = IF u = t THEN After(t) ELSE pc[u]
  BY <1>1 DEF IInv, PcTypes
<1>4. SharedTypes'
  BY <1>1 DEF IInv, SharedTypes
<1>5. ThreadTypes'
  BY <1>1 DEF IInv, ThreadTypes
<1>6. PcTypes'
  BY <1>1, <1>2, <1>3, ThreadKinds DEF IInv, PcTypes, PassPcs, LanePcs
<1>7. \A u \in Threads : pc'[u] \notin {"enqueue", "scan"}
  BY <1>1, <1>2, <1>3 DEF IInv, LockInv
<1>8. LockInv'
  BY <1>1, <1>7, ThreadKinds DEF IInv, LockInv
<1>9. SameLanes
  BY <1>1 DEF SameLanes
<1>10. LaneInv' /\ WaitInv' /\ PermitInv' /\ AnsweredOnce'
  <2>1. t \in Laned => After(t) # "off"
    BY <1>2, HoldingFacts
  <2>2. t \in Cmds /\ After(t) \in LanePcs => t \in Laned
    BY <1>2 DEF LanePcs
  <2>3. t \in Subscribers => (pc[t] \in SubPcs <=> After(t) \in SubPcs)
    BY <1>1, <1>2 DEF SubPcs
  <2>4. After(t) # "release"
    BY <1>2
  <2>5. QED BY <1>1, <1>2, <1>9, <2>1, <2>2, <2>3, <2>4, PlainMove
<1>11. OneLanePerEndpoint'
  BY <1>1, <1>9, OneLaneFrame DEF IInv
<1>12. TicketsOwned'
  <2>1. \A u \in Subscribers : pc'[u] = "sub_wait" <=> pc[u] = "sub_wait"
    BY <1>1, <1>2, <1>3, ThreadKinds
  <2>2. QED BY <1>1, <2>1, TicketsFrame DEF IInv
<1>13. EvidenceInv'
  BY <1>1 DEF IInv, EvidenceInv
<1>14. ProgressInv'
  <2>1. SUFFICES ASSUME ready # <<>>, \A u \in Threads : Resting(u)'
                 PROVE  FALSE
    BY <1>1, <1>7 DEF ProgressInv
  <2>2. Alone(t)
    <3>1. t \notin Laned
      BY <1>2, <1>3, <2>1, HoldingFacts DEF Resting
    <3>2. QED BY <1>3, <2>1, <3>1 DEF Alone, Resting
  <2>3. \A i \in 1..Len(ready) : slots[ready[i]].ticket /\ Head(queue) # ready[i]
    BY <1>1, <2>2 DEF IInv, ProgressInv
  <2>4. /\ ready \in Seq(Endpoints) /\ queue \in Seq(Endpoints \cup Subscribers)
        /\ ToSet(ready) = {f \in Endpoints : ~Vain(f)}
        /\ ToSet(queue) = {f \in Endpoints : slots[f].ticket} \cup {u \in Subscribers : pc[u] = "sub_wait"}
        /\ \A f \in Endpoints : slots[f].ticket => ~Vain(f)
    BY DEF IInv, SharedTypes, OneLanePerEndpoint, TicketsOwned
  <2>5. \A x : x \in ToSet(ready) <=> \E i \in 1..Len(ready) : ready[i] = x
    BY <2>4, ToSetFacts
  <2>6. PICK f : f \in ToSet(ready)
    BY <2>1, <2>4, ToSetFacts
  <2>7. f \in Endpoints /\ slots[f].ticket
    BY <2>3, <2>4, <2>5, <2>6
  <2>8. Head(queue) \in ToSet(queue)
    <3>1. ToSet(queue) # {}
      BY <2>4, <2>7
    <3>2. QED BY <2>4, <3>1, ToSetFacts
  <2>9. Head(queue) \in Endpoints /\ slots[Head(queue)].ticket
    BY <1>1, <2>2, <2>4, <2>8, AloneFacts
  <2>10. Head(queue) \in ToSet(ready)
    BY <2>4, <2>9
  <2>11. QED BY <2>3, <2>5, <2>10
<1>15. QED BY <1>4, <1>5, <1>6, <1>8, <1>10, <1>11, <1>12, <1>13, <1>14 DEF IInv

\* What a pass finds at the head of the ready queue.
LEMMA ScanFacts ==
  ASSUME IInv, NEW t \in Threads, pc[t] = "scan", left > 0, NEW e, e = Head(ready)
  PROVE  /\ ready \in Seq(Endpoints) /\ ready # <<>> /\ e \in Endpoints /\ e \in ToSet(ready)
         /\ Tail(ready) \in Seq(Endpoints) /\ IsInjective(Tail(ready))
         /\ ToSet(Tail(ready)) = ToSet(ready) \ {e}
         /\ ToSet(ready) = {f \in Endpoints : ~Vain(f)}
         /\ \A f \in Endpoints : slots[f] \in Slot
         /\ ~Vain(e) /\ ~slots[e].running
         /\ slots[e].pending \in Cmds /\ slots[e].pending # t
         /\ lane[slots[e].pending] = NoLane /\ pc[slots[e].pending] = "off"
         /\ queue \in Seq(Endpoints \cup Subscribers) /\ IsInjective(queue)
         /\ lock = t /\ activeLanes < Capacity /\ left <= Len(ready)
         /\ \A u \in Threads : u # t => pc[u] \notin {"enqueue", "scan"}
<1>1. /\ lock = t /\ activeLanes < Capacity /\ left <= Len(ready)
      /\ \A u \in Threads : u # t => pc[u] \notin {"enqueue", "scan"}
  BY DEF IInv, LockInv
<1>2. ready \in Seq(Endpoints) /\ IsInjective(ready) /\ ToSet(ready) = {f \in Endpoints : ~Vain(f)}
  BY DEF IInv, SharedTypes, OneLanePerEndpoint
<1>3. ready # <<>>
  <2>1. Len(ready) # 0
    BY <1>1, <1>2, LenProperties DEF IInv, ThreadTypes
  <2>2. Len(<<>>) = 0
    BY EmptySeq
  <2>3. QED BY <2>1, <2>2, Zenon
<1>4. e \in Endpoints /\ e \in ToSet(ready)
  BY <1>2, <1>3, ToSetFacts
<1>5. /\ Tail(ready) \in Seq(Endpoints) /\ IsInjective(Tail(ready))
      /\ ToSet(Tail(ready)) = ToSet(ready) \ {e}
  BY <1>2, <1>3, TailFacts, QueueTail
<1>6. \A f \in Endpoints : slots[f] \in Slot
  BY DEF IInv, SharedTypes
<1>7. ~Vain(e) /\ ~slots[e].running /\ slots[e].pending # 0
  BY <1>2, <1>4 DEF Vain
<1>8. slots[e].pending \in Cmds
  BY <1>4, <1>6, <1>7, CmdFacts DEF Slot
<1>9. lane[slots[e].pending] = NoLane /\ pc[slots[e].pending] = "off"
  BY <1>4, <1>7 DEF IInv, WaitInv
<1>10. slots[e].pending # t
  BY <1>9
<1>11. queue \in Seq(Endpoints \cup Subscribers) /\ IsInjective(queue)
  BY DEF IInv, SharedTypes, TicketsOwned
<1>12. QED BY <1>1, <1>2, <1>3, <1>4, <1>5, <1>6, <1>7, <1>8, <1>9, <1>10, <1>11

\* The endpoint is awaiting recovery: its plan is refused.
LEMMA ScanRefuseStep ==
  ASSUME IInv, NEW t \in Threads, ScanRefuse(t)
  PROVE  IInv'
<1> DEFINE e == Head(ready)
           c == slots[e].pending
<1>1. /\ pc[t] = "scan" /\ left > 0
      /\ slots' = [slots EXCEPT ![e] = EmptySlot] /\ queue' = RemoveFirst(queue, e)
      /\ activeIds' = activeIds \ {c} /\ ready' = Tail(ready)
      /\ outcomes' = [d \in Cmds |-> IF d \in {c} THEN outcomes[d] + 1 ELSE outcomes[d]]
      /\ lock' = Free /\ pc' = [pc EXCEPT ![t] = "pass"] /\ left' = 0
      /\ UNCHANGED <<activeLanes, health, inFlight, recoveryInFlight, todo, gone, sel, lane, sub, cmds,
                     subs, now, best>>
  BY DEF ScanRefuse, Publish, Goto, work, bounds
<1>2. /\ ready \in Seq(Endpoints) /\ e \in Endpoints
      /\ Tail(ready) \in Seq(Endpoints) /\ IsInjective(Tail(ready))
      /\ ToSet(Tail(ready)) = ToSet(ready) \ {e}
      /\ ToSet(ready) = {f \in Endpoints : ~Vain(f)}
      /\ \A f \in Endpoints : slots[f] \in Slot
      /\ ~slots[e].running /\ c \in Cmds /\ lane[c] = NoLane /\ pc[c] = "off"
      /\ queue \in Seq(Endpoints \cup Subscribers) /\ IsInjective(queue)
      /\ \A u \in Threads : u # t => pc[u] \notin {"enqueue", "scan"}
  BY <1>1, ScanFacts
<1>3. \A u \in Threads : pc'[u] = IF u = t THEN "pass" ELSE pc[u]
  BY <1>1 DEF IInv, PcTypes
<1>4. \A f \in Endpoints : slots'[f] = IF f = e THEN EmptySlot ELSE slots[f]
  BY <1>1, <1>2 DEF IInv, SharedTypes
<1>5. /\ RemoveFirst(queue, e) \in Seq(Endpoints \cup Subscribers)
      /\ IsInjective(RemoveFirst(queue, e)) /\ ToSet(RemoveFirst(queue, e)) = ToSet(queue) \ {e}
  BY <1>2, RemoveFirstFacts
<1>6. SharedTypes'
  <2>1. EmptySlot \in Slot
    BY CmdFacts DEF EmptySlot, Slot
  <2>2. slots' \in [Endpoints -> Slot]
    BY <1>1, <2>1 DEF IInv, SharedTypes
  <2>3. QED BY <1>1, <1>2, <1>5, <2>2 DEF IInv, SharedTypes
<1>7. ThreadTypes'
  BY <1>1 DEF IInv, ThreadTypes
<1>8. PcTypes'
  BY <1>1, <1>3, ThreadKinds DEF IInv, PcTypes, Pcs, PassPcs
<1>9. LockInv'
  BY <1>1, <1>2, <1>3, ThreadKinds DEF IInv, LockInv
<1>10. SameLanes /\ "pass" \in Pcs \ {"spawn", "spawn_release"}
  BY <1>1 DEF SameLanes, Pcs, PassPcs
<1>11. LaneInv'
  <2>1. cmds' \in Nat /\ cmds <= cmds' /\ "pass" \notin LanePcs
    BY <1>1, CmdFacts DEF IInv, ThreadTypes, LanePcs
  <2>2. QED BY <1>1, <1>10, <2>1, LaneMove
<1>12. \A d \in Cmds : pc[d] = "off" => pc'[d] = "off"
  BY <1>1, <1>3, ThreadKinds
<1>13. \A f \in Endpoints : slots'[f].pending = IF f = e THEN 0 ELSE slots[f].pending
  BY <1>4 DEF EmptySlot
<1>14. WaitInv'
  <2>1. \A f \in Endpoints : slots[f].pending # 0 => slots[f].pending \in Cmds
    BY <1>2, CmdFacts DEF Slot
  <2>2. \A f \in Endpoints : slots'[f].pending # 0 =>
          /\ slots'[f].pending <= cmds'
          /\ lane'[slots'[f].pending] = NoLane /\ pc'[slots'[f].pending] = "off"
    BY <1>1, <1>12, <1>13, <2>1 DEF IInv, WaitInv
  <2>3. \A f, g \in Endpoints : slots'[f].pending = slots'[g].pending /\ slots'[f].pending # 0 => f = g
    BY <1>13 DEF IInv, WaitInv
  <2>4. \A u \in Submitters : gone[u] \subseteq Cmds
    BY DEF IInv, ThreadTypes
  <2>5. \A u \in Submitters : \A d \in gone'[u] :
           /\ d <= cmds' /\ lane'[d] = NoLane /\ pc'[d] = "off"
           /\ \A f \in Endpoints : slots'[f].pending # d
           /\ \A v \in Submitters : d \in gone'[v] => v = u
    BY <1>1, <1>12, <1>13, <2>4, CmdFacts DEF IInv, WaitInv
  <2>6. \A d \in Cmds : d > cmds' => outcomes'[d] = 0
    <3>1. \A d \in Cmds : d > cmds => d # c
      BY <1>2, CmdFacts DEF IInv, WaitInv, ThreadTypes
    <3>2. QED BY <1>1, <3>1 DEF IInv, WaitInv
  <2>7. QED BY <2>2, <2>3, <2>5, <2>6 DEF WaitInv
<1>15. \A f \in Endpoints : Vain(f)' <=> f = e \/ Vain(f)
  BY <1>4 DEF Vain, EmptySlot
<1>16. OneLanePerEndpoint'
  <2>1. {f \in Endpoints : slots[f].running}' = {f \in Endpoints : slots[f].running}
    BY <1>2, <1>4 DEF EmptySlot
  <2>2. Laned' = Laned /\ {lane[d].at : d \in Laned}' = {lane[d].at : d \in Laned}
    BY <1>1 DEF Laned
  <2>3. IsInjective(ready') /\ ToSet(ready') = {f \in Endpoints : ~Vain(f)'}
    BY <1>1, <1>2, <1>15
  <2>4. QED BY <1>1, <2>1, <2>2, <2>3 DEF IInv, OneLanePerEndpoint
<1>17. TicketsOwned'
  <2>1. {u \in Subscribers : pc[u] = "sub_wait"}' = {u \in Subscribers : pc[u] = "sub_wait"}
    BY <1>1, <1>3, ThreadKinds
  <2>2. \A f \in Endpoints : slots'[f].ticket <=> f # e /\ slots[f].ticket
    BY <1>4 DEF EmptySlot
  <2>3. ToSet(queue') = {f \in Endpoints : slots'[f].ticket} \cup {u \in Subscribers : pc[u] = "sub_wait"}
    BY <1>1, <1>2, <1>5, <2>2, ThreadKinds DEF IInv, TicketsOwned
  <2>4. QED BY <1>1, <1>5, <1>15, <2>1, <2>2, <2>3 DEF IInv, TicketsOwned
<1>18. SameHolding /\ Subscribing' = Subscribing
  BY <1>1, <1>10, MoveHolding DEF IInv, SubPcs
<1>19. PermitInv'
  BY <1>1, <1>18, PermitFrame DEF IInv
<1>20. AnsweredOnce'
  <2>1. SUFFICES ASSUME NEW d \in 1..cmds
                 PROVE  outcomes'[d] = IF \/ \E f \in Endpoints : slots'[f].pending = d
                                          \/ \E u \in Submitters : d \in gone[u]
                                          \/ d \in Holding
                                       THEN 0 ELSE 1
    BY <1>1, <1>18 DEF AnsweredOnce, SameHolding
  <2>2. d \in Cmds /\ d # 0
    BY BoundsAssumption DEF IInv, ThreadTypes, Cmds
  <2>3. outcomes[d] = IF \/ \E f \in Endpoints : slots[f].pending = d
                         \/ \E u \in Submitters : d \in gone[u]
                         \/ d \in Holding
                      THEN 0 ELSE 1
    BY DEF IInv, AnsweredOnce
  <2>4. CASE d = c
    <3>1. /\ ~\E f \in Endpoints : slots'[f].pending = d
          /\ ~\E u \in Submitters : d \in gone[u]
          /\ d \notin Holding
      BY <1>2, <1>13, <2>2, <2>4, HoldingFacts DEF IInv, WaitInv
    <3>2. outcomes[d] = 0
      BY <1>2, <2>3, <2>4
    <3>3. outcomes'[d] = 1
      BY <1>1, <2>2, <2>4, <3>2
    <3>4. QED BY <3>1, <3>3
  <2>5. CASE d # c
    <3>1. (\E f \in Endpoints : slots'[f].pending = d) <=> (\E f \in Endpoints : slots[f].pending = d)
      BY <1>2, <1>13, <2>2, <2>5
    <3>2. QED BY <1>1, <2>2, <2>3, <2>5, <3>1
  <2>6. QED BY <2>4, <2>5
<1>21. EvidenceInv'
  BY <1>1 DEF IInv, EvidenceInv
<1>22. ProgressInv'
  BY <1>3, ProgressMove DEF Resting
<1>23. QED BY <1>6, <1>7, <1>8, <1>9, <1>11, <1>14, <1>16, <1>17, <1>19, <1>20, <1>21, <1>22 DEF IInv

\* The scan goes past an endpoint that has nothing to run or gets no permit.
LEMMA ScanPastStep ==
  ASSUME IInv, NEW t \in Threads, ScanPast(t)
  PROVE  IInv'
<1> DEFINE e == Head(ready)
           q == IF Ready(e) THEN RemoveFirst(queue, e)
                ELSE IF slots[e].ticket THEN queue ELSE Append(queue, e)
<1>1. /\ pc[t] = "scan" /\ left > 0
      /\ Vain(e) \/ ~MayAcquire(e)
      /\ slots' = IF Vain(e) THEN slots ELSE [slots EXCEPT ![e].ticket = ~Ready(e)]
      /\ queue' = IF Vain(e) THEN queue ELSE q
      /\ ready' = IF Vain(e) THEN Tail(ready) ELSE Append(Tail(ready), e)
      /\ left' = left - 1
      /\ UNCHANGED <<lock, activeIds, activeLanes, health, inFlight, recoveryInFlight, pc, todo,
                     gone, sel, lane, sub, cmds, subs, now, outcomes, best>>
  BY DEF ScanPast, Tickets, work, bounds, ghost
<1>2. /\ ready \in Seq(Endpoints) /\ ready # <<>> /\ e \in Endpoints /\ e \in ToSet(ready)
      /\ Tail(ready) \in Seq(Endpoints) /\ IsInjective(Tail(ready))
      /\ ToSet(Tail(ready)) = ToSet(ready) \ {e}
      /\ ToSet(ready) = {f \in Endpoints : ~Vain(f)}
      /\ \A f \in Endpoints : slots[f] \in Slot
      /\ ~Vain(e) /\ left <= Len(ready) /\ activeLanes < Capacity
      /\ queue \in Seq(Endpoints \cup Subscribers) /\ IsInjective(queue)
      /\ \A u \in Threads : u # t => pc[u] \notin {"enqueue", "scan"}
  BY <1>1, ScanFacts
<1>3. /\ ~MayAcquire(e) /\ slots' = [slots EXCEPT ![e].ticket = ~Ready(e)] /\ queue' = q
      /\ ready' = Append(Tail(ready), e)
  BY <1>1, <1>2
<1>4. \A f \in Endpoints :
        /\ slots'[f].running = slots[f].running /\ slots'[f].pending = slots[f].pending
        /\ slots'[f].ticket <=> IF f = e THEN ~Ready(e) ELSE slots[f].ticket
  <2>1. \A f \in Endpoints : f # e => slots'[f] = slots[f]
    BY <1>3 DEF IInv, SharedTypes
  <2>2. slots'[e] = [slots[e] EXCEPT !.ticket = ~Ready(e)]
    BY <1>2, <1>3 DEF IInv, SharedTypes
  <2>3. slots'[e].running = slots[e].running /\ slots'[e].pending = slots[e].pending
    BY <1>2, <2>2 DEF Slot
  <2>4. slots'[e].ticket = ~Ready(e)
    BY <1>2, <2>2 DEF Slot
  <2>5. QED BY <2>1, <2>3, <2>4
<1>5. /\ ready' \in Seq(Endpoints) /\ IsInjective(ready') /\ ToSet(ready') = ToSet(ready)
      /\ Len(ready') = Len(ready) /\ Len(ready) \in Nat
      /\ \A i \in 1..(Len(ready) - 1) : ready'[i] = ready[i + 1]
      /\ ready'[Len(ready)] = e
  <2>1. /\ Len(Tail(ready)) = Len(ready) - 1 /\ Len(ready) \in Nat /\ Len(ready) > 0
        /\ \A i \in 1..(Len(ready) - 1) : Tail(ready)[i] = ready[i + 1]
    BY <1>2, TailFacts, LenProperties
  <2>2. /\ ready' \in Seq(Endpoints) /\ Len(ready') = Len(Tail(ready)) + 1
        /\ \A i \in 1..Len(Tail(ready)) : ready'[i] = Tail(ready)[i]
        /\ ready'[Len(Tail(ready)) + 1] = e
        /\ ToSet(ready') = ToSet(Tail(ready)) \cup {e}
    <3>1. PICK r \in Seq(Endpoints) : r = Tail(ready)
      BY <1>2
    <3>2. /\ Append(r, e) \in Seq(Endpoints) /\ Len(Append(r, e)) = Len(r) + 1
          /\ \A i \in 1..Len(r) : Append(r, e)[i] = r[i]
          /\ Append(r, e)[Len(r) + 1] = e
          /\ ToSet(Append(r, e)) = ToSet(r) \cup {e}
      BY <1>2, AppendFacts
    <3>3. QED BY <1>3, <3>1, <3>2
  <2>3. IsInjective(ready')
    BY <1>2, <1>3, FreshAppend
  <2>4. Len(Tail(ready)) + 1 = Len(ready)
    BY <2>1
  <2>5. QED BY <1>2, <2>1, <2>2, <2>3, <2>4
<1>6. /\ q \in Seq(Endpoints \cup Subscribers) /\ IsInjective(q)
      /\ ToSet(q) = IF Ready(e) THEN ToSet(queue) \ {e} ELSE ToSet(queue) \cup {e}
  <2>1. e \in ToSet(queue) <=> slots[e].ticket
    BY <1>2, ThreadKinds DEF IInv, TicketsOwned
  <2>2. CASE Ready(e)
    BY <1>2, <2>2, RemoveFirstFacts
  <2>3. CASE ~Ready(e) /\ slots[e].ticket
    BY <1>2, <2>1, <2>3
  <2>4. CASE ~Ready(e) /\ ~slots[e].ticket
    BY <1>2, <2>1, <2>4, AppendFacts, FreshAppend
  <2>5. QED BY <2>2, <2>3, <2>4
<1>7. SharedTypes'
  <2>1. slots' \in [Endpoints -> Slot]
    BY <1>2, <1>3 DEF IInv, SharedTypes, Slot
  <2>2. QED BY <1>1, <1>3, <1>5, <1>6, <2>1 DEF IInv, SharedTypes
<1>8. ThreadTypes'
  BY <1>1 DEF IInv, ThreadTypes
<1>9. PcTypes'
  BY <1>1 DEF IInv, PcTypes
<1>10. LockInv'
  <2>1. left' <= Len(ready')
    BY <1>1, <1>2, <1>5 DEF IInv, ThreadTypes
  <2>2. QED BY <1>1, <2>1 DEF IInv, LockInv
<1>11. LaneInv'
  BY <1>1 DEF IInv, LaneInv, Hands
<1>12. WaitInv'
  BY <1>1, <1>4 DEF IInv, WaitInv
<1>13. \A f \in Endpoints : Vain(f)' <=> Vain(f)
  BY <1>4 DEF Vain
<1>14. OneLanePerEndpoint'
  <2>1. {f \in Endpoints : slots[f].running}' = {f \in Endpoints : slots[f].running}
    BY <1>4
  <2>2. Laned' = Laned /\ {lane[d].at : d \in Laned}' = {lane[d].at : d \in Laned}
    BY <1>1 DEF Laned
  <2>3. ToSet(ready') = {f \in Endpoints : ~Vain(f)'}
    BY <1>2, <1>5, <1>13
  <2>4. QED BY <1>1, <1>5, <2>1, <2>2, <2>3 DEF IInv, OneLanePerEndpoint
<1>15. TicketsOwned'
  <2>1. ToSet(queue') = {f \in Endpoints : slots'[f].ticket} \cup {u \in Subscribers : pc[u] = "sub_wait"}
    BY <1>2, <1>3, <1>4, <1>6, ThreadKinds DEF IInv, TicketsOwned
  <2>2. \A f \in Endpoints : slots'[f].ticket => ~Vain(f)'
    BY <1>2, <1>4, <1>13 DEF IInv, TicketsOwned
  <2>3. QED BY <1>1, <1>3, <1>6, <2>1, <2>2 DEF TicketsOwned
<1>16. SameHolding /\ Subscribing' = Subscribing
  BY <1>1 DEF SameHolding, Holding, Laned, Spawning, RecoveryHolding, ReadyHolding, Subscribing
<1>17. PermitInv'
  BY <1>1, <1>16, PermitFrame DEF IInv
<1>18. AnsweredOnce'
  <2>1. \A d : (\E f \in Endpoints : slots'[f].pending = d) <=> (\E f \in Endpoints : slots[f].pending = d)
    BY <1>4
  <2>2. QED BY <1>1, <1>16, <2>1 DEF IInv, AnsweredOnce, SameHolding
<1>19. EvidenceInv'
  BY <1>1 DEF IInv, EvidenceInv
<1>20. ProgressInv'
  <2>1. ~Resting(t)' /\ \A u \in Threads : pc'[u] = "scan" => u = t
    BY <1>1, <1>2 DEF Resting
  <2>2. SUFFICES ASSUME Alone(t), NEW i \in left..Len(ready)
                 PROVE  (~Ready(ready[i]) /\ slots[ready[i]].ticket /\ Head(queue) # ready[i])'
    <3>1. Alone(t)' <=> Alone(t)
      BY <1>1 DEF Alone, Laned, Resting
    <3>2. (left' + 1)..Len(ready') = left..Len(ready)
      BY <1>1, <1>5 DEF IInv, ThreadTypes
    <3>3. QED BY <2>1, <3>1, <3>2 DEF ProgressInv
  <2>3. Ready(ready[i])' <=> Ready(ready'[i])
    BY <1>1 DEF Ready
  <2>4. inFlight = 0 /\ recoveryInFlight = 0
    BY <1>1, <2>2, AloneFacts
  <2>5. ~Ready(e) /\ Head(q) # e
    BY <1>3, <2>4, CapacityAssumption DEF MayAcquire, Tickets
  <2>6. queue # <<>> /\ Head(queue) = Head(q)
    <3>1. CASE slots[e].ticket
      <4>1. e \in ToSet(queue)
        BY <1>2, <3>1 DEF IInv, TicketsOwned
      <4>2. queue # <<>>
        BY <1>2, <4>1, ToSetFacts
      <4>3. QED BY <2>5, <3>1, <4>2
    <3>2. CASE ~slots[e].ticket
      <4>1. q = Append(queue, e) /\ q \in Seq(Endpoints \cup Subscribers)
        BY <1>6, <2>5, <3>2
      <4>2. /\ Len(queue) \in Nat /\ q # <<>>
            /\ \A j \in 1..Len(queue) : q[j] = queue[j]
            /\ q[Len(queue) + 1] = e
        BY <1>2, <4>1, AppendFacts, LenProperties
      <4>3. Head(q) = q[1]
        BY <4>1, <4>2, ToSetFacts
      <4>4. Len(queue) # 0
        BY <2>5, <4>2, <4>3
      <4>5. queue # <<>> /\ 1 \in 1..Len(queue)
        <5>1. Len(<<>>) = 0
          BY EmptySeq
        <5>2. queue # <<>>
          BY <4>4, <5>1, Zenon
        <5>3. QED BY <4>2, <4>4, <5>2
      <4>6. Head(queue) = queue[1]
        BY <1>2, <4>5, ToSetFacts
      <4>7. QED BY <4>2, <4>3, <4>5, <4>6
    <3>3. QED BY <3>1, <3>2
  <2>7. CASE i = Len(ready)
    BY <1>2, <1>3, <1>4, <1>5, <2>3, <2>5, <2>7
  <2>8. CASE i # Len(ready)
    <3>1. i \in 1..(Len(ready) - 1) /\ i + 1 \in (left + 1)..Len(ready)
      BY <1>1, <1>5, <2>8 DEF IInv, ThreadTypes
    <3>2. ready'[i] = ready[i + 1] /\ ready[i + 1] \in Endpoints
      BY <1>2, <1>5, <3>1, ElementOfSeq
    <3>3. ~Ready(ready[i + 1]) /\ slots[ready[i + 1]].ticket /\ Head(queue) # ready[i + 1]
      BY <1>1, <2>2, <3>1 DEF IInv, ProgressInv
    <3>4. QED BY <1>3, <1>4, <2>3, <2>5, <2>6, <3>2, <3>3
  <2>9. QED BY <2>7, <2>8
<1>21. QED BY <1>7, <1>8, <1>9, <1>10, <1>11, <1>12, <1>14, <1>15, <1>17, <1>18, <1>19, <1>20 DEF IInv

\* An endpoint gets its lane and its permit under one lock.
LEMMA ScanAdmitStep ==
  ASSUME IInv, NEW t \in Threads, ScanAdmit(t)
  PROVE  IInv'
<1> DEFINE e == Head(ready)
           c == slots[e].pending
           l == [at |-> e, recovery |-> ~Ready(e), stamp |-> 0]
<1>1. /\ pc[t] = "scan" /\ left > 0 /\ MayAcquire(e)
      /\ slots' = [slots EXCEPT ![e] = [running |-> TRUE, pending |-> 0, ticket |-> FALSE]]
      /\ queue' = RemoveFirst(queue, e) /\ ready' = Tail(ready)
      /\ activeLanes' = activeLanes + 1 /\ inFlight' = inFlight + 1
      /\ recoveryInFlight' = recoveryInFlight + (IF Ready(e) THEN 0 ELSE 1)
      /\ lane' = [lane EXCEPT ![c] = l] /\ sel' = [sel EXCEPT ![t] = c]
      /\ lock' = Free /\ pc' = [pc EXCEPT ![t] = "spawn"] /\ left' = 0
      /\ UNCHANGED <<activeIds, health, todo, gone, sub, cmds, subs, now, outcomes, best>>
  BY DEF ScanAdmit, Goto, bounds
<1>2. /\ ready \in Seq(Endpoints) /\ e \in Endpoints
      /\ Tail(ready) \in Seq(Endpoints) /\ IsInjective(Tail(ready))
      /\ ToSet(Tail(ready)) = ToSet(ready) \ {e}
      /\ ToSet(ready) = {f \in Endpoints : ~Vain(f)}
      /\ \A f \in Endpoints : slots[f] \in Slot
      /\ ~slots[e].running /\ c \in Cmds /\ c # t /\ lane[c] = NoLane /\ pc[c] = "off"
      /\ queue \in Seq(Endpoints \cup Subscribers) /\ IsInjective(queue)
      /\ activeLanes < Capacity
      /\ \A u \in Threads : u # t => pc[u] \notin {"enqueue", "scan"}
  BY <1>1, ScanFacts
<1>3. \A u \in Threads : /\ pc'[u] = IF u = t THEN "spawn" ELSE pc[u]
                         /\ sel'[u] = IF u = t THEN c ELSE sel[u]
  BY <1>1 DEF IInv, PcTypes, ThreadTypes
<1>4. /\ slots'[e].running /\ slots'[e].pending = 0 /\ ~slots'[e].ticket
      /\ \A f \in Endpoints : f # e => slots'[f] = slots[f]
  BY <1>1, <1>2 DEF IInv, SharedTypes
<1>5. /\ RemoveFirst(queue, e) \in Seq(Endpoints \cup Subscribers)
      /\ IsInjective(RemoveFirst(queue, e)) /\ ToSet(RemoveFirst(queue, e)) = ToSet(queue) \ {e}
  BY <1>2, RemoveFirstFacts
<1>6. l \in Lane /\ l # NoLane /\ l.at = e /\ l.recovery = ~Ready(e)
  <2>1. l \in Lane
    BY <1>2 DEF Lane
  <2>2. QED BY <2>1, LaneIsNot
<1>7. \A d \in Cmds : lane'[d] = IF d = c THEN l ELSE lane[d]
  BY <1>1, <1>2 DEF IInv, ThreadTypes
<1>8. SharedTypes'
  <2>1. [running |-> TRUE, pending |-> 0, ticket |-> FALSE] \in Slot
    BY CmdFacts DEF Slot
  <2>2. slots' \in [Endpoints -> Slot]
    BY <1>1, <2>1 DEF IInv, SharedTypes
  <2>3. QED BY <1>1, <1>2, <1>5, <2>2 DEF IInv, SharedTypes
<1>9. ThreadTypes'
  <2>1. lane' \in [Cmds -> Lane \cup {NoLane}]
    BY <1>1, <1>6 DEF IInv, ThreadTypes
  <2>2. sel' \in [Threads -> 0..MaxCommands]
    BY <1>1, <1>2, CmdFacts DEF IInv, ThreadTypes
  <2>3. QED BY <1>1, <2>1, <2>2 DEF IInv, ThreadTypes
<1>10. PcTypes'
  BY <1>1, <1>3, ThreadKinds DEF IInv, PcTypes, Pcs, PassPcs
<1>11. activeLanes \in Nat /\ activeLanes = Cardinality(Laned)
  BY FiniteHolding DEF IInv, OneLanePerEndpoint
<1>12. LockInv'
  <2>1. activeLanes' <= Capacity
    BY <1>1, <1>2, <1>11, CapacityAssumption
  <2>2. QED BY <1>1, <1>2, <1>3, <2>1, ThreadKinds DEF LockInv
<1>13. c <= cmds /\ c # 0
  BY <1>2, CmdFacts DEF IInv, WaitInv
<1>14. LaneInv'
  <2>1. \A u \in Threads : Hands(u)' <=> u = t \/ Hands(u)
    BY <1>1, <1>3 DEF Hands
  <2>2. ~Hands(t) /\ \A u \in Threads : Hands(u) => sel[u] # c
    BY <1>1, <1>2 DEF Hands, IInv, LaneInv
  <2>3. \A d \in Cmds : pc'[d] = IF d = t THEN "spawn" ELSE pc[d]
    BY <1>3, ThreadKinds
  <2>4. \A u \in Threads : Hands(u)' => sel'[u] \in Cmds /\ lane'[sel'[u]] # NoLane /\ pc'[sel'[u]] = "off"
    <3>1. CASE TRUE
      <4>1. c \in Cmds /\ lane'[c] # NoLane /\ pc'[c] = "off"
        BY <1>2, <1>6, <1>7, <2>3
      <4>2. ASSUME NEW u \in Threads, u # t, Hands(u)
            PROVE  sel[u] \in Cmds /\ lane'[sel[u]] # NoLane /\ pc'[sel[u]] = "off"
        <5>1. sel[u] \in Cmds /\ lane[sel[u]] # NoLane /\ pc[sel[u]] = "off"
          BY <4>2 DEF IInv, LaneInv
        <5>2. sel[u] # t
          BY <1>1, <5>1
        <5>3. QED BY <1>6, <1>7, <2>3, <5>1, <5>2
      <4>3. QED BY <1>3, <2>1, <4>1, <4>2
    <3>2. QED BY <3>1
  <2>5. \A u, v \in Threads : Hands(u)' /\ Hands(v)' /\ sel'[u] = sel'[v] => u = v
    BY <1>3, <2>1, <2>2 DEF IInv, LaneInv
  <2>6. \A d \in Cmds : pc'[d] \in LanePcs => lane'[d] # NoLane
    BY <1>6, <1>7, <2>3 DEF IInv, LaneInv, LanePcs
  <2>7. \A d \in Cmds : lane'[d] # NoLane /\ pc'[d] = "off" => \E u \in Threads : Hands(u)' /\ sel'[u] = d
    <3>1. ASSUME NEW d \in Cmds, d # c, lane'[d] # NoLane, pc'[d] = "off"
          PROVE  \E u \in Threads : Hands(u)' /\ sel'[u] = d
      <4>1. lane[d] # NoLane /\ pc[d] = "off"
        BY <1>7, <2>3, <3>1
      <4>2. PICK u \in Threads : Hands(u) /\ sel[u] = d
        BY <4>1 DEF IInv, LaneInv
      <4>3. QED BY <1>3, <2>1, <2>2, <4>2
    <3>2. Hands(t)' /\ sel'[t] = c
      BY <1>3, <2>1
    <3>3. QED BY <3>1, <3>2
  <2>8. \A d \in Cmds : lane'[d] # NoLane \/ pc'[d] # "off" => d <= cmds'
    BY <1>1, <1>7, <1>13, <2>3 DEF IInv, LaneInv
  <2>9. QED BY <2>4, <2>5, <2>6, <2>7, <2>8 DEF LaneInv
<1>15. \A d \in Cmds : d # c /\ lane[d] = NoLane /\ pc[d] = "off" => lane'[d] = NoLane /\ pc'[d] = "off"
  BY <1>1, <1>3, <1>7, ThreadKinds
<1>16. WaitInv'
  <2>1. \A f \in Endpoints : slots[f].pending # 0 => slots[f].pending \in Cmds
    BY <1>2, CmdFacts DEF Slot
  <2>2. \A f \in Endpoints : slots'[f].pending # 0 => slots'[f].pending = slots[f].pending /\ slots[f].pending # c
    BY <1>2, <1>4, <1>13 DEF IInv, WaitInv
  <2>3. \A f \in Endpoints : slots'[f].pending # 0 =>
          /\ slots'[f].pending <= cmds'
          /\ lane'[slots'[f].pending] = NoLane /\ pc'[slots'[f].pending] = "off"
    BY <1>1, <1>15, <2>1, <2>2 DEF IInv, WaitInv
  <2>4. \A f, g \in Endpoints : slots'[f].pending = slots'[g].pending /\ slots'[f].pending # 0 => f = g
    BY <1>4 DEF IInv, WaitInv
  <2>5. \A u \in Submitters : gone[u] \subseteq Cmds /\ c \notin gone[u]
    BY <1>2 DEF IInv, ThreadTypes, WaitInv
  <2>6. \A u \in Submitters : \A d \in gone'[u] :
           /\ d <= cmds' /\ lane'[d] = NoLane /\ pc'[d] = "off"
           /\ \A f \in Endpoints : slots'[f].pending # d
           /\ \A v \in Submitters : d \in gone'[v] => v = u
    <3>1. \A u \in Submitters : \A d \in gone[u] :
           /\ d <= cmds /\ lane[d] = NoLane /\ pc[d] = "off" /\ d # 0 /\ d # c /\ d \in Cmds
           /\ \A f \in Endpoints : slots[f].pending # d
           /\ \A v \in Submitters : d \in gone[v] => v = u
      BY <2>5, CmdFacts DEF IInv, WaitInv
    <3>2. QED BY <1>1, <1>4, <1>15, <3>1
  <2>7. \A d \in Cmds : d > cmds' => outcomes'[d] = 0
    BY <1>1 DEF IInv, WaitInv
  <2>8. QED BY <2>3, <2>4, <2>6, <2>7 DEF WaitInv
<1>17. \A f \in Endpoints : Vain(f)' <=> f = e \/ Vain(f)
  BY <1>4 DEF Vain
<1>18. Laned' = Laned \cup {c} /\ c \notin Laned /\ \A d \in Laned : lane'[d] = lane[d]
  BY <1>2, <1>6, <1>7 DEF Laned
<1>19. OneLanePerEndpoint'
  <2>1. {f \in Endpoints : slots[f].running} = {lane[d].at : d \in Laned}
    BY DEF IInv, OneLanePerEndpoint
  <2>2. \A d \in Laned : lane[d].at # e
    BY <1>2, <2>1
  <2>3. lane'[c].at = e
    BY <1>2, <1>6, <1>7
  <2>4. \A b, d \in Laned' : lane'[b].at = lane'[d].at => b = d
    BY <1>18, <2>2, <2>3 DEF IInv, OneLanePerEndpoint
  <2>5. \A f : f \in {g \in Endpoints : slots'[g].running} <=> f = e \/ f \in {g \in Endpoints : slots[g].running}
    BY <1>2, <1>4
  <2>6. \A f : f \in {lane'[d].at : d \in Laned'} <=> f = e \/ f \in {lane[d].at : d \in Laned}
    BY <1>18, <2>3
  <2>7. {f \in Endpoints : slots'[f].running} = {lane'[d].at : d \in Laned'}
    BY <2>1, <2>5, <2>6
  <2>8. activeLanes' = Cardinality(Laned')
    BY <1>1, <1>11, <1>18, FiniteHolding, FS_AddElement
  <2>9. IsInjective(ready') /\ ToSet(ready') = {f \in Endpoints : ~Vain(f)'}
    BY <1>1, <1>2, <1>17
  <2>10. QED BY <2>4, <2>7, <2>8, <2>9 DEF OneLanePerEndpoint
<1>20. TicketsOwned'
  <2>1. {u \in Subscribers : pc[u] = "sub_wait"}' = {u \in Subscribers : pc[u] = "sub_wait"}
    BY <1>1, <1>3, ThreadKinds
  <2>2. \A f \in Endpoints : slots'[f].ticket <=> f # e /\ slots[f].ticket
    BY <1>4
  <2>3. ToSet(queue') = {f \in Endpoints : slots'[f].ticket} \cup {u \in Subscribers : pc[u] = "sub_wait"}
    BY <1>1, <1>2, <1>5, <2>2, ThreadKinds DEF IInv, TicketsOwned
  <2>4. QED BY <1>1, <1>5, <1>17, <2>1, <2>2, <2>3 DEF IInv, TicketsOwned
<1>21. Holding' = Holding \cup {c} /\ c \notin Holding
  <2>1. c \in Holding' /\ c \notin Holding
    BY <1>2, <1>3, <1>6, <1>7, HoldingFacts, HoldingNext
  <2>2. ASSUME NEW d \in Cmds, d # c
        PROVE  d \in Holding' <=> d \in Holding
    <3>1. (\E u \in Threads : pc'[u] = "spawn" /\ sel'[u] = d) <=> (\E u \in Threads : pc[u] = "spawn" /\ sel[u] = d)
      BY <1>1, <1>3, <2>2
    <3>2. pc'[d] \notin {"off", "release"} <=> pc[d] \notin {"off", "release"}
      BY <1>1, <1>3, ThreadKinds
    <3>3. QED BY <1>7, <2>2, <3>1, <3>2, HoldingFacts, HoldingNext
  <2>3. QED BY <1>2, <2>1, <2>2, HoldingFacts, HoldingNext
<1>22. PermitInv'
  <2>1. Subscribing' = Subscribing
    <3>1. \A u \in Subscribers : u \in Subscribing' <=> u \in Subscribing
      BY <1>1, <1>3, ThreadKinds DEF Subscribing
    <3>2. QED BY <3>1 DEF Subscribing
  <2>2. \A d \in Holding : d # c /\ lane'[d] = lane[d]
    BY <1>18, <1>21, HoldingFacts
  <2>3. lane'[c].recovery = ~Ready(e)
    BY <1>2, <1>6, <1>7
  <2>4. /\ inFlight < Capacity
        /\ Ready(e) => inFlight - recoveryInFlight < Capacity - 1
        /\ ~Ready(e) => recoveryInFlight = 0
    BY <1>1 DEF MayAcquire
  <2>5. /\ IsFiniteSet(Subscribing) /\ Cardinality(Subscribing) \in Nat
        /\ recoveryInFlight = Cardinality(RecoveryHolding) + Cardinality(Subscribing)
        /\ inFlight = recoveryInFlight + Cardinality(ReadyHolding)
        /\ recoveryInFlight <= 1 /\ Cardinality(ReadyHolding) <= Capacity - 1
    BY FS_CardinalityType DEF IInv, PermitInv
  <2>6. PICK x \in Nat, y \in Nat, z \in Nat :
          x = Cardinality(RecoveryHolding) /\ y = Cardinality(Subscribing) /\ z = Cardinality(ReadyHolding)
    BY <2>5, FiniteHolding
  <2>7. recoveryInFlight = x + y /\ inFlight = x + y + z /\ x + y <= 1 /\ z <= Capacity - 1
    BY <2>5, <2>6
  <2>8. CASE Ready(e)
    <3>1. RecoveryHolding' = RecoveryHolding /\ ReadyHolding' = ReadyHolding \cup {c} /\ c \notin ReadyHolding
      BY <1>21, <2>2, <2>3, <2>8 DEF RecoveryHolding, ReadyHolding
    <3>2. Cardinality(ReadyHolding') = Cardinality(ReadyHolding) + 1
      BY <3>1, FiniteHolding, FS_AddElement
    <3>3. /\ recoveryInFlight' = Cardinality(RecoveryHolding') + Cardinality(Subscribing')
          /\ inFlight' = recoveryInFlight' + Cardinality(ReadyHolding')
          /\ recoveryInFlight' <= 1 /\ inFlight' <= Capacity
          /\ Cardinality(ReadyHolding') <= Capacity - 1
      <4>1. recoveryInFlight' = x + y /\ inFlight' = x + y + z + 1
        BY <1>1, <2>7, <2>8
      <4>2. x + y + z - (x + y) < Capacity - 1 /\ x + y + z < Capacity
        BY <2>4, <2>7, <2>8
      <4>3. z + 1 <= Capacity - 1 /\ x + y + z + 1 <= Capacity
        BY <4>2, CapacityAssumption
      <4>4. QED BY <2>1, <2>6, <2>7, <3>1, <3>2, <4>1, <4>3
    <3>4. QED BY <2>1, <2>5, <3>3 DEF PermitInv
  <2>9. CASE ~Ready(e)
    <3>1. ReadyHolding' = ReadyHolding /\ RecoveryHolding' = RecoveryHolding \cup {c} /\ c \notin RecoveryHolding
      BY <1>21, <2>2, <2>3, <2>9 DEF RecoveryHolding, ReadyHolding
    <3>2. Cardinality(RecoveryHolding') = Cardinality(RecoveryHolding) + 1
      BY <3>1, FiniteHolding, FS_AddElement
    <3>3. /\ recoveryInFlight' = Cardinality(RecoveryHolding') + Cardinality(Subscribing')
          /\ inFlight' = recoveryInFlight' + Cardinality(ReadyHolding')
          /\ recoveryInFlight' <= 1 /\ inFlight' <= Capacity
          /\ Cardinality(ReadyHolding') <= Capacity - 1
      <4>1. recoveryInFlight' = x + y + 1 /\ inFlight' = x + y + z + 1
        BY <1>1, <2>7, <2>9
      <4>2. x + y = 0 /\ x + y + z < Capacity
        BY <2>4, <2>7, <2>9
      <4>3. x + y + z + 1 <= Capacity
        BY <4>2, CapacityAssumption
      <4>4. x + y + 1 = (x + 1) + y /\ x + y + 1 <= 1 /\ x + y + z + 1 = (x + y + 1) + z
        BY <4>2
      <4>5. Cardinality(RecoveryHolding') = x + 1 /\ Cardinality(ReadyHolding') = z
            /\ Cardinality(Subscribing') = y
        BY <2>1, <2>6, <3>1, <3>2
      <4>6. QED BY <2>7, <4>1, <4>3, <4>4, <4>5
    <3>4. QED BY <2>1, <2>5, <3>3 DEF PermitInv
  <2>10. QED BY <2>8, <2>9
<1>23. AnsweredOnce'
  <2>1. SUFFICES ASSUME NEW d \in 1..cmds
                 PROVE  outcomes[d] = IF \/ \E f \in Endpoints : slots'[f].pending = d
                                         \/ \E u \in Submitters : d \in gone[u]
                                         \/ d \in Holding'
                                      THEN 0 ELSE 1
    BY <1>1 DEF AnsweredOnce
  <2>2. d # 0
    BY CmdFacts DEF IInv, ThreadTypes
  <2>3. outcomes[d] = IF \/ \E f \in Endpoints : slots[f].pending = d
                         \/ \E u \in Submitters : d \in gone[u]
                         \/ d \in Holding
                      THEN 0 ELSE 1
    BY DEF IInv, AnsweredOnce
  <2>4. (\E f \in Endpoints : slots'[f].pending = d) \/ d \in Holding'
          <=> (\E f \in Endpoints : slots[f].pending = d) \/ d \in Holding
    BY <1>2, <1>4, <1>21, <2>2
  <2>5. QED BY <2>3, <2>4
<1>24. EvidenceInv'
  BY <1>1 DEF IInv, EvidenceInv
<1>25. ProgressInv'
  BY <1>3, ProgressMove DEF Resting
<1>26. QED BY <1>8, <1>9, <1>10, <1>12, <1>14, <1>16, <1>19, <1>20, <1>22, <1>23, <1>24, <1>25 DEF IInv

\* The endpoint slots when the lane of command c is given back.
LEMMA ReleaseFacts ==
  ASSUME IInv, NEW c \in Cmds, lane[c] # NoLane, ReleaseLaneState(c), UNCHANGED <<lock, health, queue>>,
         \A u \in Subscribers : pc'[u] = "sub_wait" <=> pc[u] = "sub_wait"
  PROVE  /\ lock = Free /\ SharedTypes' /\ OneLanePerEndpoint' /\ TicketsOwned'
         /\ activeLanes' <= Capacity
         /\ lane' \in [Cmds -> Lane \cup {NoLane}]
         /\ \A d \in Cmds : lane'[d] = IF d = c THEN NoLane ELSE lane[d]
         /\ \A f \in Endpoints : slots'[f].pending = slots[f].pending
<1> DEFINE e == lane[c].at
<1>1. /\ lock = Free /\ activeIds' = activeIds \ {c}
      /\ slots' = [slots EXCEPT ![e].running = FALSE]
      /\ ready' = IF slots[e].pending # 0 THEN Append(ready, e) ELSE ready
      /\ activeLanes' = activeLanes - 1
      /\ lane' = [lane EXCEPT ![c] = NoLane]
  BY DEF ReleaseLaneState, Requeue
<1>2. lane[c] \in Lane /\ e \in Endpoints /\ c \in Laned
  BY LaneIsNot, HoldingFacts DEF IInv, ThreadTypes
<1>3. \A f \in Endpoints : slots[f] \in Slot
  BY DEF IInv, SharedTypes
<1>4. /\ ~slots'[e].running /\ slots'[e].pending = slots[e].pending /\ slots'[e].ticket = slots[e].ticket
      /\ \A f \in Endpoints : f # e => slots'[f] = slots[f]
  <2>1. \A f \in Endpoints : f # e => slots'[f] = slots[f]
    BY <1>1 DEF IInv, SharedTypes
  <2>2. slots'[e] = [slots[e] EXCEPT !.running = FALSE]
    BY <1>1, <1>2 DEF IInv, SharedTypes
  <2>3. slots'[e].pending = slots[e].pending /\ slots'[e].ticket = slots[e].ticket
    BY <1>2, <1>3, <2>2 DEF Slot
  <2>4. ~slots'[e].running
    BY <1>2, <1>3, <2>2 DEF Slot
  <2>5. QED BY <2>1, <2>3, <2>4
<1>5. /\ ready \in Seq(Endpoints) /\ IsInjective(ready) /\ ToSet(ready) = {f \in Endpoints : ~Vain(f)}
      /\ {f \in Endpoints : slots[f].running} = {lane[d].at : d \in Laned}
      /\ activeLanes = Cardinality(Laned)
      /\ \A b, d \in Laned : lane[b].at = lane[d].at => b = d
  BY DEF IInv, SharedTypes, OneLanePerEndpoint
<1>6. slots[e].running /\ Vain(e) /\ e \notin ToSet(ready)
  BY <1>2, <1>5 DEF Vain
<1>7. \A d \in Cmds : lane'[d] = IF d = c THEN NoLane ELSE lane[d]
  BY <1>1 DEF IInv, ThreadTypes
<1>8. lane' \in [Cmds -> Lane \cup {NoLane}]
  BY <1>1 DEF IInv, ThreadTypes
<1>9. /\ ready' \in Seq(Endpoints) /\ IsInjective(ready')
      /\ ToSet(ready') = IF slots[e].pending # 0 THEN ToSet(ready) \cup {e} ELSE ToSet(ready)
  <2>1. CASE slots[e].pending # 0
    <3>1. ready' = Append(ready, e)
      BY <1>1, <2>1
    <3>2. QED BY <1>2, <1>5, <1>6, <2>1, <3>1, AppendFacts, FreshAppend
  <2>2. CASE slots[e].pending = 0
    BY <1>1, <1>5, <2>2
  <2>3. QED BY <2>1, <2>2
<1>10. SharedTypes'
  <2>1. slots' \in [Endpoints -> Slot]
    BY <1>1, <1>3 DEF IInv, SharedTypes, Slot
  <2>2. QED BY <1>1, <1>9, <2>1 DEF IInv, SharedTypes
<1>11. \A f \in Endpoints : Vain(f)' <=> IF f = e THEN slots[e].pending = 0 ELSE Vain(f)
  BY <1>4 DEF Vain
<1>12. OneLanePerEndpoint'
  <2>1. Laned' = Laned \ {c} /\ \A d \in Laned' : lane'[d] = lane[d]
    BY <1>7 DEF Laned
  <2>2. \A f : f \in {g \in Endpoints : slots'[g].running} <=> f \in {g \in Endpoints : slots[g].running} /\ f # e
    BY <1>2, <1>4
  <2>3. \A f : f \in {lane'[d].at : d \in Laned'} <=> f \in {lane[d].at : d \in Laned} /\ f # e
    BY <1>2, <1>5, <2>1
  <2>4. {f \in Endpoints : slots'[f].running} = {lane'[d].at : d \in Laned'}
    BY <1>5, <2>2, <2>3
  <2>5. activeLanes' = Cardinality(Laned')
    BY <1>1, <1>2, <1>5, <2>1, FiniteHolding, FS_RemoveElement
  <2>6. ToSet(ready') = {f \in Endpoints : ~Vain(f)'}
    BY <1>2, <1>5, <1>6, <1>9, <1>11
  <2>7. QED BY <1>5, <1>9, <2>1, <2>4, <2>5, <2>6 DEF OneLanePerEndpoint
<1>13. TicketsOwned'
  <2>1. \A f \in Endpoints : slots'[f].ticket = slots[f].ticket
    BY <1>4
  <2>2. ~slots[e].ticket
    BY <1>2, <1>6 DEF IInv, TicketsOwned
  <2>3. \A f \in Endpoints : slots'[f].ticket => ~Vain(f)'
    BY <1>11, <2>1, <2>2 DEF IInv, TicketsOwned
  <2>4. {f \in Endpoints : slots[f].ticket}' = {f \in Endpoints : slots[f].ticket}
    BY <2>1
  <2>5. {u \in Subscribers : pc[u] = "sub_wait"}' = {u \in Subscribers : pc[u] = "sub_wait"}
    OBVIOUS
  <2>6. QED BY <2>3, <2>4, <2>5 DEF IInv, TicketsOwned
<1>14. activeLanes' <= Capacity
  BY <1>1, <1>5, FiniteHolding, CapacityAssumption DEF IInv, LockInv
<1>15. QED BY <1>1, <1>4, <1>7, <1>8, <1>10, <1>12, <1>13, <1>14

\* The permit of command c is given back.
LEMMA PermitReleased ==
  ASSUME IInv, NEW c \in Holding, Holding' = Holding \ {c}, lane' = lane, Subscribing' = Subscribing,
         ReleasePermit(lane[c].recovery)
  PROVE  PermitInv'
<1>1. /\ inFlight' = inFlight - 1
      /\ recoveryInFlight' = recoveryInFlight - (IF lane[c].recovery THEN 1 ELSE 0)
  BY DEF ReleasePermit
<1>2. /\ IsFiniteSet(Subscribing) /\ Cardinality(Subscribing) \in Nat
      /\ recoveryInFlight = Cardinality(RecoveryHolding) + Cardinality(Subscribing)
      /\ inFlight = recoveryInFlight + Cardinality(ReadyHolding)
      /\ recoveryInFlight <= 1 /\ inFlight <= Capacity /\ Cardinality(ReadyHolding) <= Capacity - 1
  BY FS_CardinalityType DEF IInv, PermitInv
<1>3. PICK x \in Nat, y \in Nat, z \in Nat :
        x = Cardinality(RecoveryHolding) /\ y = Cardinality(Subscribing) /\ z = Cardinality(ReadyHolding)
  BY <1>2, FiniteHolding
<1>4. /\ recoveryInFlight = x + y /\ inFlight = x + y + z
      /\ x + y <= 1 /\ x + y + z <= Capacity /\ z <= Capacity - 1
  BY <1>2, <1>3
<1>5. CASE lane[c].recovery
  <2>1. RecoveryHolding' = RecoveryHolding \ {c} /\ c \in RecoveryHolding /\ ReadyHolding' = ReadyHolding
    BY <1>5 DEF RecoveryHolding, ReadyHolding
  <2>2. Cardinality(RecoveryHolding') = x - 1
    BY <1>3, <2>1, FiniteHolding, FS_RemoveElement
  <2>3. recoveryInFlight' = (x - 1) + y /\ inFlight' = ((x - 1) + y) + z
    BY <1>1, <1>4, <1>5
  <2>4. (x - 1) + y <= 1 /\ ((x - 1) + y) + z <= Capacity
    BY <1>4, CapacityAssumption
  <2>5. QED BY <1>2, <1>3, <1>4, <2>1, <2>2, <2>3, <2>4 DEF PermitInv
<1>6. CASE ~lane[c].recovery
  <2>1. ReadyHolding' = ReadyHolding \ {c} /\ c \in ReadyHolding /\ RecoveryHolding' = RecoveryHolding
    BY <1>6 DEF RecoveryHolding, ReadyHolding
  <2>2. Cardinality(ReadyHolding') = z - 1
    BY <1>3, <2>1, FiniteHolding, FS_RemoveElement
  <2>3. recoveryInFlight' = x + y /\ inFlight' = (x + y) + (z - 1)
    BY <1>1, <1>4, <1>6
  <2>4. (x + y) + (z - 1) <= Capacity /\ z - 1 <= Capacity - 1
    BY <1>4, CapacityAssumption
  <2>5. QED BY <1>2, <1>3, <1>4, <2>1, <2>2, <2>3, <2>4 DEF PermitInv
<1>7. QED BY <1>5, <1>6

\* The outcome of command c is published when its permit is given back.
LEMMA AnswerPublished ==
  ASSUME IInv, NEW c \in Holding, Holding' = Holding \ {c}, UNCHANGED <<slots, gone, cmds>>,
         outcomes' = [d \in Cmds |-> IF d \in {c} THEN outcomes[d] + 1 ELSE outcomes[d]]
  PROVE  AnsweredOnce'
<1>1. SUFFICES ASSUME NEW d \in 1..cmds
               PROVE  outcomes'[d] = IF \/ \E f \in Endpoints : slots[f].pending = d
                                        \/ \E u \in Submitters : d \in gone[u]
                                        \/ d \in Holding'
                                     THEN 0 ELSE 1
  BY DEF AnsweredOnce
<1>2. d \in Cmds /\ d # 0
  BY BoundsAssumption DEF IInv, ThreadTypes, Cmds
<1>3. outcomes[d] = IF \/ \E f \in Endpoints : slots[f].pending = d
                       \/ \E u \in Submitters : d \in gone[u]
                       \/ d \in Holding
                    THEN 0 ELSE 1
  BY DEF IInv, AnsweredOnce
<1>4. CASE d = c
  <2>1. lane[d] # NoLane
    BY <1>2, <1>4, HoldingFacts
  <2>2. /\ ~\E f \in Endpoints : slots[f].pending = d
        /\ ~\E u \in Submitters : d \in gone[u]
    BY <1>2, <2>1 DEF IInv, WaitInv
  <2>3. outcomes'[d] = 1
    BY <1>2, <1>3, <1>4
  <2>4. QED BY <1>4, <2>2, <2>3
<1>5. CASE d # c
  BY <1>2, <1>3, <1>5
<1>6. QED BY <1>4, <1>5

\* The lane's thread is started.
LEMMA SpawnLaneStep ==
  ASSUME IInv, NEW t \in Threads, SpawnLane(t)
  PROVE  IInv'
<1> DEFINE c == sel[t]
<1>0. /\ pc' = [pc EXCEPT ![t] = "pass", ![c] = "run"]
      /\ lane' = [lane EXCEPT ![c].stamp = now] /\ sel' = [sel EXCEPT ![t] = 0]
  BY DEF SpawnLane
<1>1. /\ pc[t] = "spawn"
      /\ UNCHANGED <<lock, slots, activeIds, ready, activeLanes, health, queue, inFlight,
                     recoveryInFlight, left, todo, gone, sub, cmds, subs, now, outcomes, best>>
  BY DEF SpawnLane, queueVars, budget, bounds, ghost
<1>2. c \in Cmds /\ lane[c] # NoLane /\ pc[c] = "off" /\ c # t /\ c \in Threads /\ Hands(t)
  BY <1>1, ThreadKinds DEF IInv, LaneInv, Hands
<1>3. lane[c] \in Lane /\ now \in Nat
  BY <1>2 DEF IInv, ThreadTypes
<1>4. \A u \in Threads : /\ pc'[u] = IF u = t THEN "pass" ELSE IF u = c THEN "run" ELSE pc[u]
                         /\ sel'[u] = IF u = t THEN 0 ELSE sel[u]
  BY <1>0, <1>2 DEF IInv, PcTypes, ThreadTypes
<1>5. lane' \in [Cmds -> Lane \cup {NoLane}] /\ SameLanes
  <2>1. [lane[c] EXCEPT !.stamp = now] \in Lane
    BY <1>3 DEF Lane
  <2>2. \A d \in Cmds : lane'[d] = IF d = c THEN [lane[c] EXCEPT !.stamp = now] ELSE lane[d]
    BY <1>0 DEF IInv, ThreadTypes
  <2>3. lane' \in [Cmds -> Lane \cup {NoLane}]
    BY <1>0, <2>1 DEF IInv, ThreadTypes
  <2>4. [lane[c] EXCEPT !.stamp = now].at = lane[c].at /\ [lane[c] EXCEPT !.stamp = now].recovery = lane[c].recovery
    BY <1>3 DEF Lane
  <2>5. [lane[c] EXCEPT !.stamp = now] # NoLane
    BY <2>1, LaneIsNot
  <2>6. QED BY <1>2, <2>2, <2>3, <2>4, <2>5 DEF SameLanes
<1>6. SharedTypes'
  BY <1>1 DEF IInv, SharedTypes
<1>7. ThreadTypes'
  BY <1>0, <1>1, <1>5, CmdFacts DEF IInv, ThreadTypes
<1>8. PcTypes'
  BY <1>0, <1>1, <1>2, <1>4, ThreadKinds DEF IInv, PcTypes, Pcs, PassPcs, LanePcs
<1>9. LockInv'
  BY <1>1, <1>2, <1>4 DEF IInv, LockInv
<1>10. \A u \in Threads : Hands(u)' <=> Hands(u) /\ u # t
  BY <1>2, <1>4 DEF Hands
<1>11. \A u \in Threads : Hands(u) /\ u # t => sel[u] # c
  BY <1>2 DEF IInv, LaneInv
<1>12. LaneInv'
  <2>1. \A d \in Cmds : lane'[d] # NoLane <=> lane[d] # NoLane
    BY <1>5 DEF SameLanes
  <2>2. \A u \in Threads : Hands(u)' => sel'[u] \in Cmds /\ lane'[sel'[u]] # NoLane /\ pc'[sel'[u]] = "off"
    <3>1. SUFFICES ASSUME NEW u \in Threads, Hands(u), u # t
                   PROVE  sel[u] \in Cmds /\ lane'[sel[u]] # NoLane /\ pc'[sel[u]] = "off"
      BY <1>4, <1>10
    <3>2. sel[u] \in Cmds /\ lane[sel[u]] # NoLane /\ pc[sel[u]] = "off" /\ sel[u] # c
      BY <1>11, <3>1 DEF IInv, LaneInv
    <3>3. sel[u] # t
      BY <1>1, <3>2
    <3>4. QED BY <1>4, <2>1, <3>2, <3>3, ThreadKinds
  <2>3. \A u, v \in Threads : Hands(u)' /\ Hands(v)' /\ sel'[u] = sel'[v] => u = v
    BY <1>4, <1>10 DEF IInv, LaneInv
  <2>4. \A d \in Cmds : pc'[d] \in LanePcs => lane'[d] # NoLane
    BY <1>2, <1>4, <2>1, ThreadKinds DEF IInv, LaneInv, LanePcs
  <2>5. \A d \in Cmds : lane'[d] # NoLane /\ pc'[d] = "off" => \E u \in Threads : Hands(u)' /\ sel'[u] = d
    <3>1. SUFFICES ASSUME NEW d \in Cmds, lane[d] # NoLane, pc'[d] = "off"
                   PROVE  \E u \in Threads : Hands(u)' /\ sel'[u] = d
      BY <2>1
    <3>2. pc[d] = "off" /\ d # c
      BY <1>4, <3>1, ThreadKinds
    <3>3. PICK u \in Threads : Hands(u) /\ sel[u] = d
      BY <3>1, <3>2 DEF IInv, LaneInv
    <3>4. u # t
      BY <3>2, <3>3
    <3>5. QED BY <1>4, <1>10, <3>3, <3>4
  <2>6. \A d \in Cmds : lane'[d] # NoLane \/ pc'[d] # "off" => d <= cmds'
    BY <1>1, <1>2, <1>4, <2>1, ThreadKinds DEF IInv, LaneInv
  <2>7. QED BY <2>2, <2>3, <2>4, <2>5, <2>6 DEF LaneInv
<1>13. WaitInv'
  <2>1. \A d \in Cmds : lane[d] = NoLane /\ pc[d] = "off" => lane'[d] = NoLane /\ pc'[d] = "off"
    BY <1>1, <1>2, <1>4, <1>5, ThreadKinds DEF SameLanes
  <2>2. \A f \in Endpoints : slots[f].pending # 0 => slots[f].pending \in Cmds
    BY CmdFacts DEF IInv, SharedTypes, Slot
  <2>3. \A u \in Submitters : \A d \in gone[u] : d \in Cmds
    BY DEF IInv, ThreadTypes
  <2>4. QED BY <1>1, <2>1, <2>2, <2>3 DEF IInv, WaitInv
<1>14. OneLanePerEndpoint'
  BY <1>1, <1>5, OneLaneFrame DEF IInv
<1>15. TicketsOwned'
  <2>1. \A u \in Subscribers : pc'[u] = "sub_wait" <=> pc[u] = "sub_wait"
    BY <1>1, <1>2, <1>4, ThreadKinds
  <2>2. QED BY <1>1, <2>1, TicketsFrame DEF IInv
<1>16. SameHolding
  <2>1. c \in Holding /\ c \in Holding'
    BY <1>1, <1>2, <1>4, <1>5, HoldingFacts, HoldingNext DEF SameLanes
  <2>2. ASSUME NEW d \in Cmds, d # c
        PROVE  d \in Holding' <=> d \in Holding
    <3>1. (\E u \in Threads : pc'[u] = "spawn" /\ sel'[u] = d) <=> (\E u \in Threads : pc[u] = "spawn" /\ sel[u] = d)
      BY <1>1, <1>2, <1>4, <2>2
    <3>2. pc'[d] \notin {"off", "release"} <=> pc[d] \notin {"off", "release"}
      BY <1>1, <1>4, <2>2, ThreadKinds
    <3>3. QED BY <1>5, <2>2, <3>1, <3>2, HoldingFacts, HoldingNext DEF SameLanes
  <2>3. Holding' = Holding /\ Holding \subseteq Cmds
    BY <1>2, <2>1, <2>2, HoldingFacts, HoldingNext
  <2>4. QED BY <1>5, <2>3 DEF SameHolding, SameLanes, RecoveryHolding, ReadyHolding
<1>17. Subscribing' = Subscribing
  <2>1. \A u \in Subscribers : u \in Subscribing' <=> u \in Subscribing
    BY <1>1, <1>2, <1>4, ThreadKinds DEF Subscribing
  <2>2. QED BY <2>1 DEF Subscribing
<1>18. PermitInv' /\ AnsweredOnce'
  BY <1>1, <1>16, <1>17, PermitFrame, AnswerFrame DEF IInv
<1>19. EvidenceInv'
  BY <1>1 DEF IInv, EvidenceInv
<1>20. ProgressInv'
  BY <1>4, ProgressMove DEF Resting
<1>21. QED BY <1>6, <1>7, <1>8, <1>9, <1>12, <1>13, <1>14, <1>15, <1>18, <1>19, <1>20 DEF IInv

\* The lane's thread cannot be started: its permit is given back.
LEMMA SpawnFailsStep ==
  ASSUME IInv, NEW t \in Threads, SpawnFails(t)
  PROVE  IInv'
<1> DEFINE c == sel[t]
<1>1. /\ pc[t] = "spawn" /\ pc' = [pc EXCEPT ![t] = "spawn_release"]
      /\ ReleasePermit(lane[c].recovery)
      /\ outcomes' = [d \in Cmds |-> IF d \in {c} THEN outcomes[d] + 1 ELSE outcomes[d]]
      /\ UNCHANGED <<lock, slots, activeIds, ready, activeLanes, health, queue, left, todo, gone, sel,
                     lane, sub, cmds, subs, now, best>>
  BY DEF SpawnFails, Publish, Goto, queueVars, locals, work, bounds
<1>2. c \in Cmds /\ lane[c] # NoLane /\ pc[c] = "off" /\ c # t /\ c \in Threads /\ Hands(t) /\ c <= cmds
  BY <1>1, ThreadKinds DEF IInv, LaneInv, Hands
<1>3. \A u \in Threads : pc'[u] = IF u = t THEN "spawn_release" ELSE pc[u]
  BY <1>1 DEF IInv, PcTypes
<1>4. SharedTypes'
  BY <1>1 DEF IInv, SharedTypes
<1>5. ThreadTypes'
  BY <1>1 DEF IInv, ThreadTypes
<1>6. PcTypes'
  BY <1>1, <1>3, ThreadKinds DEF IInv, PcTypes, Pcs, PassPcs
<1>7. LockInv'
  BY <1>1, <1>3 DEF IInv, LockInv
<1>8. \A u \in Threads : Hands(u)' <=> Hands(u)
  BY <1>1, <1>3 DEF Hands
<1>9. \A d \in Cmds : /\ pc'[d] = "off" <=> pc[d] = "off"
                      /\ pc'[d] \in LanePcs <=> pc[d] \in LanePcs
                      /\ pc'[d] \notin {"off", "release"} <=> pc[d] \notin {"off", "release"}
  BY <1>1, <1>3, ThreadKinds DEF LanePcs
<1>10. LaneInv'
  BY <1>1, <1>8, <1>9 DEF IInv, LaneInv
<1>11. WaitInv'
  <2>1. \A f \in Endpoints : slots[f].pending # 0 => slots[f].pending \in Cmds
    BY CmdFacts DEF IInv, SharedTypes, Slot
  <2>2. \A u \in Submitters : \A d \in gone[u] : d \in Cmds
    BY DEF IInv, ThreadTypes
  <2>3. \A d \in Cmds : d > cmds => d # c
    BY <1>2, CmdFacts DEF IInv, ThreadTypes
  <2>4. \A d \in Cmds : d > cmds' => outcomes'[d] = 0
    BY <1>1, <2>3 DEF IInv, WaitInv
  <2>5. QED BY <1>1, <1>9, <2>1, <2>2, <2>4 DEF IInv, WaitInv
<1>12. SameLanes
  BY <1>1 DEF SameLanes
<1>13. OneLanePerEndpoint'
  BY <1>1, <1>12, OneLaneFrame DEF IInv
<1>14. TicketsOwned'
  <2>1. \A u \in Subscribers : pc'[u] = "sub_wait" <=> pc[u] = "sub_wait"
    BY <1>1, <1>3, ThreadKinds
  <2>2. QED BY <1>1, <2>1, TicketsFrame DEF IInv
<1>15. Holding' = Holding \ {c} /\ c \in Holding
  <2>1. c \in Holding
    BY <1>1, <1>2, HoldingFacts
  <2>2. c \notin Holding'
    <3>1. ~\E u \in Threads : pc'[u] = "spawn" /\ sel'[u] = c
      BY <1>1, <1>2, <1>3 DEF IInv, LaneInv, Hands
    <3>2. pc'[c] = "off"
      BY <1>2, <1>3
    <3>3. QED BY <1>2, <3>1, <3>2, HoldingNext
  <2>3. ASSUME NEW d \in Cmds, d # c
        PROVE  d \in Holding' <=> d \in Holding
    <3>1. (\E u \in Threads : pc'[u] = "spawn" /\ sel'[u] = d) <=> (\E u \in Threads : pc[u] = "spawn" /\ sel[u] = d)
      BY <1>1, <1>3, <2>3
    <3>2. QED BY <1>1, <1>9, <2>3, <3>1, HoldingFacts, HoldingNext
  <2>4. QED BY <1>2, <2>1, <2>2, <2>3, HoldingFacts, HoldingNext
<1>16. Subscribing' = Subscribing
  <2>1. \A u \in Subscribers : u \in Subscribing' <=> u \in Subscribing
    BY <1>1, <1>3, ThreadKinds DEF Subscribing
  <2>2. QED BY <2>1 DEF Subscribing
<1>17. PermitInv'
  BY <1>1, <1>15, <1>16, PermitReleased
<1>18. AnsweredOnce'
  BY <1>1, <1>2, <1>15, AnswerPublished
<1>19. EvidenceInv'
  BY <1>1 DEF IInv, EvidenceInv
<1>20. ProgressInv'
  BY <1>3, ProgressMove DEF Resting
<1>21. QED BY <1>4, <1>5, <1>6, <1>7, <1>10, <1>11, <1>13, <1>14, <1>17, <1>18, <1>19, <1>20 DEF IInv

\* A lane that did not start frees its endpoint.
LEMMA SpawnReleaseStep ==
  ASSUME IInv, NEW t \in Threads, SpawnRelease(t)
  PROVE  IInv'
<1> DEFINE c == sel[t]
<1>1. /\ pc[t] = "spawn_release" /\ pc' = [pc EXCEPT ![t] = "pass"]
      /\ ReleaseLaneState(c) /\ sel' = [sel EXCEPT ![t] = 0]
      /\ UNCHANGED <<lock, health, queue, inFlight, recoveryInFlight, left, todo, gone, sub, cmds, subs,
                     now, outcomes, best>>
  BY DEF SpawnRelease, Goto, budget, bounds
<1>2. c \in Cmds /\ lane[c] # NoLane /\ pc[c] = "off" /\ c # t /\ c \in Threads /\ Hands(t)
  BY <1>1, ThreadKinds DEF IInv, LaneInv, Hands
<1>3. \A u \in Threads : /\ pc'[u] = IF u = t THEN "pass" ELSE pc[u]
                         /\ sel'[u] = IF u = t THEN 0 ELSE sel[u]
  BY <1>1 DEF IInv, PcTypes, ThreadTypes
<1>4. \A u \in Subscribers : pc'[u] = "sub_wait" <=> pc[u] = "sub_wait"
  BY <1>1, <1>3, ThreadKinds
<1>5. /\ lock = Free /\ SharedTypes' /\ OneLanePerEndpoint' /\ TicketsOwned'
      /\ activeLanes' <= Capacity
      /\ lane' \in [Cmds -> Lane \cup {NoLane}]
      /\ \A d \in Cmds : lane'[d] = IF d = c THEN NoLane ELSE lane[d]
      /\ \A f \in Endpoints : slots'[f].pending = slots[f].pending
  BY <1>1, <1>2, <1>4, ReleaseFacts
<1>6. ThreadTypes'
  BY <1>1, <1>5, CmdFacts DEF IInv, ThreadTypes
<1>7. PcTypes'
  BY <1>1, <1>3, ThreadKinds DEF IInv, PcTypes, Pcs, PassPcs
<1>8. LockInv'
  BY <1>1, <1>3, <1>5, ThreadKinds DEF IInv, LockInv
<1>9. \A u \in Threads : Hands(u)' <=> Hands(u) /\ u # t
  BY <1>3 DEF Hands
<1>10. \A u \in Threads : Hands(u) /\ u # t => sel[u] # c
  BY <1>2 DEF IInv, LaneInv
<1>11. \A d \in Cmds : /\ pc'[d] = "off" <=> pc[d] = "off"
                       /\ pc'[d] \in LanePcs <=> pc[d] \in LanePcs /\ d # t
                       /\ pc'[d] \notin {"off", "release"} <=> pc[d] \notin {"off", "release"}
  BY <1>1, <1>3, ThreadKinds DEF LanePcs
<1>12. LaneInv'
  <2>1. \A u \in Threads : Hands(u)' => sel'[u] \in Cmds /\ lane'[sel'[u]] # NoLane /\ pc'[sel'[u]] = "off"
    BY <1>3, <1>5, <1>9, <1>10, <1>11 DEF IInv, LaneInv
  <2>2. \A u, v \in Threads : Hands(u)' /\ Hands(v)' /\ sel'[u] = sel'[v] => u = v
    BY <1>3, <1>9 DEF IInv, LaneInv
  <2>3. \A d \in Cmds : pc'[d] \in LanePcs => lane'[d] # NoLane
    BY <1>2, <1>5, <1>11 DEF IInv, LaneInv, LanePcs
  <2>4. \A d \in Cmds : lane'[d] # NoLane /\ pc'[d] = "off" => \E u \in Threads : Hands(u)' /\ sel'[u] = d
    <3>1. SUFFICES ASSUME NEW d \in Cmds, lane'[d] # NoLane, pc'[d] = "off"
                   PROVE  \E u \in Threads : Hands(u)' /\ sel'[u] = d
      OBVIOUS
    <3>2. lane[d] # NoLane /\ pc[d] = "off" /\ d # c
      BY <1>5, <1>11, <3>1
    <3>3. PICK u \in Threads : Hands(u) /\ sel[u] = d
      BY <3>2 DEF IInv, LaneInv
    <3>4. QED BY <1>3, <1>9, <3>2, <3>3
  <2>5. \A d \in Cmds : lane'[d] # NoLane \/ pc'[d] # "off" => d <= cmds'
    BY <1>1, <1>5, <1>11 DEF IInv, LaneInv
  <2>6. QED BY <2>1, <2>2, <2>3, <2>4, <2>5 DEF LaneInv
<1>13. WaitInv'
  <2>1. \A d \in Cmds : lane[d] = NoLane /\ pc[d] = "off" => lane'[d] = NoLane /\ pc'[d] = "off"
    BY <1>5, <1>11
  <2>2. \A f \in Endpoints : slots[f].pending # 0 => slots[f].pending \in Cmds
    BY CmdFacts DEF IInv, SharedTypes, Slot
  <2>3. \A u \in Submitters : \A d \in gone[u] : d \in Cmds
    BY DEF IInv, ThreadTypes
  <2>4. QED BY <1>1, <1>5, <2>1, <2>2, <2>3 DEF IInv, WaitInv
<1>14. SameHolding
  <2>1. c \notin Holding
    <3>1. ~\E u \in Threads : pc[u] = "spawn" /\ sel[u] = c
      BY <1>1, <1>2 DEF IInv, LaneInv, Hands
    <3>2. QED BY <1>2, <3>1, HoldingFacts
  <2>2. c \notin Holding'
    BY <1>2, <1>5, HoldingNext
  <2>3. ASSUME NEW d \in Cmds, d # c
        PROVE  d \in Holding' <=> d \in Holding
    <3>1. (\E u \in Threads : pc'[u] = "spawn" /\ sel'[u] = d) <=> (\E u \in Threads : pc[u] = "spawn" /\ sel[u] = d)
      BY <1>1, <1>3, <2>3
    <3>2. QED BY <1>5, <1>11, <2>3, <3>1, HoldingFacts, HoldingNext
  <2>4. Holding' = Holding /\ \A d \in Holding : lane'[d] = lane[d]
    BY <1>2, <1>5, <2>1, <2>2, <2>3, HoldingFacts, HoldingNext
  <2>5. QED BY <2>4 DEF SameHolding, RecoveryHolding, ReadyHolding
<1>15. Subscribing' = Subscribing
  <2>1. \A u \in Subscribers : u \in Subscribing' <=> u \in Subscribing
    BY <1>1, <1>3, ThreadKinds DEF Subscribing
  <2>2. QED BY <2>1 DEF Subscribing
<1>16. PermitInv'
  BY <1>1, <1>14, <1>15, PermitFrame DEF IInv
<1>17. AnsweredOnce'
  <2>1. \A d : (\E f \in Endpoints : slots'[f].pending = d) <=> (\E f \in Endpoints : slots[f].pending = d)
    BY <1>5
  <2>2. QED BY <1>1, <1>14, <2>1 DEF IInv, AnsweredOnce, SameHolding
<1>18. EvidenceInv'
  BY <1>1 DEF IInv, EvidenceInv
<1>19. ProgressInv'
  BY <1>3, ProgressMove DEF Resting
<1>20. QED BY <1>5, <1>6, <1>7, <1>8, <1>12, <1>13, <1>16, <1>17, <1>18, <1>19 DEF IInv

-----------------------------------------------------------------------------
(* Evidence, run_lane and subscribe_with_budget preserve the invariant.     *)

\* A proof that is reported.
LEMMA ProofEvidence ==
  ASSUME IInv, NEW t, NEW e \in Endpoints, NEW at \in Nat, RecordProof(t, e, at)
  PROVE  /\ health' \in [Endpoints -> Health] /\ best' \in [Endpoints -> Evidence]
         /\ EvidenceInv' /\ lock = Free
<1>1. /\ lock = Free
      /\ best' = [best EXCEPT ![e] = IF at > @.at \/ (at = @.at /\ "proof" = "failure")
                                     THEN [at |-> at, kind |-> "proof"] ELSE @]
      /\ health' = IF at > health[e].failed /\ at > health[e].proof
                   THEN [health EXCEPT ![e] = [Unknown EXCEPT !.proof = at]] ELSE health
  BY DEF RecordProof, Better, ProofCounts
<1>2. [Unknown EXCEPT !.proof = at] = [proof |-> at, failures |-> 0, failed |-> 0, retry |-> 0]
  BY DEF Unknown
<1>3. health[e] \in Health /\ best[e] \in Evidence
  BY DEF IInv, SharedTypes, ThreadTypes
<1>4. health' \in [Endpoints -> Health]
  BY <1>1, <1>2 DEF IInv, SharedTypes, Health
<1>5. best' \in [Endpoints -> Evidence]
  BY <1>1, <1>3 DEF IInv, ThreadTypes, Evidence
<1>6. \A f \in Endpoints : f # e => health'[f] = health[f] /\ best'[f] = best[f]
  BY <1>1 DEF IInv, SharedTypes, ThreadTypes
<1>7. best'[e] = IF at > best[e].at THEN [at |-> at, kind |-> "proof"] ELSE best[e]
  BY <1>1 DEF IInv, ThreadTypes
<1>8. health'[e] = IF at > health[e].failed /\ at > health[e].proof
                   THEN [proof |-> at, failures |-> 0, failed |-> 0, retry |-> 0] ELSE health[e]
  BY <1>1, <1>2 DEF IInv, SharedTypes
<1>9. /\ best'[e].kind = "none" => best'[e].at = 0
      /\ best'[e].kind = "proof" => best'[e].at > 0
      /\ health'[e].proof = IF best'[e].kind = "proof" THEN best'[e].at ELSE 0
      /\ health'[e].failed = IF best'[e].kind = "failure" THEN best'[e].at ELSE 0
  BY <1>3, <1>7, <1>8 DEF IInv, EvidenceInv, Health, Evidence
<1>10. EvidenceInv'
  BY <1>6, <1>9 DEF IInv, EvidenceInv
<1>11. QED BY <1>1, <1>4, <1>5, <1>10

\* A failure that is reported.
LEMMA FailureEvidence ==
  ASSUME IInv, NEW e \in Endpoints, NEW at \in Nat, RecordFailure(e, at)
  PROVE  /\ health' \in [Endpoints -> Health] /\ best' \in [Endpoints -> Evidence]
         /\ EvidenceInv' /\ lock = Free
<1> DEFINE n == health[e].failures + 1
           h == [proof |-> 0, failures |-> n, failed |-> at, retry |-> now + Delay(n)]
<1>1. /\ lock = Free
      /\ best' = [best EXCEPT ![e] = IF at > @.at \/ (at = @.at /\ "failure" = "failure")
                                     THEN [at |-> at, kind |-> "failure"] ELSE @]
      /\ health' = IF health[e].proof <= at /\ health[e].failed < at
                   THEN [health EXCEPT ![e] = h] ELSE health
  BY DEF RecordFailure, Better, FailureCounts
<1>2. health[e] \in Health /\ best[e] \in Evidence /\ now \in Nat
  BY DEF IInv, SharedTypes, ThreadTypes
<1>3. h \in Health
  BY <1>2 DEF Health, Delay
<1>4. health' \in [Endpoints -> Health]
  BY <1>1, <1>3 DEF IInv, SharedTypes
<1>5. best' \in [Endpoints -> Evidence]
  BY <1>1, <1>2 DEF IInv, ThreadTypes, Evidence
<1>6. \A f \in Endpoints : f # e => health'[f] = health[f] /\ best'[f] = best[f]
  BY <1>1 DEF IInv, SharedTypes, ThreadTypes
<1>7. best'[e] = IF at > best[e].at \/ at = best[e].at THEN [at |-> at, kind |-> "failure"] ELSE best[e]
  BY <1>1 DEF IInv, ThreadTypes
<1>8. health'[e] = IF health[e].proof <= at /\ health[e].failed < at THEN h ELSE health[e]
  BY <1>1 DEF IInv, SharedTypes
<1>9. h.proof = 0 /\ h.failed = at
  OBVIOUS
<1>10. /\ best'[e].kind = "none" => best'[e].at = 0
       /\ best'[e].kind = "proof" => best'[e].at > 0
       /\ health'[e].proof = IF best'[e].kind = "proof" THEN best'[e].at ELSE 0
       /\ health'[e].failed = IF best'[e].kind = "failure" THEN best'[e].at ELSE 0
  <2> HIDE DEF h
  <2>1. QED BY <1>2, <1>7, <1>8, <1>9 DEF IInv, EvidenceInv, Health, Evidence
<1>11. EvidenceInv'
  BY <1>6, <1>10 DEF IInv, EvidenceInv
<1>12. QED BY <1>1, <1>4, <1>5, <1>11

\* While nobody holds the mutex no pass is under way.
LEMMA LockFree ==
  ASSUME IInv, lock = Free
  PROVE  \A u \in Threads : pc[u] \notin {"enqueue", "scan"}
<1>1. QED BY ThreadKinds DEF IInv, LockInv

\* An attribute report is evidence from when it was received.
LEMMA ReportStep ==
  ASSUME IInv, NEW t \in Reporters, NEW e \in Endpoints, NEW at \in 1..now, Report(t, e, at)
  PROVE  IInv'
<1> DEFINE p == IF ProofCounts(e, at) THEN "pass" ELSE "idle"
<1>1. /\ pc[t] = "idle" /\ RecordProof(t, e, at)
      /\ UNCHANGED <<lock, slots, activeIds, ready, activeLanes, queue, inFlight, recoveryInFlight,
                     left, todo, gone, sel, lane, sub, cmds, subs, now, outcomes>>
  BY DEF Report, queueVars, budget, locals, work, bounds
<1>2. t \in Threads /\ t \notin Cmds /\ t \notin Subscribers /\ t \notin Submitters /\ t \notin Laned
  BY ThreadKinds, HoldingFacts
<1>3. pc' = [pc EXCEPT ![t] = p]
  BY <1>1, <1>2 DEF RecordProof, Goto, After
<1>4. at \in Nat
  BY DEF IInv, ThreadTypes
<1>5. /\ health' \in [Endpoints -> Health] /\ best' \in [Endpoints -> Evidence]
      /\ EvidenceInv' /\ lock = Free
  BY <1>1, <1>4, ProofEvidence
<1>6. \A u \in Threads : pc'[u] = IF u = t THEN p ELSE pc[u]
  BY <1>2, <1>3 DEF IInv, PcTypes
<1>7. SharedTypes' /\ ThreadTypes'
  BY <1>1, <1>5 DEF IInv, SharedTypes, ThreadTypes
<1>8. PcTypes'
  BY <1>1, <1>2, <1>3, <1>6, ThreadKinds DEF IInv, PcTypes, Pcs, PassPcs
<1>9. \A u \in Threads : pc'[u] \notin {"enqueue", "scan"}
  BY <1>5, <1>6, LockFree
<1>10. LockInv'
  BY <1>1, <1>5, <1>9, ThreadKinds DEF IInv, LockInv
<1>11. SameLanes
  BY <1>1 DEF SameLanes
<1>12. LaneInv' /\ WaitInv' /\ PermitInv' /\ AnsweredOnce'
  BY <1>1, <1>2, <1>3, <1>11, PlainMove DEF Pcs, PassPcs
<1>13. OneLanePerEndpoint'
  BY <1>1, <1>11, OneLaneFrame DEF IInv
<1>14. TicketsOwned'
  BY <1>1, <1>2, <1>6, TicketsFrame, ThreadKinds DEF IInv
<1>15. ProgressInv'
  <2>1. \A u \in Threads : ~Resting(u) => ~Resting(u)'
    BY <1>1, <1>6 DEF Resting
  <2>2. QED BY <1>1, <1>9, <2>1 DEF IInv, ProgressInv
<1>16. QED BY <1>5, <1>7, <1>8, <1>10, <1>12, <1>13, <1>14, <1>15 DEF IInv

\* Evidence is forgotten, by node or altogether.
LEMMA ForgetStep ==
  ASSUME IInv, NEW es, Forget(es)
  PROVE  IInv'
<1>1. /\ lock = Free
      /\ health' = [e \in Endpoints |-> IF e \in es THEN Unknown ELSE health[e]]
      /\ best' = [e \in Endpoints |-> IF e \in es THEN NoEvidence ELSE best[e]]
      /\ UNCHANGED <<lock, slots, activeIds, ready, activeLanes, queue, inFlight, recoveryInFlight, pc,
                     left, todo, gone, sel, lane, sub, cmds, subs, now, outcomes>>
  BY DEF Forget, queueVars, budget, locals, work, bounds
<1>2. Unknown \in Health /\ NoEvidence \in Evidence
  BY DEF Unknown, Health, NoEvidence, Evidence
<1>3. SharedTypes' /\ ThreadTypes'
  BY <1>1, <1>2 DEF IInv, SharedTypes, ThreadTypes
<1>4. PcTypes' /\ LockInv' /\ LaneInv' /\ WaitInv'
  BY <1>1 DEF IInv, PcTypes, LockInv, LaneInv, WaitInv, Hands
<1>5. SameLanes
  BY <1>1 DEF SameLanes
<1>6. OneLanePerEndpoint' /\ TicketsOwned'
  BY <1>1, <1>5, OneLaneFrame, TicketsFrame DEF IInv
<1>7. SameHolding /\ Subscribing' = Subscribing
  BY <1>1 DEF SameHolding, Holding, Laned, Spawning, RecoveryHolding, ReadyHolding, Subscribing
<1>8. PermitInv' /\ AnsweredOnce'
  BY <1>1, <1>7, PermitFrame, AnswerFrame DEF IInv
<1>9. EvidenceInv'
  <2>1. \A e \in Endpoints : IF e \in es THEN health'[e] = Unknown /\ best'[e] = NoEvidence
                             ELSE health'[e] = health[e] /\ best'[e] = best[e]
    BY <1>1
  <2>2. QED BY <2>1 DEF IInv, EvidenceInv, Unknown, NoEvidence
<1>10. ProgressInv'
  BY <1>1, LockFree DEF IInv, ProgressInv, Resting
<1>11. QED BY <1>3, <1>4, <1>6, <1>8, <1>9, <1>10 DEF IInv

\* A thread goes on with its plan or its subscription, and perhaps records
\* evidence on the way.
LEMMA WorkMove ==
  ASSUME IInv, NEW t \in Threads, NEW p \in LanePcs \cup SubPcs \cup {"pass"}, p # "release",
         pc[t] \in LanePcs \cup SubPcs, pc[t] # "release",
         pc' = [pc EXCEPT ![t] = p],
         t \in Cmds \/ t \in Subscribers,
         t \in Cmds => p \in LanePcs \cup {"pass"}, t \in Subscribers => p \in SubPcs,
         SameLanes, SharedTypes', ThreadTypes', EvidenceInv',
         \A u \in Subscribers : pc'[u] \in {"sub_wait", "sub_run", "sub_failure"} => sub'[u].targets # <<>>,
         UNCHANGED <<lock, slots, ready, activeLanes, queue, inFlight, recoveryInFlight, left, todo,
                     gone, sel, cmds, outcomes>>
  PROVE  IInv'
<1>1. \A u \in Threads : pc'[u] = IF u = t THEN p ELSE pc[u]
  BY DEF IInv, PcTypes
<1>2. /\ t \in Cmds => pc[t] \in LanePcs /\ t \in Laned
      /\ t \in Subscribers => pc[t] \in SubPcs
  BY ThreadKinds, HoldingFacts DEF IInv, PcTypes, LaneInv, LanePcs, SubPcs, PassPcs
<1>3. PcTypes'
  BY <1>1, ThreadKinds DEF IInv, PcTypes, Pcs, PassPcs, LanePcs, SubPcs
<1>4. LockInv'
  BY <1>1 DEF IInv, LockInv, LanePcs, SubPcs
<1>5. p \in Pcs \ {"spawn", "spawn_release"} /\ p # "off"
      /\ pc[t] \notin {"off", "spawn", "spawn_release", "release"}
  BY DEF Pcs, LanePcs, SubPcs, PassPcs
<1>6. LaneInv' /\ WaitInv' /\ PermitInv' /\ AnsweredOnce'
  BY <1>2, <1>5, PlainMove, ThreadKinds
<1>7. OneLanePerEndpoint'
  BY OneLaneFrame DEF IInv
<1>8. TicketsOwned'
  <2>1. \A u \in Subscribers : pc'[u] = "sub_wait" <=> pc[u] = "sub_wait"
    BY <1>1, ThreadKinds DEF LanePcs, SubPcs
  <2>2. QED BY <2>1, TicketsFrame DEF IInv
<1>9. ProgressInv'
  <2>1. ~Resting(t)' /\ pc'[t] # "scan"
    BY <1>1 DEF Resting, LanePcs, SubPcs
  <2>2. QED BY <2>1, ProgressMove
<1>10. QED BY <1>3, <1>4, <1>6, <1>7, <1>8, <1>9 DEF IInv

\* The lanes when the one of command c notes the time.
LEMMA StampFacts ==
  ASSUME IInv, NEW c \in Cmds, lane[c] # NoLane, lane' = [lane EXCEPT ![c].stamp = now]
  PROVE  lane' \in [Cmds -> Lane \cup {NoLane}] /\ SameLanes
<1>1. lane[c] \in Lane /\ now \in Nat
  BY DEF IInv, ThreadTypes
<1>2. [lane[c] EXCEPT !.stamp = now] \in Lane
  BY <1>1 DEF Lane
<1>3. \A d \in Cmds : lane'[d] = IF d = c THEN [lane[c] EXCEPT !.stamp = now] ELSE lane[d]
  BY DEF IInv, ThreadTypes
<1>4. lane' \in [Cmds -> Lane \cup {NoLane}]
  BY <1>2 DEF IInv, ThreadTypes
<1>5. [lane[c] EXCEPT !.stamp = now].at = lane[c].at /\ [lane[c] EXCEPT !.stamp = now].recovery = lane[c].recovery
  BY <1>1 DEF Lane
<1>6. [lane[c] EXCEPT !.stamp = now] # NoLane
  BY <1>2, LaneIsNot
<1>7. QED BY <1>3, <1>4, <1>5, <1>6 DEF SameLanes

\* The lane's plan has been carried out or has failed.
LEMMA ExecuteStep ==
  ASSUME IInv, NEW c \in Cmds, Execute(c)
  PROVE  IInv'
<1>1. /\ pc[c] = "run"
      /\ UNCHANGED <<lock, slots, activeIds, ready, activeLanes, health, queue, inFlight, recoveryInFlight,
                     left, todo, gone, sel, sub, cmds, subs, now, outcomes, best>>
  BY DEF Execute, queueVars, budget, locals, bounds, ghost
<1>2. PICK p \in {"proof", "failure", "publish"} :
        /\ pc' = [pc EXCEPT ![c] = p]
        /\ lane' = [lane EXCEPT ![c].stamp = now] \/ lane' = lane
  BY DEF Execute, Goto
<1>3. c \in Threads /\ lane[c] # NoLane
  BY <1>1, ThreadKinds DEF IInv, LaneInv, LanePcs
<1>4. lane' \in [Cmds -> Lane \cup {NoLane}] /\ SameLanes
  <2>1. CASE lane' = lane
    BY <2>1 DEF IInv, ThreadTypes, SameLanes
  <2>2. CASE lane' = [lane EXCEPT ![c].stamp = now]
    BY <1>3, <2>2, StampFacts
  <2>3. QED BY <1>2, <2>1, <2>2
<1>5. SharedTypes' /\ ThreadTypes' /\ EvidenceInv'
  BY <1>1, <1>4 DEF IInv, SharedTypes, ThreadTypes, EvidenceInv
<1>6. \A u \in Subscribers : pc'[u] \in {"sub_wait", "sub_run", "sub_failure"} => sub'[u].targets # <<>>
  BY <1>1, <1>2, ThreadKinds DEF IInv, PcTypes
<1>7. p \in LanePcs /\ p # "release" /\ pc[c] \in LanePcs /\ c \notin Subscribers
  BY <1>1, ThreadKinds DEF LanePcs
<1>8. QED BY <1>1, <1>2, <1>3, <1>4, <1>5, <1>6, <1>7, WorkMove

\* A lane's success is entered as evidence.
LEMMA LaneProofStep ==
  ASSUME IInv, NEW c \in Cmds, LaneProof(c)
  PROVE  IInv'
<1> DEFINE p == IF ProofCounts(lane[c].at, lane[c].stamp) THEN "pass" ELSE "publish"
<1>1. /\ pc[c] = "proof" /\ RecordProof(c, lane[c].at, lane[c].stamp)
      /\ UNCHANGED <<lock, slots, activeIds, ready, activeLanes, queue, inFlight, recoveryInFlight,
                     left, todo, gone, sel, lane, sub, cmds, subs, now, outcomes>>
  BY DEF LaneProof, queueVars, budget, locals, work, bounds
<1>2. c \in Threads /\ lane[c] # NoLane /\ c \notin Subscribers
  BY <1>1, ThreadKinds DEF IInv, LaneInv, LanePcs
<1>3. lane[c].at \in Endpoints /\ lane[c].stamp \in Nat
  BY <1>2, LaneIsNot DEF IInv, ThreadTypes
<1>4. pc' = [pc EXCEPT ![c] = p]
  BY <1>1, <1>2 DEF RecordProof, Goto, After
<1>5. /\ health' \in [Endpoints -> Health] /\ best' \in [Endpoints -> Evidence] /\ EvidenceInv'
  BY <1>1, <1>3, ProofEvidence
<1>6. SharedTypes' /\ ThreadTypes' /\ SameLanes
  BY <1>1, <1>5 DEF IInv, SharedTypes, ThreadTypes, SameLanes
<1>7. p \in LanePcs \cup {"pass"} /\ p # "release" /\ pc[c] \in LanePcs
  BY <1>1 DEF LanePcs
<1>8. \A u \in Subscribers : pc'[u] \in {"sub_wait", "sub_run", "sub_failure"} => sub'[u].targets # <<>>
  BY <1>1, <1>4, ThreadKinds DEF IInv, PcTypes
<1> HIDE DEF p
<1>9. QED BY <1>1, <1>2, <1>4, <1>5, <1>6, <1>7, <1>8, WorkMove

\* A lane's failure is entered, if nothing newer contradicts it.
LEMMA LaneFailureStep ==
  ASSUME IInv, NEW c \in Cmds, LaneFailure(c)
  PROVE  IInv'
<1>1. /\ pc[c] = "failure" /\ RecordFailure(lane[c].at, lane[c].stamp) /\ pc' = [pc EXCEPT ![c] = "publish"]
      /\ UNCHANGED <<lock, slots, activeIds, ready, activeLanes, queue, inFlight, recoveryInFlight,
                     left, todo, gone, sel, lane, sub, cmds, subs, now, outcomes>>
  BY DEF LaneFailure, Goto, queueVars, budget, locals, work, bounds
<1>2. c \in Threads /\ lane[c] # NoLane /\ c \notin Subscribers
  BY <1>1, ThreadKinds DEF IInv, LaneInv, LanePcs
<1>3. lane[c].at \in Endpoints /\ lane[c].stamp \in Nat
  BY <1>2, LaneIsNot DEF IInv, ThreadTypes
<1>4. /\ health' \in [Endpoints -> Health] /\ best' \in [Endpoints -> Evidence] /\ EvidenceInv'
  BY <1>1, <1>3, FailureEvidence
<1>5. SharedTypes' /\ ThreadTypes' /\ SameLanes
  BY <1>1, <1>4 DEF IInv, SharedTypes, ThreadTypes, SameLanes
<1>6. "publish" \in LanePcs /\ "publish" # "release" /\ pc[c] \in LanePcs
  BY <1>1 DEF LanePcs
<1>7. \A u \in Subscribers : pc'[u] \in {"sub_wait", "sub_run", "sub_failure"} => sub'[u].targets # <<>>
  BY <1>1, ThreadKinds DEF IInv, PcTypes
<1>8. QED BY <1>1, <1>2, <1>4, <1>5, <1>6, <1>7, WorkMove

\* The outcome is published and the permit given back.
LEMMA LanePermitStep ==
  ASSUME IInv, NEW c \in Cmds, LanePermit(c)
  PROVE  IInv'
<1>1. /\ pc[c] = "publish" /\ pc' = [pc EXCEPT ![c] = "release"]
      /\ ReleasePermit(lane[c].recovery)
      /\ outcomes' = [d \in Cmds |-> IF d \in {c} THEN outcomes[d] + 1 ELSE outcomes[d]]
      /\ UNCHANGED <<lock, slots, activeIds, ready, activeLanes, health, queue, left, todo, gone, sel,
                     lane, sub, cmds, subs, now, best>>
  BY DEF LanePermit, Publish, Goto, queueVars, locals, work, bounds
<1>2. c \in Threads /\ lane[c] # NoLane /\ c \in Laned /\ c \notin Subscribers /\ c <= cmds
  BY <1>1, ThreadKinds, HoldingFacts DEF IInv, LaneInv, LanePcs
<1>3. \A u \in Threads : pc'[u] = IF u = c THEN "release" ELSE pc[u]
  BY <1>1, <1>2 DEF IInv, PcTypes
<1>4. SharedTypes'
  BY <1>1 DEF IInv, SharedTypes
<1>5. ThreadTypes'
  BY <1>1 DEF IInv, ThreadTypes
<1>6. PcTypes'
  BY <1>1, <1>2, <1>3, ThreadKinds DEF IInv, PcTypes, Pcs, LanePcs
<1>7. LockInv'
  BY <1>1, <1>3 DEF IInv, LockInv
<1>8. SameLanes
  BY <1>1 DEF SameLanes
<1>9. LaneInv'
  <2>1. cmds' \in Nat /\ cmds <= cmds'
    BY <1>1, CmdFacts DEF IInv, ThreadTypes
  <2>2. "release" \in Pcs \ {"spawn", "spawn_release"}
    BY DEF Pcs, LanePcs
  <2>3. QED BY <1>1, <1>2, <1>8, <2>1, <2>2, LaneMove
<1>10. WaitInv'
  <2>1. \A f \in Endpoints : slots[f].pending # 0 => slots[f].pending \in Cmds
    BY CmdFacts DEF IInv, SharedTypes, Slot
  <2>2. \A u \in Submitters : \A d \in gone[u] : d \in Cmds
    BY DEF IInv, ThreadTypes
  <2>3. \A d \in Cmds : d > cmds => d # c
    BY <1>2, CmdFacts DEF IInv, ThreadTypes
  <2>4. \A d \in Cmds : d > cmds' => outcomes'[d] = 0
    BY <1>1, <2>3 DEF IInv, WaitInv
  <2>5. \A d \in Cmds : pc[d] = "off" => pc'[d] = "off"
    BY <1>1, <1>3, ThreadKinds
  <2>6. QED BY <1>1, <2>1, <2>2, <2>4, <2>5 DEF IInv, WaitInv
<1>11. OneLanePerEndpoint'
  BY <1>1, <1>8, OneLaneFrame DEF IInv
<1>12. TicketsOwned'
  BY <1>1, <1>2, <1>3, TicketsFrame, ThreadKinds DEF IInv
<1>13. Holding' = Holding \ {c} /\ c \in Holding
  <2>0. \A u \in Threads : pc'[u] = "spawn" <=> pc[u] = "spawn"
    BY <1>1, <1>3
  <2>1. c \in Holding
    BY <1>1, <1>2, HoldingFacts
  <2>2. c \notin Holding'
    <3>1. ~\E u \in Threads : pc'[u] = "spawn" /\ sel'[u] = c
      BY <1>1, <2>0 DEF IInv, LaneInv, Hands
    <3>2. QED BY <1>2, <1>3, <3>1, HoldingNext
  <2>3. \A d \in Cmds : d # c => (d \in Holding' <=> d \in Holding)
    BY <1>1, <1>3, <2>0, ThreadKinds, HoldingFacts, HoldingNext
  <2>4. QED BY <2>1, <2>2, <2>3, HoldingFacts, HoldingNext
<1>14. Subscribing' = Subscribing
  <2>1. \A u \in Subscribers : u \in Subscribing' <=> u \in Subscribing
    BY <1>2, <1>3, ThreadKinds DEF Subscribing
  <2>2. QED BY <2>1 DEF Subscribing
<1>15. PermitInv'
  BY <1>1, <1>13, <1>14, PermitReleased
<1>16. AnsweredOnce'
  BY <1>1, <1>13, AnswerPublished
<1>17. EvidenceInv'
  BY <1>1 DEF IInv, EvidenceInv
<1>18. ProgressInv'
  BY <1>2, <1>3, ProgressMove DEF Resting
<1>19. QED BY <1>4, <1>5, <1>6, <1>7, <1>9, <1>10, <1>11, <1>12, <1>15, <1>16, <1>17, <1>18 DEF IInv

\* The lane ends and frees its endpoint.
LEMMA LaneReleaseStep ==
  ASSUME IInv, NEW c \in Cmds, LaneRelease(c)
  PROVE  IInv'
<1>1. /\ pc[c] = "release" /\ pc' = [pc EXCEPT ![c] = "pass"]
      /\ ReleaseLaneState(c)
      /\ UNCHANGED <<lock, health, queue, inFlight, recoveryInFlight, left, todo, gone, sel, sub, cmds,
                     subs, now, outcomes, best>>
  BY DEF LaneRelease, FinishLane, Goto, budget, locals, bounds
<1>2. c \in Threads /\ lane[c] # NoLane /\ c \notin Subscribers /\ c <= cmds
  BY <1>1, ThreadKinds DEF IInv, LaneInv, LanePcs
<1>3. \A u \in Threads : pc'[u] = IF u = c THEN "pass" ELSE pc[u]
  BY <1>1, <1>2 DEF IInv, PcTypes
<1>4. \A u \in Subscribers : pc'[u] = "sub_wait" <=> pc[u] = "sub_wait"
  BY <1>2, <1>3, ThreadKinds
<1>5. /\ lock = Free /\ SharedTypes' /\ OneLanePerEndpoint' /\ TicketsOwned'
      /\ activeLanes' <= Capacity
      /\ lane' \in [Cmds -> Lane \cup {NoLane}]
      /\ \A d \in Cmds : lane'[d] = IF d = c THEN NoLane ELSE lane[d]
      /\ \A f \in Endpoints : slots'[f].pending = slots[f].pending
  BY <1>1, <1>2, <1>4, ReleaseFacts
<1>6. ThreadTypes'
  BY <1>1, <1>5 DEF IInv, ThreadTypes
<1>7. PcTypes'
  BY <1>1, <1>2, <1>3, ThreadKinds DEF IInv, PcTypes, Pcs, PassPcs
<1>8. LockInv'
  BY <1>1, <1>3, <1>5, ThreadKinds DEF IInv, LockInv
<1>9. /\ \A u \in Threads : Hands(u)' <=> Hands(u)
      /\ \A u \in Threads : Hands(u) => sel[u] # c
  BY <1>1, <1>3 DEF IInv, LaneInv, Hands
<1>10. \A d \in Cmds : /\ pc'[d] = "off" <=> pc[d] = "off"
                       /\ pc'[d] \in LanePcs <=> pc[d] \in LanePcs /\ d # c
                       /\ d # c => pc'[d] = pc[d]
  BY <1>1, <1>3, ThreadKinds DEF LanePcs
<1>11. LaneInv'
  <2>1. \A u \in Threads : Hands(u)' => sel'[u] \in Cmds /\ lane'[sel'[u]] # NoLane /\ pc'[sel'[u]] = "off"
    BY <1>1, <1>5, <1>9, <1>10 DEF IInv, LaneInv
  <2>2. \A u, v \in Threads : Hands(u)' /\ Hands(v)' /\ sel'[u] = sel'[v] => u = v
    BY <1>1, <1>9 DEF IInv, LaneInv
  <2>3. \A d \in Cmds : pc'[d] \in LanePcs => lane'[d] # NoLane
    BY <1>5, <1>10 DEF IInv, LaneInv
  <2>4. \A d \in Cmds : lane'[d] # NoLane /\ pc'[d] = "off" => \E u \in Threads : Hands(u)' /\ sel'[u] = d
    BY <1>1, <1>5, <1>9, <1>10 DEF IInv, LaneInv
  <2>5. \A d \in Cmds : lane'[d] # NoLane \/ pc'[d] # "off" => d <= cmds'
    BY <1>1, <1>5, <1>10 DEF IInv, LaneInv
  <2>6. QED BY <2>1, <2>2, <2>3, <2>4, <2>5 DEF LaneInv
<1>12. WaitInv'
  <2>1. \A d \in Cmds : lane[d] = NoLane /\ pc[d] = "off" => lane'[d] = NoLane /\ pc'[d] = "off"
    BY <1>5, <1>10
  <2>2. \A f \in Endpoints : slots[f].pending # 0 => slots[f].pending \in Cmds
    BY CmdFacts DEF IInv, SharedTypes, Slot
  <2>3. \A u \in Submitters : \A d \in gone[u] : d \in Cmds
    BY DEF IInv, ThreadTypes
  <2>4. QED BY <1>1, <1>5, <2>1, <2>2, <2>3 DEF IInv, WaitInv
<1>13. SameHolding
  <2>1. c \notin Holding
    <3>1. ~\E u \in Threads : pc[u] = "spawn" /\ sel[u] = c
      BY <1>9 DEF Hands
    <3>2. QED BY <1>1, <3>1, HoldingFacts
  <2>2. c \notin Holding'
    BY <1>5, HoldingNext
  <2>3. ASSUME NEW d \in Cmds, d # c
        PROVE  d \in Holding' <=> d \in Holding
    <3>1. (\E u \in Threads : pc'[u] = "spawn" /\ sel'[u] = d) <=> (\E u \in Threads : pc[u] = "spawn" /\ sel[u] = d)
      BY <1>1, <1>3
    <3>2. QED BY <1>5, <1>10, <2>3, <3>1, HoldingFacts, HoldingNext
  <2>4. Holding' = Holding /\ \A d \in Holding : lane'[d] = lane[d]
    BY <1>5, <2>1, <2>2, <2>3, HoldingFacts, HoldingNext
  <2>5. QED BY <2>4 DEF SameHolding, RecoveryHolding, ReadyHolding
<1>14. Subscribing' = Subscribing
  <2>1. \A u \in Subscribers : u \in Subscribing' <=> u \in Subscribing
    BY <1>2, <1>3, ThreadKinds DEF Subscribing
  <2>2. QED BY <2>1 DEF Subscribing
<1>15. PermitInv'
  BY <1>1, <1>13, <1>14, PermitFrame DEF IInv
<1>16. AnsweredOnce'
  <2>1. \A d : (\E f \in Endpoints : slots'[f].pending = d) <=> (\E f \in Endpoints : slots[f].pending = d)
    BY <1>5
  <2>2. QED BY <1>1, <1>13, <2>1 DEF IInv, AnsweredOnce, SameHolding
<1>17. EvidenceInv'
  BY <1>1 DEF IInv, EvidenceInv
<1>18. ProgressInv'
  BY <1>2, <1>3, ProgressMove DEF Resting
<1>19. QED BY <1>5, <1>6, <1>7, <1>8, <1>11, <1>12, <1>15, <1>16, <1>17, <1>18 DEF IInv

\* A subscription has been tried.
LEMMA SubExecuteStep ==
  ASSUME IInv, NEW t \in Subscribers, SubExecute(t)
  PROVE  IInv'
<1>1. /\ pc[t] = "sub_run"
      /\ UNCHANGED <<lock, slots, activeIds, ready, activeLanes, health, queue, inFlight, recoveryInFlight,
                     left, todo, gone, sel, lane, sub, cmds, subs, now, outcomes, best>>
  BY DEF SubExecute, queueVars, budget, locals, work, bounds, ghost
<1>2. PICK p \in {"sub_failure", "sub_permit"} : pc' = [pc EXCEPT ![t] = p]
  BY DEF SubExecute, Goto
<1>3. t \in Threads /\ t \notin Cmds
  BY ThreadKinds
<1>4. SharedTypes' /\ ThreadTypes' /\ EvidenceInv' /\ SameLanes
  BY <1>1 DEF IInv, SharedTypes, ThreadTypes, EvidenceInv, SameLanes
<1>5. \A u \in Subscribers : pc'[u] \in {"sub_wait", "sub_run", "sub_failure"} => sub'[u].targets # <<>>
  BY <1>1, <1>2, ThreadKinds DEF IInv, PcTypes
<1>6. p \in SubPcs /\ p # "release" /\ pc[t] \in SubPcs /\ pc[t] # "release"
  BY <1>1, <1>2 DEF SubPcs
<1>7. QED BY <1>1, <1>2, <1>3, <1>4, <1>5, <1>6, WorkMove

\* A subscription's failure is entered, if nothing newer contradicts it.
LEMMA SubFailureStep ==
  ASSUME IInv, NEW t \in Subscribers, SubFailure(t)
  PROVE  IInv'
<1> DEFINE es == sub[t].targets
           p == IF Len(es) = 1 THEN "sub_permit" ELSE "sub_failure"
<1>1. /\ pc[t] = "sub_failure" /\ RecordFailure(Head(es), sub[t].stamp)
      /\ sub' = [sub EXCEPT ![t].targets = Tail(@)]
      /\ UNCHANGED <<lock, slots, activeIds, ready, activeLanes, queue, inFlight, recoveryInFlight,
                     left, todo, gone, sel, lane, cmds, subs, now, outcomes>>
  BY DEF SubFailure, queueVars, budget, locals, bounds
<1>2. t \in Threads /\ t \notin Cmds /\ pc \in [Threads -> Pcs]
  BY ThreadKinds DEF IInv, PcTypes
<1>3. pc' = [pc EXCEPT ![t] = p]
  <2>1. CASE Len(es) = 1
    BY <2>1 DEF SubFailure, Goto
  <2>2. CASE Len(es) # 1
    <3>1. pc' = pc
      BY <2>2 DEF SubFailure
    <3>2. QED BY <1>1, <1>2, <2>2, <3>1
  <2>3. QED BY <2>1, <2>2
<1>4. es \in Seq(Endpoints) /\ es # <<>> /\ sub[t].stamp \in Nat /\ sub[t] \in [targets : Seq(Endpoints), stamp : Nat]
  BY <1>1 DEF IInv, PcTypes, ThreadTypes
<1>5. Head(es) \in Endpoints /\ Tail(es) \in Seq(Endpoints) /\ Len(es) > 0 /\ Len(es) \in Nat
  BY <1>4, TailFacts, LenProperties
<1>6. /\ health' \in [Endpoints -> Health] /\ best' \in [Endpoints -> Evidence] /\ EvidenceInv'
  BY <1>1, <1>4, <1>5, FailureEvidence
<1>7. sub' \in [Subscribers -> [targets : Seq(Endpoints), stamp : Nat]]
  <2>1. [sub[t] EXCEPT !.targets = Tail(es)] \in [targets : Seq(Endpoints), stamp : Nat]
    BY <1>4, <1>5
  <2>2. sub' = [sub EXCEPT ![t] = [sub[t] EXCEPT !.targets = Tail(es)]]
    BY <1>1
  <2>3. QED BY <2>1, <2>2 DEF IInv, ThreadTypes
<1>8. SharedTypes' /\ ThreadTypes' /\ SameLanes
  BY <1>1, <1>6, <1>7 DEF IInv, SharedTypes, ThreadTypes, SameLanes
<1>9. \A u \in Subscribers : pc'[u] \in {"sub_wait", "sub_run", "sub_failure"} => sub'[u].targets # <<>>
  <2>1. ASSUME NEW u \in Subscribers, u # t, pc'[u] \in {"sub_wait", "sub_run", "sub_failure"}
        PROVE  sub'[u].targets # <<>>
    <3>1. pc'[u] = pc[u] /\ sub'[u] = sub[u]
      BY <1>1, <1>2, <1>3, <2>1, ThreadKinds DEF IInv, ThreadTypes
    <3>2. QED BY <2>1, <3>1 DEF IInv, PcTypes
  <2>2. ASSUME pc'[t] \in {"sub_wait", "sub_run", "sub_failure"}
        PROVE  sub'[t].targets # <<>>
    <3>1. Len(es) # 1
      BY <1>2, <1>3, <2>2
    <3>2. PICK n \in Nat : n = Len(es)
      BY <1>5
    <3>3. n > 0 /\ n # 1
      BY <1>5, <3>1, <3>2
    <3>4. n > 1
      BY <3>3
    <3>5. Tail(es) # <<>>
      BY <1>4, <3>2, <3>4, LongTail
    <3>6. sub'[t].targets = Tail(es)
      BY <1>1, <1>4 DEF IInv, ThreadTypes
    <3>7. QED BY <3>5, <3>6
  <2>3. QED BY <2>1, <2>2
<1>10. p \in SubPcs /\ p # "release" /\ pc[t] \in SubPcs /\ pc[t] # "release"
  BY <1>1 DEF SubPcs
<1> HIDE DEF p
<1>11. QED BY <1>1, <1>2, <1>3, <1>6, <1>8, <1>9, <1>10, WorkMove

\* Time alone changes nothing but what is cooling down.
LEMMA TickStep ==
  ASSUME IInv, Tick \/ UNCHANGED vars
  PROVE  IInv'
<1>1. /\ UNCHANGED <<lock, slots, activeIds, ready, activeLanes, health, queue, inFlight, recoveryInFlight,
                     pc, left, todo, gone, sel, lane, sub, cmds, subs, outcomes, best>>
      /\ now' = now + 1 \/ now' = now
  BY DEF Tick, vars, queueVars, budget, locals, work, bounds, ghost
<1>2. SharedTypes' /\ ThreadTypes'
  BY <1>1 DEF IInv, SharedTypes, ThreadTypes
<1>3. PcTypes' /\ LockInv' /\ LaneInv' /\ WaitInv' /\ EvidenceInv'
  BY <1>1 DEF IInv, PcTypes, LockInv, LaneInv, WaitInv, Hands, EvidenceInv
<1>4. SameLanes
  BY <1>1 DEF SameLanes
<1>5. OneLanePerEndpoint' /\ TicketsOwned'
  BY <1>1, <1>4, OneLaneFrame, TicketsFrame DEF IInv
<1>6. SameHolding /\ Subscribing' = Subscribing
  BY <1>1 DEF SameHolding, Holding, Laned, Spawning, RecoveryHolding, ReadyHolding, Subscribing
<1>7. PermitInv' /\ AnsweredOnce'
  BY <1>1, <1>6, PermitFrame, AnswerFrame DEF IInv
<1>8. ProgressInv'
  BY <1>1 DEF IInv, ProgressInv, Resting, Alone, Laned, Ready
<1>9. QED BY <1>2, <1>3, <1>5, <1>7, <1>8 DEF IInv

\* The numbers and the lanes are left alone when a subscription draws its
\* ticket, gets its permit or gives it back.
LEMMA SubMove ==
  ASSUME IInv, NEW t \in Subscribers, NEW p \in {"sub_wait", "sub_run", "pass"},
         pc[t] \in {"idle", "sub_wait", "sub_permit"}, pc' = [pc EXCEPT ![t] = p],
         UNCHANGED <<lock, slots, ready, activeLanes, left, todo, gone, sel, lane, cmds, outcomes, best, health>>,
         sub' \in [Subscribers -> [targets : Seq(Endpoints), stamp : Nat]],
         \A u \in Subscribers : u # t => sub'[u] = sub[u],
         p # "pass" => sub'[t].targets # <<>>,
         SharedTypes', now' = now
  PROVE  /\ ThreadTypes' /\ PcTypes' /\ LockInv' /\ LaneInv' /\ WaitInv' /\ OneLanePerEndpoint'
         /\ AnsweredOnce' /\ EvidenceInv' /\ ProgressInv' /\ SameHolding
<1>1. t \in Threads /\ t \notin Cmds /\ t \notin Laned
  BY ThreadKinds, HoldingFacts
<1>2. \A u \in Threads : pc'[u] = IF u = t THEN p ELSE pc[u]
  BY <1>1 DEF IInv, PcTypes
<1>3. ThreadTypes' /\ EvidenceInv' /\ SameLanes
  BY DEF IInv, ThreadTypes, EvidenceInv, SameLanes
<1>4. PcTypes'
  <2>1. \A u \in Subscribers : pc'[u] \in {"sub_wait", "sub_run", "sub_failure"} => sub'[u].targets # <<>>
    BY <1>2, ThreadKinds DEF IInv, PcTypes
  <2>2. QED BY <1>1, <1>2, <2>1, ThreadKinds DEF IInv, PcTypes, Pcs, PassPcs
<1>5. LockInv'
  BY <1>2 DEF IInv, LockInv
<1>6. LaneInv'
  <2>1. cmds' \in Nat /\ cmds <= cmds'
    BY CmdFacts DEF IInv, ThreadTypes
  <2>2. p \in Pcs \ {"spawn", "spawn_release"} /\ pc[t] \notin {"off", "spawn", "spawn_release"}
    BY DEF Pcs, PassPcs
  <2>3. QED BY <1>1, <1>3, <2>1, <2>2, LaneMove
<1>7. \A d \in Cmds : pc'[d] = pc[d]
  BY <1>1, <1>2, ThreadKinds
<1>8. WaitInv'
  <2>1. \A f \in Endpoints : slots[f].pending # 0 => slots[f].pending \in Cmds
    BY CmdFacts DEF IInv, SharedTypes, Slot
  <2>2. \A u \in Submitters : \A d \in gone[u] : d \in Cmds
    BY DEF IInv, ThreadTypes
  <2>3. QED BY <1>7, <2>1, <2>2 DEF IInv, WaitInv
<1>9. OneLanePerEndpoint'
  BY <1>3, OneLaneFrame DEF IInv
<1>10. SameHolding
  <2>1. \A u \in Threads : pc'[u] = "spawn" <=> pc[u] = "spawn"
    BY <1>2
  <2>2. \A d \in Cmds : d \in Holding' <=> d \in Holding
    BY <1>7, <2>1, HoldingFacts, HoldingNext
  <2>3. Holding' = Holding
    BY <2>2, HoldingFacts, HoldingNext
  <2>4. QED BY <2>3 DEF SameHolding, RecoveryHolding, ReadyHolding
<1>11. AnsweredOnce'
  BY <1>10, AnswerFrame DEF IInv
<1>12. ProgressInv'
  BY <1>1, <1>2, ProgressMove DEF Resting
<1>13. QED BY <1>3, <1>4, <1>5, <1>6, <1>8, <1>9, <1>10, <1>11, <1>12

\* A subscription draws its ticket.
LEMMA SubscribeStep ==
  ASSUME IInv, NEW t \in Subscribers, NEW es \in Targets, Subscribe(t, es)
  PROVE  IInv'
<1> DEFINE r == [targets |-> es, stamp |-> 0]
<1>1. /\ pc[t] = "idle" /\ queue' = Append(queue, t)
      /\ sub' = [sub EXCEPT ![t] = r] /\ pc' = [pc EXCEPT ![t] = "sub_wait"]
      /\ UNCHANGED <<lock, slots, activeIds, ready, activeLanes, health, inFlight, recoveryInFlight,
                     left, todo, gone, sel, lane, cmds, now, outcomes, best>>
  BY DEF Subscribe, Goto, queueVars, locals, ghost
<1>2. r \in [targets : Seq(Endpoints), stamp : Nat] /\ r.targets # <<>>
  BY BoundsAssumption
<1>3. /\ sub' \in [Subscribers -> [targets : Seq(Endpoints), stamp : Nat]]
      /\ \A u \in Subscribers : u # t => sub'[u] = sub[u]
      /\ sub'[t] = r
  <2> HIDE DEF r
  <2>1. QED BY <1>1, <1>2 DEF IInv, ThreadTypes
<1>4. /\ IsInjective(queue) /\ queue \in Seq(Endpoints \cup Subscribers)
      /\ ToSet(queue) = {e \in Endpoints : slots[e].ticket} \cup {u \in Subscribers : pc[u] = "sub_wait"}
  BY DEF IInv, TicketsOwned, SharedTypes
<1>5. t \notin ToSet(queue) /\ t \in Endpoints \cup Subscribers /\ t \in Threads
  BY <1>1, <1>4, ThreadKinds
<1>6. /\ queue' \in Seq(Endpoints \cup Subscribers) /\ IsInjective(queue')
      /\ ToSet(queue') = ToSet(queue) \cup {t}
  BY <1>1, <1>4, <1>5, AppendFacts, FreshAppend
<1>7. SharedTypes'
  BY <1>1, <1>6 DEF IInv, SharedTypes
<1>8. \A u \in Threads : pc'[u] = IF u = t THEN "sub_wait" ELSE pc[u]
  BY <1>1, <1>5 DEF IInv, PcTypes
<1>9. TicketsOwned'
  <2>1. {u \in Subscribers : pc'[u] = "sub_wait"} = {u \in Subscribers : pc[u] = "sub_wait"} \cup {t}
    BY <1>8, ThreadKinds
  <2>2. \A e : Vain(e)' <=> Vain(e)
    BY <1>1 DEF Vain
  <2>3. QED BY <1>1, <1>4, <1>6, <2>1, <2>2 DEF IInv, TicketsOwned
<1>10. Subscribing' = Subscribing
  <2>1. \A u \in Subscribers : u \in Subscribing' <=> u \in Subscribing
    BY <1>1, <1>8, ThreadKinds DEF Subscribing
  <2>2. QED BY <2>1 DEF Subscribing
<1>11. /\ ThreadTypes' /\ PcTypes' /\ LockInv' /\ LaneInv' /\ WaitInv' /\ OneLanePerEndpoint'
       /\ AnsweredOnce' /\ EvidenceInv' /\ ProgressInv' /\ SameHolding
  BY <1>1, <1>2, <1>3, <1>7, SubMove
<1>12. PermitInv'
  BY <1>1, <1>10, <1>11, PermitFrame DEF IInv
<1>13. QED BY <1>7, <1>9, <1>11, <1>12 DEF IInv

\* A subscription whose turn it is takes the recovery permit.
LEMMA SubAcquireStep ==
  ASSUME IInv, NEW t \in Subscribers, SubAcquire(t)
  PROVE  IInv'
<1>1. /\ pc[t] = "sub_wait" /\ Head(queue) = t /\ inFlight < Capacity /\ recoveryInFlight = 0
      /\ queue' = Tail(queue) /\ inFlight' = inFlight + 1 /\ recoveryInFlight' = recoveryInFlight + 1
      /\ sub' = [sub EXCEPT ![t].stamp = now] /\ pc' = [pc EXCEPT ![t] = "sub_run"]
      /\ UNCHANGED <<lock, slots, activeIds, ready, activeLanes, health, left, todo, gone, sel, lane,
                     cmds, subs, now, outcomes, best>>
  BY DEF SubAcquire, Goto, queueVars, locals, bounds, ghost
<1>2. /\ sub[t] \in [targets : Seq(Endpoints), stamp : Nat] /\ now \in Nat /\ sub[t].targets # <<>>
  BY <1>1 DEF IInv, ThreadTypes, PcTypes
<1>3. /\ sub' \in [Subscribers -> [targets : Seq(Endpoints), stamp : Nat]]
      /\ \A u \in Subscribers : u # t => sub'[u] = sub[u]
      /\ sub'[t].targets # <<>>
  <2>1. [sub[t] EXCEPT !.stamp = now] \in [targets : Seq(Endpoints), stamp : Nat]
    BY <1>2
  <2>2. [sub[t] EXCEPT !.stamp = now].targets = sub[t].targets
    BY <1>2
  <2>3. sub' = [sub EXCEPT ![t] = [sub[t] EXCEPT !.stamp = now]]
    BY <1>1
  <2>4. QED BY <1>2, <2>1, <2>2, <2>3 DEF IInv, ThreadTypes
<1>4. /\ IsInjective(queue) /\ queue \in Seq(Endpoints \cup Subscribers)
      /\ ToSet(queue) = {e \in Endpoints : slots[e].ticket} \cup {u \in Subscribers : pc[u] = "sub_wait"}
  BY DEF IInv, TicketsOwned, SharedTypes
<1>5. t \in ToSet(queue) /\ t \in Threads /\ t \notin Endpoints /\ queue # <<>>
  <2>1. t \in ToSet(queue) /\ t \in Threads /\ t \notin Endpoints
    BY <1>1, <1>4, ThreadKinds
  <2>2. QED BY <1>4, <2>1, ToSetFacts
<1>6. /\ queue' \in Seq(Endpoints \cup Subscribers) /\ IsInjective(queue')
      /\ ToSet(queue') = ToSet(queue) \ {t}
  BY <1>1, <1>4, <1>5, TailFacts, QueueTail
<1>7. SharedTypes'
  BY <1>1, <1>6 DEF IInv, SharedTypes
<1>8. \A u \in Threads : pc'[u] = IF u = t THEN "sub_run" ELSE pc[u]
  BY <1>1, <1>5 DEF IInv, PcTypes
<1>9. TicketsOwned'
  <2>1. {u \in Subscribers : pc'[u] = "sub_wait"} = {u \in Subscribers : pc[u] = "sub_wait"} \ {t}
    BY <1>8, ThreadKinds
  <2>2. \A e : Vain(e)' <=> Vain(e)
    BY <1>1 DEF Vain
  <2>3. ToSet(queue') = {e \in Endpoints : slots'[e].ticket} \cup {u \in Subscribers : pc'[u] = "sub_wait"}
    BY <1>1, <1>4, <1>5, <1>6, <2>1
  <2>4. QED BY <1>1, <1>6, <2>2, <2>3 DEF IInv, TicketsOwned
<1>10. Subscribing' = Subscribing \cup {t} /\ t \notin Subscribing
  <2>1. \A u \in Subscribers : u \in Subscribing' <=> u \in Subscribing \/ u = t
    BY <1>1, <1>8, ThreadKinds DEF Subscribing
  <2>2. t \notin Subscribing
    BY <1>1 DEF Subscribing
  <2>3. QED BY <2>1, <2>2 DEF Subscribing
<1>11. /\ ThreadTypes' /\ PcTypes' /\ LockInv' /\ LaneInv' /\ WaitInv' /\ OneLanePerEndpoint'
       /\ AnsweredOnce' /\ EvidenceInv' /\ ProgressInv' /\ SameHolding
  BY <1>1, <1>3, <1>7, SubMove
<1>12. PermitInv'
  <2>1. /\ IsFiniteSet(Subscribing) /\ Cardinality(Subscribing) \in Nat
        /\ recoveryInFlight = Cardinality(RecoveryHolding) + Cardinality(Subscribing)
        /\ inFlight = recoveryInFlight + Cardinality(ReadyHolding)
        /\ Cardinality(ReadyHolding) <= Capacity - 1
    BY FS_CardinalityType DEF IInv, PermitInv
  <2>2. PICK x \in Nat, y \in Nat, z \in Nat :
          x = Cardinality(RecoveryHolding) /\ y = Cardinality(Subscribing) /\ z = Cardinality(ReadyHolding)
    BY <2>1, FiniteHolding
  <2>3. IsFiniteSet(Subscribing') /\ Cardinality(Subscribing') = y + 1
    BY <1>10, <2>1, <2>2, FS_AddElement
  <2>4. /\ recoveryInFlight = x + y /\ inFlight = x + y + z /\ x + y = 0 /\ z < Capacity
        /\ z <= Capacity - 1
    BY <1>1, <2>1, <2>2
  <2>5. recoveryInFlight' = x + (y + 1) /\ inFlight' = (x + (y + 1)) + z
    BY <1>1, <2>4
  <2>6. x + (y + 1) <= 1 /\ (x + (y + 1)) + z <= Capacity
    BY <2>4, CapacityAssumption
  <2>7. QED BY <1>11, <2>2, <2>3, <2>4, <2>5, <2>6 DEF PermitInv, SameHolding
<1>13. QED BY <1>7, <1>9, <1>11, <1>12 DEF IInv

\* A subscription gives back its permit.
LEMMA SubPermitStep ==
  ASSUME IInv, NEW t \in Subscribers, SubPermit(t)
  PROVE  IInv'
<1>1. /\ pc[t] = "sub_permit" /\ inFlight' = inFlight - 1 /\ recoveryInFlight' = recoveryInFlight - 1
      /\ sub' = [sub EXCEPT ![t] = NoSub] /\ pc' = [pc EXCEPT ![t] = "pass"]
      /\ UNCHANGED <<lock, slots, activeIds, ready, activeLanes, health, queue, left, todo, gone, sel,
                     lane, cmds, subs, now, outcomes, best>>
  BY DEF SubPermit, ReleasePermit, SubAdmits, Goto, queueVars, locals, bounds, ghost
<1>2. NoSub \in [targets : Seq(Endpoints), stamp : Nat]
  BY EmptySeq DEF NoSub
<1>3. /\ sub' \in [Subscribers -> [targets : Seq(Endpoints), stamp : Nat]]
      /\ \A u \in Subscribers : u # t => sub'[u] = sub[u]
  BY <1>1, <1>2 DEF IInv, ThreadTypes
<1>4. SharedTypes' /\ t \in Threads
  BY <1>1, ThreadKinds DEF IInv, SharedTypes
<1>5. \A u \in Threads : pc'[u] = IF u = t THEN "pass" ELSE pc[u]
  BY <1>1, <1>4 DEF IInv, PcTypes
<1>6. TicketsOwned'
  BY <1>1, <1>5, ThreadKinds, TicketsFrame DEF IInv
<1>7. Subscribing' = Subscribing \ {t} /\ t \in Subscribing
  <2>1. \A u \in Subscribers : u \in Subscribing' <=> u \in Subscribing /\ u # t
    BY <1>1, <1>5, ThreadKinds DEF Subscribing
  <2>2. t \in Subscribing
    BY <1>1 DEF Subscribing
  <2>3. QED BY <2>1, <2>2 DEF Subscribing
<1>8. /\ ThreadTypes' /\ PcTypes' /\ LockInv' /\ LaneInv' /\ WaitInv' /\ OneLanePerEndpoint'
      /\ AnsweredOnce' /\ EvidenceInv' /\ ProgressInv' /\ SameHolding
  BY <1>1, <1>3, <1>4, SubMove
<1>9. PermitInv'
  <2>1. /\ IsFiniteSet(Subscribing) /\ Cardinality(Subscribing) \in Nat
        /\ recoveryInFlight = Cardinality(RecoveryHolding) + Cardinality(Subscribing)
        /\ inFlight = recoveryInFlight + Cardinality(ReadyHolding)
        /\ recoveryInFlight <= 1 /\ inFlight <= Capacity /\ Cardinality(ReadyHolding) <= Capacity - 1
    BY FS_CardinalityType DEF IInv, PermitInv
  <2>2. PICK x \in Nat, y \in Nat, z \in Nat :
          x = Cardinality(RecoveryHolding) /\ y = Cardinality(Subscribing) /\ z = Cardinality(ReadyHolding)
    BY <2>1, FiniteHolding
  <2>3. IsFiniteSet(Subscribing') /\ Cardinality(Subscribing') = y - 1
    BY <1>7, <2>1, <2>2, FS_RemoveElement
  <2>4. /\ recoveryInFlight = x + y /\ inFlight = x + y + z
        /\ x + y <= 1 /\ x + y + z <= Capacity /\ z <= Capacity - 1
    BY <2>1, <2>2
  <2>5. recoveryInFlight' = x + (y - 1) /\ inFlight' = (x + (y - 1)) + z
    BY <1>1, <2>4
  <2>6. x + (y - 1) <= 1 /\ (x + (y - 1)) + z <= Capacity
    BY <2>4, CapacityAssumption
  <2>7. QED BY <1>8, <2>2, <2>3, <2>4, <2>5, <2>6 DEF PermitInv, SameHolding
<1>10. QED BY <1>4, <1>6, <1>8, <1>9 DEF IInv

-----------------------------------------------------------------------------
(* What the invariant gives.                                                *)

\* The invariant holds of a daemon that has just started.
LEMMA InitInvariant == Init => IInv
<1> SUFFICES ASSUME Init
             PROVE  IInv
  OBVIOUS
<1>1. /\ lock = Free /\ slots = [e \in Endpoints |-> EmptySlot] /\ activeIds = {} /\ ready = <<>>
      /\ activeLanes = 0 /\ health = [e \in Endpoints |-> Unknown]
      /\ queue = <<>> /\ inFlight = 0 /\ recoveryInFlight = 0
      /\ pc = [t \in Threads |-> IF t \in Cmds THEN "off" ELSE "idle"]
      /\ left = 0 /\ todo = <<>> /\ gone = [t \in Submitters |-> {}] /\ sel = [t \in Threads |-> 0]
      /\ lane = [c \in Cmds |-> NoLane] /\ sub = [t \in Subscribers |-> NoSub]
      /\ cmds = 0 /\ now = 1
      /\ outcomes = [c \in Cmds |-> 0] /\ best = [e \in Endpoints |-> NoEvidence]
  BY DEF Init
<1>2. \A S : <<>> \in Seq(S)
  BY EmptySeq
<1>3. EmptySlot \in Slot /\ Unknown \in Health /\ NoEvidence \in Evidence
  BY CmdFacts DEF EmptySlot, Slot, Unknown, Health, NoEvidence, Evidence
<1>4. NoSub \in [targets : Seq(Endpoints), stamp : Nat]
  BY <1>2 DEF NoSub
<1>5. SharedTypes
  BY <1>1, <1>2, <1>3 DEF SharedTypes
<1>6. ThreadTypes
  BY <1>1, <1>2, <1>3, <1>4, CmdFacts DEF ThreadTypes
<1>7. \A t \in Threads : pc[t] \in {"idle", "off"} /\ (pc[t] = "off" <=> t \in Cmds)
  BY <1>1
<1>8. PcTypes
  BY <1>1, <1>7, ThreadKinds DEF PcTypes, Pcs
<1>9. LockInv
  BY <1>1, <1>7, ThreadKinds, CapacityAssumption DEF LockInv
<1>10. \A t \in Threads : ~Hands(t)
  BY <1>7 DEF Hands
<1>11. LaneInv
  BY <1>1, <1>7, <1>10, ThreadKinds DEF LaneInv, LanePcs
<1>12. \A e \in Endpoints : slots[e].pending = 0 /\ ~slots[e].running /\ ~slots[e].ticket /\ Vain(e)
  BY <1>1 DEF EmptySlot, Vain
<1>13. WaitInv
  BY <1>1, <1>12 DEF WaitInv
<1>14. Laned = {} /\ Holding = {} /\ RecoveryHolding = {} /\ ReadyHolding = {}
  BY <1>1 DEF Laned, Holding, RecoveryHolding, ReadyHolding
<1>15. Subscribing = {}
  BY <1>7, ThreadKinds DEF Subscribing
<1>16. IsFiniteSet({}) /\ Cardinality({}) = 0
  BY FS_EmptySet
<1>17. ToSet(<<>>) = {} /\ IsInjective(<<>>)
  <2>1. DOMAIN <<>> = {}
    OBVIOUS
  <2>2. QED BY <2>1 DEF ToSet, IsInjective
<1>18. OneLanePerEndpoint
  BY <1>1, <1>12, <1>14, <1>16, <1>17 DEF OneLanePerEndpoint
<1>19. TicketsOwned
  BY <1>1, <1>7, <1>12, <1>17, ThreadKinds DEF TicketsOwned
<1>20. PermitInv
  BY <1>1, <1>14, <1>15, <1>16, CapacityAssumption DEF PermitInv
<1>21. AnsweredOnce
  BY <1>1 DEF AnsweredOnce
<1>22. EvidenceInv
  BY <1>1 DEF EvidenceInv, NoEvidence, Unknown
<1>23. ProgressInv
  BY <1>1, <1>7 DEF ProgressInv
<1>24. QED BY <1>5, <1>6, <1>8, <1>9, <1>11, <1>13, <1>18, <1>19, <1>20, <1>21, <1>22, <1>23 DEF IInv

\* Every step keeps it.
LEMMA NextInvariant == IInv /\ [Next]_vars => IInv'
<1> SUFFICES ASSUME IInv, [Next]_vars
             PROVE  IInv'
  OBVIOUS
<1>1. CASE \E t \in Submitters, b \in Batches : Submit(t, b)
  BY <1>1, SubmitStep
<1>2. CASE \E t \in Subscribers, es \in Targets : Subscribe(t, es)
  BY <1>2, SubscribeStep
<1>3. CASE \E t \in Reporters, e \in Endpoints : \E at \in 1..now : Report(t, e, at)
  BY <1>3, ReportStep
<1>4. ASSUME NEW t \in Threads, PassStep(t)
      PROVE  IInv'
  BY <1>4, BeginPassStep, EndPassStep, ScanRefuseStep, ScanPastStep, ScanAdmitStep, SpawnLaneStep,
     SpawnFailsStep, SpawnReleaseStep DEF PassStep
<1>5. ASSUME NEW t \in Submitters, Enqueue(t) \/ PublishSuperseded(t)
      PROVE  IInv'
  BY <1>5, EnqueueStep, PublishSupersededStep
<1>6. ASSUME NEW c \in Cmds, LaneStep(c)
      PROVE  IInv'
  BY <1>6, ExecuteStep, LaneProofStep, LaneFailureStep, LanePermitStep, LaneReleaseStep DEF LaneStep
<1>7. ASSUME NEW t \in Subscribers, SubStep(t)
      PROVE  IInv'
  BY <1>7, SubAcquireStep, SubExecuteStep, SubFailureStep, SubPermitStep DEF SubStep
<1>8. CASE \E t \in Threads : ThreadStep(t)
  BY <1>4, <1>5, <1>6, <1>7, <1>8 DEF ThreadStep
<1>9. CASE (\E n \in {e[1] : e \in Endpoints} : ForgetNode(n)) \/ ResetReachability
  BY <1>9, ForgetStep DEF ForgetNode, ResetReachability
<1>10. CASE Tick \/ UNCHANGED vars
  BY <1>10, TickStep
<1>11. QED BY <1>1, <1>2, <1>3, <1>8, <1>9, <1>10 DEF Next

\* The inductive invariant holds throughout, whatever submitters,
\* subscriptions, attribute reports and lanes do.
THEOREM Invariant == Spec => []IInv
<1>1. Init => IInv
  BY InitInvariant
<1>2. IInv /\ [Next]_vars => IInv'
  BY NextInvariant
<1>3. QED BY <1>1, <1>2, PTL DEF Spec

\* Every variable keeps its type and no count of lanes or permits goes below
\* zero or beyond its limit.
THEOREM TypeCorrect == Spec => []TypeOK
<1>1. IInv => TypeOK
  <2> SUFFICES ASSUME IInv
               PROVE  TypeOK
    OBVIOUS
  <2>1. activeLanes \in 0..Capacity
    <3>1. activeLanes = Cardinality(Laned) /\ activeLanes <= Capacity
      BY DEF IInv, OneLanePerEndpoint, LockInv
    <3>2. QED BY <3>1, FiniteHolding, CapacityAssumption
  <2>2. inFlight \in 0..Capacity /\ recoveryInFlight \in 0..1
    <3>1. Cardinality(Subscribing) \in Nat
      BY FS_CardinalityType DEF IInv, PermitInv
    <3>2. PICK x \in Nat, y \in Nat, z \in Nat :
            x = Cardinality(RecoveryHolding) /\ y = Cardinality(Subscribing) /\ z = Cardinality(ReadyHolding)
      BY <3>1, FiniteHolding
    <3>3. recoveryInFlight = x + y /\ inFlight = x + y + z /\ recoveryInFlight <= 1 /\ inFlight <= Capacity
      BY <3>2 DEF IInv, PermitInv
    <3>4. QED BY <3>3, CapacityAssumption
  <2>3. \A c \in Cmds : lane[c] = NoLane \/ lane[c].at \in Endpoints
    BY LaneIsNot DEF IInv, ThreadTypes
  <2>4. DOMAIN pc = Threads
    BY DEF IInv, PcTypes
  <2>5. QED BY <2>1, <2>2, <2>3, <2>4 DEF IInv, SharedTypes, ThreadTypes, TypeOK, Slot, Health
<1>2. QED BY <1>1, Invariant, PTL

\* The work budget is exact: no permit is lost or given back twice, no ticket
\* is stranded, and endpoints and subscriptions without proof of life never
\* hold more than one permit between them, nor responsive ones all of them
\* (ControllerWorkBudget, ControllerWorkPermit, ControllerRecoveryTicket).
THEOREM BudgetIsExact == Spec => []BudgetExact
<1>1. IInv => BudgetExact
  <2> SUFFICES ASSUME IInv
               PROVE  BudgetExact
    OBVIOUS
  <2>1. /\ IsFiniteSet(Subscribing) /\ Cardinality(Subscribing) \in Nat
        /\ recoveryInFlight = Cardinality(RecoveryHolding) + Cardinality(Subscribing)
        /\ inFlight = recoveryInFlight + Cardinality(ReadyHolding)
        /\ recoveryInFlight <= 1 /\ Cardinality(ReadyHolding) <= Capacity - 1
    BY FS_CardinalityType DEF IInv, PermitInv
  <2>2. Holding = RecoveryHolding \cup ReadyHolding /\ RecoveryHolding \cap ReadyHolding = {}
    BY DEF RecoveryHolding, ReadyHolding
  <2>3. Cardinality(Holding) = Cardinality(RecoveryHolding) + Cardinality(ReadyHolding)
    <3>1. Cardinality({}) = 0
      BY FS_EmptySet
    <3>2. Cardinality(RecoveryHolding \cup ReadyHolding)
            = Cardinality(RecoveryHolding) + Cardinality(ReadyHolding)
                - Cardinality(RecoveryHolding \cap ReadyHolding)
      BY FiniteHolding, FS_Union
    <3>3. QED BY <2>2, <3>1, <3>2, FiniteHolding
  <2>4. PICK x \in Nat, y \in Nat, z \in Nat :
          x = Cardinality(RecoveryHolding) /\ y = Cardinality(Subscribing) /\ z = Cardinality(ReadyHolding)
    BY <2>1, FiniteHolding
  <2>5. inFlight = (x + z) + y
    BY <2>1, <2>4
  <2>6. inFlight = Cardinality(Holding) + Cardinality(Subscribing)
    BY <2>3, <2>4, <2>5
  <2>7. PermitsExact
    BY <2>1, <2>6 DEF PermitsExact, RecoveryHolding, ReadyHolding
  <2>8. QED BY <2>7 DEF IInv, BudgetExact
<1>2. QED BY <1>1, Invariant, PTL

\* An endpoint never runs two plans at once, its slot is marked running
\* exactly while it has a lane, and the ready queue lists, once each, the
\* endpoints with a plan and no lane (start_ready_lanes, release_lane_state).
THEOREM LanesAreExclusive == Spec => []OneLanePerEndpoint
<1>1. IInv => OneLanePerEndpoint
  BY DEF IInv
<1>2. QED BY <1>1, Invariant, PTL

\* Every command submitted is in exactly one place or has been answered, and
\* none is answered twice (publish_outcome).
THEOREM EachAnsweredOnce == Spec => []AnsweredOnce
<1>1. IInv => AnsweredOnce
  BY DEF IInv
<1>2. QED BY <1>1, Invariant, PTL

\* The evidence of reachability that arose last decides, in whatever order it
\* is reported (record_endpoint_proof_at, record_connectivity_failure).
THEOREM LatestEvidenceWins == Spec => []EvidenceWins
<1>1. IInv => EvidenceWins
  BY DEF IInv, EvidenceInv, EvidenceWins
<1>2. QED BY <1>1, Invariant, PTL

\* When every thread has come to rest no endpoint is left waiting for a lane:
\* whoever frees a lane or a permit, or brings proof of life, admits what has
\* become possible (finish_lane, subscribe_with_budget).
THEOREM AdmissionsAreKept == Spec => []NoLostAdmission
<1>1. IInv => NoLostAdmission
  <2> SUFFICES ASSUME IInv, \A t \in Threads : pc[t] \in {"idle", "off"}, NEW e \in Endpoints
               PROVE  slots[e].pending = 0
    BY DEF NoLostAdmission
  <2>1. ready = <<>>
    BY DEF IInv, ProgressInv, Resting
  <2>2. ToSet(ready) = {} /\ ToSet(ready) = {f \in Endpoints : ~Vain(f)}
    BY <2>1, ToSetFacts DEF IInv, SharedTypes, OneLanePerEndpoint
  <2>3. Laned = {}
    <3>1. SUFFICES ASSUME NEW c \in Cmds, lane[c] # NoLane
                   PROVE  FALSE
      BY DEF Laned
    <3>2. pc[c] = "off"
      BY <3>1, ThreadKinds DEF IInv, PcTypes, LanePcs, PassPcs
    <3>3. PICK t \in Threads : Hands(t)
      BY <3>1, <3>2 DEF IInv, LaneInv
    <3>4. QED BY <3>3 DEF Hands
  <2>4. ~slots[e].running
    BY <2>3 DEF IInv, OneLanePerEndpoint
  <2>5. QED BY <2>2, <2>4 DEF Vain
<1>2. QED BY <1>1, Invariant, PTL
=============================================================================
