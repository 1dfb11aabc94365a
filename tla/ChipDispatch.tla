---------------------------- MODULE ChipDispatch -----------------------------
(***************************************************************************)
(* The Matter controller daemon's command dispatcher                       *)
(* (rhythm-chipd/src/command_dispatch.rs) with the callers it shares the   *)
(* controller with: subscriptions and attribute reports (service.rs).      *)
(*                                                                         *)
(* Every endpoint has a lane that runs one plan at a time and keeps the    *)
(* latest newer one.  Commands and subscriptions draw permits from one     *)
(* work budget; endpoints without current proof of life share a single     *)
(* recovery permit, handed out in the order of recovery tickets.  Any      *)
(* thread that frees something admits what has become possible             *)
(* (start_ready_lanes).                                                    *)
(*                                                                         *)
(* The dispatcher's mutex is held across the iterations of an admission    *)
(* pass and of a submission, during which the budget, under a mutex of its *)
(* own, may change.  A recovery ticket is named by its owner: an endpoint  *)
(* slot and a subscription hold at most one.  Publishing an outcome only   *)
(* appends to the event broker, so it is part of a neighbouring step.      *)
(* Command ids are fresh: the service that submits plans draws them from a *)
(* counter.                                                                *)
(***************************************************************************)
EXTENDS Naturals, FiniteSets, Sequences, SequencesExt

CONSTANTS
  Endpoints,         \* <<node, endpoint>> pairs
  Batches,           \* the endpoint sequences a submission may address
  Targets,           \* the endpoint sequences a subscription may address
  Submitters,        \* threads serving SubmitEndpointPlans
  Subscribers,       \* threads serving SubscribeOnOff
  Reporters,         \* threads draining attribute reports
  Free,              \* nobody holds the dispatcher's mutex
  Capacity,          \* MAX_CONCURRENT_CONTROLLER_WORK
  MaxCommands,       \* bound on commands submitted
  MaxSubscriptions,  \* bound on subscriptions asked for
  MaxTime            \* bound on the clock

Cmds == 1..MaxCommands
Threads == Submitters \cup Subscribers \cup Reporters \cup Cmds

ASSUME CapacityAssumption == Capacity \in Nat \ {0, 1}

ASSUME BoundsAssumption ==
  /\ Batches \cup Targets \subseteq Seq(Endpoints) \ {<<>>} /\ <<>> \notin Endpoints
  /\ MaxCommands \in Nat /\ MaxSubscriptions \in Nat /\ MaxTime \in Nat \ {0}

ASSUME ThreadAssumption ==
  /\ Free \notin Threads
  /\ Submitters \cap Subscribers = {} /\ Reporters \cap (Submitters \cup Subscribers) = {}
  /\ (Submitters \cup Subscribers \cup Reporters) \cap Nat = {}
  /\ Subscribers \cap Endpoints = {}

VARIABLES
  (* DispatchState *)
  lock,         \* the thread holding the dispatcher's mutex, or Free
  slots,        \* endpoint -> [running, pending, ticket]; 0: nothing pending
  activeIds, ready, activeLanes,
  health,       \* endpoint -> [proof, failures, failed, retry]; time 0: None
  (* WorkBudgetState *)
  queue,        \* owners of recovery tickets, oldest first
  inFlight, recoveryInFlight,
  (* the threads; a lane is the thread of its command *)
  pc,           \* what a thread does next
  left,         \* iterations left of the pass under way
  todo, gone,   \* plans to enqueue, superseded plans to publish
  sel,          \* the command a pass has selected
  lane,         \* command -> [at, recovery, stamp] from admission to release
  sub,          \* subscriber -> [targets, stamp]
  cmds, subs, now,
  (* observation only *)
  outcomes,     \* command -> outcomes published
  best          \* endpoint -> the latest evidence reported: [at, kind]

queueVars == <<slots, activeIds, ready, activeLanes>>
budget == <<queue, inFlight, recoveryInFlight>>
locals == <<left, todo, gone, sel>>
work == <<lane, sub>>
bounds == <<cmds, subs>>
ghost == <<outcomes, best>>
vars == <<lock, queueVars, health, budget, pc, locals, work, bounds, now, ghost>>

-----------------------------------------------------------------------------

EmptySlot == [running |-> FALSE, pending |-> 0, ticket |-> FALSE]
Unknown == [proof |-> 0, failures |-> 0, failed |-> 0, retry |-> 0]
NoLane == [at |-> <<>>, recovery |-> FALSE, stamp |-> 0]
NoSub == [targets |-> <<>>, stamp |-> 0]
NoEvidence == [at |-> 0, kind |-> "none"]

\* EndpointHealth::ready and cooling_down.
Ready(e) == health[e].proof # 0 /\ health[e].retry = 0
Cooling(e) == health[e].retry # 0 /\ now < health[e].retry

\* The back-off after n failures, in ticks: it doubles up to a limit.
Delay(n) == IF n = 1 THEN 1 ELSE 2

Goto(t, p) == pc' = [pc EXCEPT ![t] = p]

\* Where a thread goes on after start_ready_lanes.  A lane that runs it before
\* it is released has just recorded a proof.
After(t) == IF t \notin Cmds THEN "idle" ELSE IF lane[t] # NoLane THEN "publish" ELSE "off"

Init ==
  /\ lock = Free
  /\ slots = [e \in Endpoints |-> EmptySlot]
  /\ activeIds = {} /\ ready = <<>> /\ activeLanes = 0
  /\ health = [e \in Endpoints |-> Unknown]
  /\ queue = <<>> /\ inFlight = 0 /\ recoveryInFlight = 0
  /\ pc = [t \in Threads |-> IF t \in Cmds THEN "off" ELSE "idle"]
  /\ left = 0 /\ todo = <<>>
  /\ gone = [t \in Submitters |-> {}]
  /\ sel = [t \in Threads |-> 0]
  /\ lane = [c \in Cmds |-> NoLane]
  /\ sub = [t \in Subscribers |-> NoSub]
  /\ cmds = 0 /\ subs = 0 /\ now = 1
  /\ outcomes = [c \in Cmds |-> 0]
  /\ best = [e \in Endpoints |-> NoEvidence]

Publish(cs) == outcomes' = [c \in Cmds |-> IF c \in cs THEN outcomes[c] + 1 ELSE outcomes[c]]

-----------------------------------------------------------------------------
(* CommandDispatcher::submit.                                               *)

Submit(t, batch) ==
  /\ pc[t] = "idle" /\ lock = Free
  /\ cmds + Len(batch) <= MaxCommands
  /\ lock' = t
  /\ todo' = batch
  /\ Goto(t, "enqueue")
  /\ UNCHANGED <<queueVars, health, budget, left, gone, sel, work, bounds, now, ghost>>

\* Mutant: the ready queue is told of every plan.
WasIdleAlways(e) == TRUE

\* Nothing of the endpoint is queued or running.
WasIdle(e) == ~slots[e].running /\ slots[e].pending = 0

\* Mutant: a plan that is replaced is not told of.
SupersededNone(e) == {}

\* The queued plan that a newer one replaces.
Superseded(e) == {slots[e].pending} \ {0}

\* One plan of the batch: the latest wins, an older queued one is superseded.
Enqueue(t) ==
  LET e == Head(todo)
      c == cmds + 1
      ticket == ~slots[e].running /\ ~Ready(e) /\ ~slots[e].ticket
  IN /\ pc[t] = "enqueue"
     /\ cmds' = c
     /\ activeIds' = (activeIds \ {slots[e].pending}) \cup {c}
     /\ slots' = [slots EXCEPT ![e].pending = c, ![e].ticket = @ \/ ticket]
     /\ queue' = IF ticket THEN Append(queue, e) ELSE queue
     /\ gone' = [gone EXCEPT ![t] = @ \cup Superseded(e)]
     /\ ready' = IF WasIdle(e) THEN Append(ready, e) ELSE ready
     /\ todo' = Tail(todo)
     /\ IF Len(todo) = 1 THEN lock' = Free /\ Goto(t, "supersede") ELSE UNCHANGED <<lock, pc>>
     /\ UNCHANGED <<activeLanes, health, inFlight, recoveryInFlight, left, sel, work, subs, now,
                    outcomes, best>>

PublishSuperseded(t) ==
  /\ pc[t] = "supersede"
  /\ Publish(gone[t])
  /\ gone' = [gone EXCEPT ![t] = {}]
  /\ Goto(t, "pass")
  /\ UNCHANGED <<lock, queueVars, health, budget, left, todo, sel, work, bounds, now, best>>

-----------------------------------------------------------------------------
(* start_ready_lanes.                                                       *)

BeginPass(t) ==
  /\ pc[t] = "pass" /\ lock = Free
  /\ IF activeLanes >= Capacity
     THEN Goto(t, After(t)) /\ UNCHANGED <<lock, left>>
     ELSE Goto(t, "scan") /\ lock' = t /\ left' = Len(ready)
  /\ UNCHANGED <<queueVars, health, budget, todo, gone, sel, work, bounds, now, ghost>>

\* Every ready endpoint has been looked at: the pass is over.
EndPass(t) ==
  /\ pc[t] = "scan" /\ left = 0
  /\ lock' = Free
  /\ Goto(t, After(t))
  /\ UNCHANGED <<queueVars, health, budget, locals, work, bounds, now, ghost>>

\* Mutant: the ticket of an endpoint that has become responsive is kept.
TicketsKept(e) == IF ~Ready(e) /\ ~slots[e].ticket THEN Append(queue, e) ELSE queue

\* The recovery queue once try_acquire has made sure that the endpoint has a
\* ticket, or cancelled the ticket of one that has become responsive.
Tickets(e) ==
  IF Ready(e) THEN RemoveFirst(queue, e)
  ELSE IF slots[e].ticket THEN queue ELSE Append(queue, e)

\* try_acquire gives a permit to this endpoint.
MayAcquire(e) ==
  /\ inFlight < Capacity
  /\ Ready(e) => inFlight - recoveryInFlight < Capacity - 1
  /\ ~Ready(e) => recoveryInFlight = 0 /\ Head(Tickets(e)) = e

\* An endpoint of the ready queue has nothing to run.
Vain(e) == slots[e].running \/ slots[e].pending = 0

\* The endpoint is awaiting recovery: its plan is refused, and the pass
\* starts over.
ScanRefuse(t) ==
  LET e == Head(ready)
  IN /\ pc[t] = "scan" /\ left > 0
     /\ ~Vain(e) /\ Cooling(e)
     /\ slots' = [slots EXCEPT ![e] = EmptySlot]
     /\ queue' = RemoveFirst(queue, e)
     /\ activeIds' = activeIds \ {slots[e].pending}
     /\ ready' = Tail(ready)
     /\ Publish({slots[e].pending})
     /\ lock' = Free
     /\ Goto(t, "pass") /\ left' = 0
     /\ UNCHANGED <<activeLanes, health, inFlight, recoveryInFlight, todo, gone, sel, work, bounds,
                    now, best>>

\* Nothing to run there: it leaves the queue.  No permit now: to the back.
ScanPast(t) ==
  LET e == Head(ready)
  IN /\ pc[t] = "scan" /\ left > 0
     /\ Vain(e) \/ (~Cooling(e) /\ ~MayAcquire(e))
     /\ slots' = IF Vain(e) THEN slots ELSE [slots EXCEPT ![e].ticket = ~Ready(e)]
     /\ queue' = IF Vain(e) THEN queue ELSE Tickets(e)
     /\ ready' = IF Vain(e) THEN Tail(ready) ELSE Append(Tail(ready), e)
     /\ left' = left - 1
     /\ UNCHANGED <<lock, activeIds, activeLanes, health, inFlight, recoveryInFlight, pc, todo,
                    gone, sel, work, bounds, now, ghost>>

\* The endpoint gets a permit and its lane.
ScanAdmit(t) ==
  LET e == Head(ready)
      c == slots[e].pending
  IN /\ pc[t] = "scan" /\ left > 0
     /\ ~Vain(e) /\ ~Cooling(e) /\ MayAcquire(e)
     /\ slots' = [slots EXCEPT ![e] = [running |-> TRUE, pending |-> 0, ticket |-> FALSE]]
     /\ queue' = RemoveFirst(queue, e)
     /\ ready' = Tail(ready)
     /\ activeLanes' = activeLanes + 1
     /\ inFlight' = inFlight + 1
     /\ recoveryInFlight' = recoveryInFlight + (IF Ready(e) THEN 0 ELSE 1)
     /\ lane' = [lane EXCEPT ![c] = [at |-> e, recovery |-> ~Ready(e), stamp |-> 0]]
     /\ sel' = [sel EXCEPT ![t] = c]
     /\ lock' = Free
     /\ Goto(t, "spawn") /\ left' = 0
     /\ UNCHANGED <<activeIds, health, todo, gone, sub, bounds, now, outcomes, best>>

\* The lane's thread notes when its attempt begins; the pass starts over.
SpawnLane(t) ==
  /\ pc[t] = "spawn"
  /\ pc' = [pc EXCEPT ![t] = "pass", ![sel[t]] = "run"]
  /\ lane' = [lane EXCEPT ![sel[t]].stamp = now]
  /\ sel' = [sel EXCEPT ![t] = 0]
  /\ UNCHANGED <<lock, queueVars, health, budget, left, todo, gone, sub, bounds, now, ghost>>

\* Mutants: every permit, or none, counts as the recovery permit.
ReleaseAsRecovery(recovery) ==
  inFlight' = inFlight - 1 /\ recoveryInFlight' = recoveryInFlight - 1
ReleaseAsReady(recovery) == inFlight' = inFlight - 1 /\ UNCHANGED recoveryInFlight

\* Drop of a ControllerWorkPermit.
ReleasePermit(recovery) ==
  /\ inFlight' = inFlight - 1
  /\ recoveryInFlight' = recoveryInFlight - (IF recovery THEN 1 ELSE 0)

\* The thread cannot be spawned: its closure, and the permit in it, is
\* dropped, and the outcome published.
SpawnFails(t) ==
  /\ pc[t] = "spawn"
  /\ ReleasePermit(lane[sel[t]].recovery)
  /\ Publish({sel[t]})
  /\ Goto(t, "spawn_release")
  /\ UNCHANGED <<lock, queueVars, health, queue, locals, work, bounds, now, best>>

\* A newer plan of a released endpoint goes to the back of the queue.
Requeue(e) ==
  ready' = IF slots[e].pending # 0 THEN Append(ready, e) ELSE ready

\* release_lane_state of command c.
ReleaseLaneState(c) ==
  /\ lock = Free
  /\ activeIds' = activeIds \ {c}
  /\ slots' = [slots EXCEPT ![lane[c].at].running = FALSE]
  /\ Requeue(lane[c].at)
  /\ activeLanes' = activeLanes - 1
  /\ lane' = [lane EXCEPT ![c] = NoLane]

SpawnRelease(t) ==
  /\ pc[t] = "spawn_release"
  /\ ReleaseLaneState(sel[t])
  /\ sel' = [sel EXCEPT ![t] = 0]
  /\ Goto(t, "pass")
  /\ UNCHANGED <<lock, health, budget, left, todo, gone, sub, bounds, now, outcomes, best>>

PassStep(t) ==
  \/ BeginPass(t) \/ EndPass(t) \/ ScanRefuse(t) \/ ScanPast(t) \/ ScanAdmit(t)
  \/ SpawnLane(t) \/ SpawnFails(t) \/ SpawnRelease(t)

-----------------------------------------------------------------------------
(* Evidence of reachability.  It is ordered by when it arose, not by when   *)
(* it is reported.                                                          *)

Better(e, at, kind) ==
  best' = [best EXCEPT ![e] = IF at > @.at \/ (at = @.at /\ kind = "failure")
                              THEN [at |-> at, kind |-> kind] ELSE @]

ProofCounts(e, at) == at > health[e].failed /\ at > health[e].proof

\* record_endpoint_proof_at: a proof that counts starts an admission pass.
RecordProof(t, e, at) ==
  /\ lock = Free
  /\ Better(e, at, "proof")
  /\ IF ProofCounts(e, at)
     THEN health' = [health EXCEPT ![e] = [Unknown EXCEPT !.proof = at]] /\ Goto(t, "pass")
     ELSE Goto(t, After(t)) /\ UNCHANGED health

\* Mutant: a failure counts if it is reported after the last one.
FailureAlwaysCounts(e, at) == health[e].proof <= at

FailureCounts(e, at) == health[e].proof <= at /\ health[e].failed < at

\* record_connectivity_failure of an attempt begun at the time given.
RecordFailure(e, at) ==
  LET n == health[e].failures + 1
  IN /\ lock = Free
     /\ Better(e, at, "failure")
     /\ health' = IF FailureCounts(e, at)
                  THEN [health EXCEPT ![e] = [proof |-> 0, failures |-> n, failed |-> at,
                                              retry |-> now + Delay(n)]]
                  ELSE health

\* record_reports: an attribute report, received at some earlier time.
Report(t, e, at) ==
  /\ pc[t] = "idle"
  /\ RecordProof(t, e, at)
  /\ UNCHANGED <<lock, queueVars, budget, locals, work, bounds, now, outcomes>>

Forget(es) ==
  /\ lock = Free
  /\ health' = [e \in Endpoints |-> IF e \in es THEN Unknown ELSE health[e]]
  /\ best' = [e \in Endpoints |-> IF e \in es THEN NoEvidence ELSE best[e]]
  /\ UNCHANGED <<lock, queueVars, budget, pc, locals, work, bounds, now, outcomes>>

\* A device is decommissioned.
ForgetNode(n) == Forget({e \in Endpoints : e[1] = n})

\* The controller is initialised again.
ResetReachability == Forget(Endpoints)

-----------------------------------------------------------------------------
(* run_lane.                                                                *)

\* The plan's steps have been carried out, or one of them has failed; a
\* success is proof of life from now on.
Execute(c) ==
  /\ pc[c] = "run"
  /\ \/ Goto(c, "proof") /\ lane' = [lane EXCEPT ![c].stamp = now]
     \/ (Goto(c, "failure") \/ Goto(c, "publish")) /\ UNCHANGED lane
  /\ UNCHANGED <<lock, queueVars, health, budget, locals, sub, bounds, now, ghost>>

LaneProof(c) ==
  /\ pc[c] = "proof"
  /\ RecordProof(c, lane[c].at, lane[c].stamp)
  /\ UNCHANGED <<lock, queueVars, budget, locals, work, bounds, now, outcomes>>

LaneFailure(c) ==
  /\ pc[c] = "failure"
  /\ RecordFailure(lane[c].at, lane[c].stamp)
  /\ Goto(c, "publish")
  /\ UNCHANGED <<lock, queueVars, budget, locals, work, bounds, now, outcomes>>

\* The outcome is published and the permit dropped.
LanePermit(c) ==
  /\ pc[c] = "publish"
  /\ Publish({c})
  /\ ReleasePermit(lane[c].recovery)
  /\ Goto(c, "release")
  /\ UNCHANGED <<lock, queueVars, health, queue, locals, work, bounds, now, best>>

\* Mutant: the freed lane is not offered to anybody.
FinishLaneOnly(c) == Goto(c, "off")

\* finish_lane admits whatever the freed lane allows.
FinishLane(c) == Goto(c, "pass")

LaneRelease(c) ==
  /\ pc[c] = "release"
  /\ ReleaseLaneState(c)
  /\ FinishLane(c)
  /\ UNCHANGED <<lock, health, budget, locals, sub, bounds, now, outcomes, best>>

LaneStep(c) == Execute(c) \/ LaneProof(c) \/ LaneFailure(c) \/ LanePermit(c) \/ LaneRelease(c)

-----------------------------------------------------------------------------
(* subscribe_with_budget.                                                   *)

\* ControllerWorkBudget::acquire draws a ticket ...
Subscribe(t, es) ==
  /\ pc[t] = "idle"
  /\ subs < MaxSubscriptions /\ subs' = subs + 1
  /\ queue' = Append(queue, t)
  /\ sub' = [sub EXCEPT ![t] = [targets |-> es, stamp |-> 0]]
  /\ Goto(t, "sub_wait")
  /\ UNCHANGED <<lock, queueVars, health, inFlight, recoveryInFlight, locals, lane, cmds, now,
                 ghost>>

\* ... and waits until it is first and the recovery permit is free.
SubAcquire(t) ==
  /\ pc[t] = "sub_wait"
  /\ Head(queue) = t /\ inFlight < Capacity /\ recoveryInFlight = 0
  /\ queue' = Tail(queue)
  /\ inFlight' = inFlight + 1 /\ recoveryInFlight' = recoveryInFlight + 1
  /\ sub' = [sub EXCEPT ![t].stamp = now]
  /\ Goto(t, "sub_run")
  /\ UNCHANGED <<lock, queueVars, health, locals, lane, bounds, now, ghost>>

SubExecute(t) ==
  /\ pc[t] = "sub_run"
  /\ Goto(t, "sub_failure") \/ Goto(t, "sub_permit")
  /\ UNCHANGED <<lock, queueVars, health, budget, locals, work, bounds, now, ghost>>

\* The attempt could not connect: its targets are blamed one by one.
SubFailure(t) ==
  /\ pc[t] = "sub_failure"
  /\ RecordFailure(Head(sub[t].targets), sub[t].stamp)
  /\ sub' = [sub EXCEPT ![t].targets = Tail(@)]
  /\ IF Len(sub[t].targets) = 1 THEN Goto(t, "sub_permit") ELSE UNCHANGED pc
  /\ UNCHANGED <<lock, queueVars, budget, locals, lane, bounds, now, outcomes>>

\* Mutant: a subscription only gives its permit back.
SubDone(t) == Goto(t, "idle")

\* The capacity it gives back is offered to pending commands.
SubAdmits(t) == Goto(t, "pass")

SubPermit(t) ==
  /\ pc[t] = "sub_permit"
  /\ ReleasePermit(TRUE)
  /\ sub' = [sub EXCEPT ![t] = NoSub]
  /\ SubAdmits(t)
  /\ UNCHANGED <<lock, queueVars, health, queue, locals, lane, bounds, now, ghost>>

SubStep(t) == SubAcquire(t) \/ SubExecute(t) \/ SubFailure(t) \/ SubPermit(t)

-----------------------------------------------------------------------------

Tick ==
  /\ now < MaxTime
  /\ now' = now + 1
  /\ UNCHANGED <<lock, queueVars, health, budget, pc, locals, work, bounds, ghost>>

ThreadStep(t) ==
  \/ PassStep(t)
  \/ t \in Submitters /\ (Enqueue(t) \/ PublishSuperseded(t))
  \/ t \in Cmds /\ LaneStep(t)
  \/ t \in Subscribers /\ SubStep(t)

Next ==
  \/ \E t \in Submitters, b \in Batches : Submit(t, b)
  \/ \E t \in Subscribers, es \in Targets : Subscribe(t, es)
  \/ \E t \in Reporters, e \in Endpoints : \E at \in 1..now : Report(t, e, at)
  \/ \E t \in Threads : ThreadStep(t)
  \/ \E n \in {e[1] : e \in Endpoints} : ForgetNode(n)
  \/ ResetReachability
  \/ Tick

(***************************************************************************)
(* Every thread goes on: mutexes are released, plans and subscriptions end *)
(* by the SDK's own timeouts.  Time, reports and new work are not forced.  *)
(***************************************************************************)
Fairness == \A t \in Threads : WF_vars(ThreadStep(t))

Spec == Init /\ [][Next]_vars

FairSpec == Spec /\ Fairness

-----------------------------------------------------------------------------
(* Properties.                                                              *)

\* Every variable keeps its type; no count goes below zero.
TypeOK ==
  /\ lock \in Threads \cup {Free}
  /\ slots \in [Endpoints -> [running : BOOLEAN, pending : 0..MaxCommands, ticket : BOOLEAN]]
  /\ activeIds \subseteq Cmds
  /\ ready \in Seq(Endpoints)
  /\ queue \in Seq(Endpoints \cup Subscribers)
  /\ activeLanes \in 0..Capacity
  /\ inFlight \in 0..Capacity /\ recoveryInFlight \in 0..1
  /\ health \in [Endpoints -> [proof : Nat, failures : Nat, failed : Nat, retry : Nat]]
  /\ DOMAIN pc = Threads /\ left \in Nat /\ todo \in Seq(Endpoints)
  /\ gone \in [Submitters -> SUBSET Cmds] /\ sel \in [Threads -> 0..MaxCommands]
  /\ \A c \in Cmds : lane[c] = NoLane \/ lane[c].at \in Endpoints

\* Commands about to be spawned by a pass.
Spawning == {sel[t] : t \in {u \in Threads : pc[u] = "spawn"}}

\* Commands that have a lane and have not released it; those whose permit is
\* in use.
Laned == {c \in Cmds : lane[c] # NoLane}
Holding == {c \in Laned : c \in Spawning \/ pc[c] \notin {"off", "release"}}

Subscribing == {t \in Subscribers : pc[t] \in {"sub_run", "sub_failure", "sub_permit"}}

\* What the budget counts is what is held, endpoints and subscriptions
\* without proof of life share one permit, and responsive endpoints leave
\* that one free.
PermitsExact ==
  /\ inFlight = Cardinality(Holding) + Cardinality(Subscribing)
  /\ recoveryInFlight = Cardinality({c \in Holding : lane[c].recovery}) + Cardinality(Subscribing)
  /\ recoveryInFlight <= 1
  /\ Cardinality({c \in Holding : ~lane[c].recovery}) <= Capacity - 1

\* An endpoint runs one plan at a time, the lanes are counted exactly, and an
\* endpoint is queued exactly when it has a plan and no lane
\* (start_ready_lanes, release_lane_state).
OneLanePerEndpoint ==
  /\ \A c, d \in Laned : lane[c].at = lane[d].at => c = d
  /\ {e \in Endpoints : slots[e].running} = {lane[c].at : c \in Laned}
  /\ activeLanes = Cardinality(Laned)
  /\ IsInjective(ready)
  /\ ToSet(ready) = {e \in Endpoints : ~Vain(e)}

\* The recovery queue lists, once each, the endpoints whose slot holds a
\* ticket and the subscriptions that wait; only a queued endpoint has one.
TicketsOwned ==
  /\ IsInjective(queue)
  /\ ToSet(queue) = {e \in Endpoints : slots[e].ticket}
                    \cup {t \in Subscribers : pc[t] = "sub_wait"}
  /\ \A e \in Endpoints : slots[e].ticket => ~Vain(e)

\* The work budget is exact: no permit is lost or given twice and no ticket is
\* stranded before those of others, while endpoints become responsive, cool
\* down and are forgotten (ControllerWorkBudget, ControllerRecoveryTicket).
BudgetExact == PermitsExact /\ TicketsOwned

\* Every command submitted is in one place or has been answered, and none is
\* answered twice (publish_outcome).
AnsweredOnce ==
  \A c \in 1..cmds :
    outcomes[c] = IF \/ \E e \in Endpoints : slots[e].pending = c
                     \/ \E t \in Submitters : c \in gone[t]
                     \/ c \in Holding
                  THEN 0 ELSE 1

\* No admission is lost: once every thread has come to rest, no endpoint is
\* left waiting for a lane (finish_lane, subscribe_with_budget).
NoLostAdmission ==
  (\A t \in Threads : pc[t] \in {"idle", "off"}) => \A e \in Endpoints : slots[e].pending = 0

\* The evidence that arose last decides, however the reports of lanes,
\* subscriptions and drained attribute reports are ordered
\* (record_endpoint_proof_at, record_connectivity_failure).
EvidenceWins ==
  \A e \in Endpoints :
    /\ health[e].proof = IF best[e].kind = "proof" THEN best[e].at ELSE 0
    /\ health[e].failed = IF best[e].kind = "failure" THEN best[e].at ELSE 0

\* Every command submitted is eventually answered, whatever the controller
\* does with it and however reachability changes (start_ready_lanes).
Answered == \A c \in Cmds : (cmds >= c) ~> (outcomes[c] = 1)

\* Every subscription is eventually admitted: commands waiting for the
\* recovery permit do not starve it (ControllerWorkBudget::acquire).
Subscribed == \A t \in Subscribers : (pc[t] = "sub_wait") ~> (pc[t] = "sub_run")
=============================================================================
