----------------------------- MODULE HubDispatch -----------------------------
(***************************************************************************)
(* One per-hub command dispatcher of the composite light controller        *)
(* (rhythm-core/src/composite_controller.rs): the latest-wins mailbox, the *)
(* async worker that selects from it, the supervised transport calls with  *)
(* their timeouts and cooldowns, token-bucket pacing, and close.           *)
(*                                                                         *)
(* Every critical section of the queue mutex is one atomic step, except    *)
(* the worker's scan of the FIFO, which takes one step per dropped key and *)
(* holds the lock in between (LockFree).  What the code does outside the   *)
(* mutex -- emitting events, notifying the worker, spawning a task -- is a *)
(* step of its own, so other threads interleave there.                     *)
(*                                                                         *)
(* Time is relative: deadlines are kept as the number of ticks left, and   *)
(* Tick lets one unit of time pass everywhere.  Deadlines may be observed  *)
(* late.  Two instants are equal exactly when the same positive number of  *)
(* ticks is left of both.                                                  *)
(***************************************************************************)
EXTENDS Integers, FiniteSets, Sequences, SequencesExt

CONSTANTS
  Callers,             \* threads that call turn_on / turn_off
  Nodes,               \* topology nodes the engine addresses
  Route,               \* Route[n]: the hub-native target node n routes to
  SplitDeviceTargets,  \* policy.split_device_targets
  MaxInFlight,         \* policy.max_in_flight
  DispatchTimeout,     \* policy.dispatch_timeout, in ticks
  TimeoutCooldown,     \* policy.timeout_cooldown, in ticks
  TimeoutScope,        \* policy.timeout_scope: "target" or "hub"
  RateLimited,         \* policy.rate_limit is Some
  Capacity,            \* rate_limit.capacity
  RefillPerTick,       \* rate_limit.refill_per_sec
  GroupCost,           \* rate_limit.group_cost
  DeviceCost,          \* rate_limit.device_cost
  NoNode,              \* superseded_node_id = None
  MaxCalls             \* bound on the number of turn_on / turn_off calls

(***************************************************************************)
(* A target is a record [kind, ids] where kind is "group" or "devices" and *)
(* ids is the non-empty sequence of native ids (of one control_id for a    *)
(* group).  Its label is the mailbox key; distinct targets are taken to    *)
(* have distinct labels, so the target itself serves as the key.           *)
(***************************************************************************)
Elements(target) == {<<target.kind, target.ids[i]>> : i \in DOMAIN target.ids}

Cost(target) == IF target.kind = "group" THEN GroupCost
                ELSE DeviceCost * Len(target.ids)

\* Mutant: no splitting, the list goes out as one unit.
UnitsUnsplit(target) == <<target>>

\* The mailbox keys one call enqueues, in the order it does.
Units(target) ==
  IF SplitDeviceTargets /\ target.kind = "devices" /\ Len(target.ids) > 1
  THEN [i \in DOMAIN target.ids |-> [kind |-> "devices", ids |-> <<target.ids[i]>>]]
  ELSE <<target>>

Keys == UNION {{Units(Route[n])[i] : i \in DOMAIN Units(Route[n])} : n \in Nodes}

ASSUME PolicyAssumption ==
  /\ MaxInFlight \in Nat \ {0}
  /\ DispatchTimeout \in Nat \ {0}
  /\ TimeoutCooldown \in Nat \ {0}
  /\ TimeoutScope \in {"target", "hub"}
  /\ RateLimited \in BOOLEAN
  /\ SplitDeviceTargets \in BOOLEAN

ASSUME RateAssumption ==
  /\ Capacity \in Nat \ {0}
  /\ RefillPerTick \in Nat \ {0}
  /\ GroupCost \in Nat
  /\ DeviceCost \in Nat

ASSUME RouteAssumption ==
  /\ MaxCalls \in Nat
  /\ NoNode \notin Nodes
  /\ \A n \in Nodes : /\ Route[n].kind \in {"group", "devices"}
                      /\ Route[n].ids \in Seq(STRING)
                      /\ Route[n].ids # <<>>
                      /\ Route[n] = [kind |-> Route[n].kind, ids |-> Route[n].ids]

VARIABLES
  (* DispatchQueue, guarded by the mutex *)
  order,          \* FIFO of mailbox keys awaiting dispatch
  pending,        \* key -> [node, cmd], the latest command of the key
  inFlight,       \* element ids being dispatched
  inFlightCount,
  cooldown,       \* key -> ticks left of its target cooldown (0: none)
  hubCooldown,    \* ticks left of the hub cooldown (0: none)
  tokens,
  sinceRefill,    \* ticks since last_refill, until the bucket is full
  closed,
  (* tokio::sync::Notify and the worker task *)
  permit,         \* a stored notify_one permit
  wpc,            \* what the worker does next
  wout,           \* nodes of cooldown drops the worker has still to report
  sleepLeft,      \* ticks left of WorkerStep::Sleep
  (* the other threads *)
  task,           \* supervised dispatches, keyed by the command they carry
  caller,         \* threads inside enqueue_action
  cpc, dropped,   \* the thread inside close, and the jobs it drained
  calls,          \* calls made so far (bounded by MaxCalls)
  cmd,            \* commands accepted into the mailbox so far
  (* observation only *)
  balance,        \* node -> queued events - superseded - outcomes emitted
  lamp,           \* key -> last command the hub carried out for it
  load            \* the hub's own leaky bucket: cost received, minus drain

queueVars == <<order, pending, inFlight, inFlightCount, cooldown, hubCooldown,
               tokens, sinceRefill, closed>>
workerVars == <<permit, wpc, wout, sleepLeft>>
threadVars == <<task, caller, cpc, dropped, calls, cmd>>
ghostVars == <<balance, lamp, load>>
vars == <<queueVars, workerVars, threadVars, ghostVars>>

-----------------------------------------------------------------------------

Phases == {"selected", "running", "returned", "timed_out", "zombie", "finishing"}
WorkerPcs == {"select", "scan", "wait", "sleep", "spawn", "parked", "asleep", "exit"}
CallerPcs == {"idle", "enqueue", "queued", "notify", "skip_queued", "skip_outcome"}

Job == [node : Nodes, cmd : Nat]
Task == [key : Keys, node : Nodes, phase : Phases, left : Nat, until : Nat]
Caller == [pc : CallerPcs, node : Nodes \cup {NoNode}, todo : Seq(Keys),
           superseded : Nodes \cup {NoNode}]

Idle == [pc |-> "idle", node |-> NoNode, todo |-> <<>>, superseded |-> NoNode]

\* The queue mutex is held across steps only by the worker's scan.
LockFree == wpc # "scan"

\* Mutant: notify_waiters, which leaves no permit behind.
NotifyWaiters ==
  /\ permit' = permit
  /\ wpc' = IF wpc \in {"parked", "asleep"} THEN "select" ELSE wpc

\* tokio Notify: wake the worker if it is waiting, else leave one permit.
Notify ==
  IF wpc \in {"parked", "asleep"}
  THEN wpc' = "select" /\ permit' = permit
  ELSE permit' = TRUE /\ wpc' = wpc

\* queue.active_cooldown(key, now); expired entries count as absent.
ActiveCooldown(k) == IF hubCooldown > 0 THEN hubCooldown ELSE cooldown[k]

\* Mutants: no conflict detection; detection on the first element only.
NoConflicts(k) == FALSE
FirstConflicts(k) == <<k.kind, k.ids[1]>> \in inFlight

\* Some element of the key is being dispatched.
Conflicts(k) == Elements(k) \cap inFlight # {}

\* queue.refill_tokens, capped at the bucket's capacity.
Refilled == LET t == tokens + sinceRefill * RefillPerTick
            IN  IF t < Capacity THEN t ELSE Capacity

\* Mutant: instants subtracted without saturation.
DecUnsaturated(n) == n - 1

\* Ticks left after one more tick.
Dec(n) == IF n > 0 THEN n - 1 ELSE 0

\* Mutant: last_refill is not advanced.
RefillKeepsInstant == tokens' = Refilled /\ sinceRefill' = sinceRefill

RefillTokens == tokens' = Refilled /\ sinceRefill' = 0

\* The listeners' view of emit_queued and emit.
Queued(n, old) == balance' = [m \in Nodes |->
  balance[m] + (IF m = n THEN 1 ELSE 0) - (IF m = old THEN 1 ELSE 0)]

Outcome(n) == balance' = [balance EXCEPT ![n] = @ - 1]

Without(f, x) == [y \in DOMAIN f \ {x} |-> f[y]]

With(f, x, v) == [y \in DOMAIN f \cup {x} |-> IF y = x THEN v ELSE f[y]]

Init ==
  /\ order = <<>>
  /\ pending = [k \in {} |-> 0]
  /\ inFlight = {}
  /\ inFlightCount = 0
  /\ cooldown = [k \in Keys |-> 0]
  /\ hubCooldown = 0
  /\ tokens = IF RateLimited THEN Capacity ELSE 0
  /\ sinceRefill = 0
  /\ closed = FALSE
  /\ permit = FALSE
  /\ wpc = "select"
  /\ wout = <<>>
  /\ sleepLeft = 0
  /\ task = [c \in {} |-> 0]
  /\ caller = [c \in Callers |-> Idle]
  /\ cpc = "idle"
  /\ dropped = [k \in {} |-> 0]
  /\ calls = 0
  /\ cmd = 0
  /\ balance = [n \in Nodes |-> 0]
  /\ lamp = [k \in Keys |-> 0]
  /\ load = 0

-----------------------------------------------------------------------------
(* Callers: HubDispatcher::enqueue_action and DispatcherShared::enqueue.    *)

\* The caller goes on at pc, having displaced node old (or none).
Goto(c, pc, old) ==
  caller' = [caller EXCEPT ![c] = [pc |-> pc, node |-> caller[c].node,
                                   todo |-> caller[c].todo, superseded |-> old]]

\* Go on to the next unit of a split device list, or return.
NextUnit(c) ==
  caller' = [caller EXCEPT ![c] =
    IF Len(caller[c].todo) > 1
    THEN [pc |-> "enqueue", node |-> caller[c].node,
          todo |-> Tail(caller[c].todo), superseded |-> NoNode]
    ELSE Idle]

\* turn_on / turn_off routed to this dispatcher's target of node n.
Call(c, n) ==
  /\ caller[c].pc = "idle"
  /\ calls < MaxCalls
  /\ calls' = calls + 1
  /\ caller' = [caller EXCEPT ![c] = [pc |-> "enqueue", node |-> n,
                                      todo |-> Units(Route[n]), superseded |-> NoNode]]
  /\ UNCHANGED <<queueVars, workerVars, task, cpc, dropped, cmd, ghostVars>>

\* The dispatcher was closed: this unit is rejected without any event.
EnqueueClosed(c) ==
  /\ caller[c].pc = "enqueue" /\ LockFree
  /\ closed
  /\ NextUnit(c)
  /\ UNCHANGED <<queueVars, workerVars, task, cpc, dropped, calls, cmd, ghostVars>>

\* The key is cooling down: reject it, pairing a synthetic queued event with
\* the outcome.
EnqueueCooling(c) ==
  /\ caller[c].pc = "enqueue" /\ LockFree
  /\ ~closed
  /\ ActiveCooldown(Head(caller[c].todo)) > 0
  /\ Goto(c, "skip_queued", NoNode)
  /\ UNCHANGED <<queueVars, workerVars, task, cpc, dropped, calls, cmd, ghostVars>>

\* Mutant: the displaced node is forgotten.
CoalesceEventDropsOld(c, k) == Goto(c, "notify", NoNode)

\* A coalesce emits a queued event only when it changes the slot's node.
CoalesceEvent(c, k) ==
  IF pending[k].node # caller[c].node THEN Goto(c, "queued", pending[k].node)
                                      ELSE Goto(c, "notify", NoNode)

\* Replace the queued command of the key; the slot keeps its FIFO position.
EnqueueCoalesce(c) ==
  LET k == Head(caller[c].todo)
      n == caller[c].node
  IN /\ caller[c].pc = "enqueue" /\ LockFree
     /\ ~closed
     /\ ActiveCooldown(k) = 0
     /\ k \in DOMAIN pending
     /\ cmd' = cmd + 1
     /\ pending' = [pending EXCEPT ![k] = [node |-> n, cmd |-> cmd + 1]]
     /\ CoalesceEvent(c, k)
     /\ UNCHANGED <<order, inFlight, inFlightCount, cooldown, hubCooldown, tokens,
                    sinceRefill, closed, workerVars, task, cpc, dropped, calls, ghostVars>>

\* Open a new mailbox slot at the back of the FIFO.
EnqueueInsert(c) ==
  LET k == Head(caller[c].todo)
  IN /\ caller[c].pc = "enqueue" /\ LockFree
     /\ ~closed
     /\ ActiveCooldown(k) = 0
     /\ k \notin DOMAIN pending
     /\ cmd' = cmd + 1
     /\ pending' = With(pending, k, [node |-> caller[c].node, cmd |-> cmd + 1])
     /\ order' = Append(order, k)
     /\ Goto(c, "queued", NoNode)
     /\ UNCHANGED <<inFlight, inFlightCount, cooldown, hubCooldown, tokens, sinceRefill,
                    closed, workerVars, task, cpc, dropped, calls, ghostVars>>

\* emit_queued, after the mutex has been released.
EmitQueued(c) ==
  /\ caller[c].pc = "queued"
  /\ Queued(caller[c].node, caller[c].superseded)
  /\ Goto(c, "notify", NoNode)
  /\ UNCHANGED <<queueVars, workerVars, task, cpc, dropped, calls, cmd, lamp, load>>

\* notify_one at the end of enqueue.
EnqueueNotify(c) ==
  /\ caller[c].pc = "notify"
  /\ Notify
  /\ NextUnit(c)
  /\ UNCHANGED <<queueVars, wout, sleepLeft, task, cpc, dropped, calls, cmd, ghostVars>>

EmitSkipQueued(c) ==
  /\ caller[c].pc = "skip_queued"
  /\ Queued(caller[c].node, NoNode)
  /\ Goto(c, "skip_outcome", NoNode)
  /\ UNCHANGED <<queueVars, workerVars, task, cpc, dropped, calls, cmd, lamp, load>>

EmitSkipOutcome(c) ==
  /\ caller[c].pc = "skip_outcome"
  /\ Outcome(caller[c].node)
  /\ NextUnit(c)
  /\ UNCHANGED <<queueVars, workerVars, task, cpc, dropped, calls, cmd, lamp, load>>

CallerStep(c) ==
  \/ EnqueueClosed(c) \/ EnqueueCooling(c) \/ EnqueueCoalesce(c) \/ EnqueueInsert(c)
  \/ EmitQueued(c) \/ EnqueueNotify(c) \/ EmitSkipQueued(c) \/ EmitSkipOutcome(c)

-----------------------------------------------------------------------------
(* The worker: run_dispatch_worker and select_next.                         *)

\* Take the lock: leave if closed, wait if the in-flight budget is spent,
\* else refill the bucket and scan.
SelectBegin ==
  /\ wpc = "select"
  /\ IF closed THEN wpc' = "exit" /\ UNCHANGED <<tokens, sinceRefill>>
     ELSE IF inFlightCount >= MaxInFlight
     THEN wpc' = "wait" /\ UNCHANGED <<tokens, sinceRefill>>
     ELSE /\ wpc' = "scan"
          /\ IF RateLimited THEN RefillTokens
                            ELSE UNCHANGED <<tokens, sinceRefill>>
  /\ UNCHANGED <<order, pending, inFlight, inFlightCount, cooldown, hubCooldown, closed,
                 permit, wout, sleepLeft, threadVars, ghostVars>>

\* The scan skips the keys that conflict with a dispatch in flight, but not
\* the ones that are cooling down: those it drops on its way.
Stops(i) == ActiveCooldown(order[i]) > 0 \/ ~Conflicts(order[i])

ScanStopsAt(i) ==
  /\ i \in DOMAIN order
  /\ Stops(i)
  /\ \A j \in 1..(i - 1) : ~Stops(j)

\* Mutant: the job stays behind in the map.
PopKeepsJob(i) == order' = RemoveAt(order, i) /\ pending' = pending

\* Take the slot at position i out of the mailbox.
Pop(i) == order' = RemoveAt(order, i) /\ pending' = Without(pending, order[i])

\* A key that started cooling down after it was queued.
ScanDrop(i) ==
  /\ wpc = "scan"
  /\ ScanStopsAt(i)
  /\ ActiveCooldown(order[i]) > 0
  /\ Pop(i)
  /\ wout' = Append(wout, pending[order[i]].node)
  /\ UNCHANGED <<inFlight, inFlightCount, cooldown, hubCooldown, tokens, sinceRefill, closed,
                 permit, wpc, sleepLeft, threadVars, ghostVars>>

TokensShort(i) == RateLimited /\ tokens < Cost(order[i])

\* The candidate must wait for tokens; it stays in the mailbox.
ScanSleep(i) ==
  /\ wpc = "scan"
  /\ ScanStopsAt(i)
  /\ ActiveCooldown(order[i]) = 0
  /\ TokensShort(i)
  /\ wpc' = "sleep"
  /\ sleepLeft' = (Cost(order[i]) - tokens + RefillPerTick - 1) \div RefillPerTick
  /\ UNCHANGED <<queueVars, permit, wout, threadVars, ghostVars>>

\* Pop the candidate and mark its elements in flight.
ScanDispatch(i) ==
  LET k == order[i]
      job == pending[k]
  IN /\ wpc = "scan"
     /\ ScanStopsAt(i)
     /\ ActiveCooldown(k) = 0
     /\ ~TokensShort(i)
     /\ Pop(i)
     /\ inFlight' = inFlight \cup Elements(k)
     /\ inFlightCount' = inFlightCount + 1
     /\ IF RateLimited THEN tokens' = tokens - Cost(k) /\ load' = load + Cost(k)
                       ELSE UNCHANGED <<tokens, load>>
     /\ task' = With(task, job.cmd, [key |-> k, node |-> job.node, phase |-> "selected",
                                     left |-> DispatchTimeout, until |-> 0])
     /\ wpc' = "spawn"
     /\ UNCHANGED <<cooldown, hubCooldown, sinceRefill, closed, permit, wout, sleepLeft,
                    caller, cpc, dropped, calls, cmd, balance, lamp>>

\* Nothing dispatchable.
ScanWait ==
  /\ wpc = "scan"
  /\ \A i \in DOMAIN order : ~Stops(i)
  /\ wpc' = "wait"
  /\ UNCHANGED <<queueVars, permit, wout, sleepLeft, threadVars, ghostVars>>

\* Report a cooldown drop, after the mutex has been released.
EmitSkipped ==
  /\ wpc \in {"wait", "sleep", "spawn"}
  /\ wout # <<>>
  /\ Outcome(Head(wout))
  /\ wout' = Tail(wout)
  /\ UNCHANGED <<queueVars, permit, wpc, sleepLeft, threadVars, lamp, load>>

\* Await the Notified future: a stored permit completes it at once.
Park ==
  /\ wpc \in {"wait", "sleep"}
  /\ wout = <<>>
  /\ permit' = FALSE
  /\ wpc' = IF permit THEN "select" ELSE IF wpc = "wait" THEN "parked" ELSE "asleep"
  /\ UNCHANGED <<queueVars, wout, sleepLeft, threadVars, ghostVars>>

\* The pacing sleep elapses.
WakeUp ==
  /\ wpc = "asleep"
  /\ sleepLeft = 0
  /\ wpc' = "select"
  /\ UNCHANGED <<queueVars, permit, wout, sleepLeft, threadVars, ghostVars>>

\* tokio::spawn(supervise_dispatch(..)), then loop.
Spawn ==
  /\ wpc = "spawn"
  /\ wout = <<>>
  /\ task' = [t \in DOMAIN task |-> IF task[t].phase = "selected"
                                    THEN [task[t] EXCEPT !.phase = "running"] ELSE task[t]]
  /\ wpc' = "select"
  /\ UNCHANGED <<queueVars, permit, wout, sleepLeft, caller, cpc, dropped, calls, cmd, ghostVars>>

WorkerStep ==
  \/ SelectBegin \/ ScanWait \/ EmitSkipped \/ Park \/ WakeUp \/ Spawn
  \/ \E i \in DOMAIN order : ScanDrop(i) \/ ScanSleep(i) \/ ScanDispatch(i)

-----------------------------------------------------------------------------
(* Supervised dispatches: supervise_dispatch.                               *)

Phase(t, p) == task' = [task EXCEPT ![t].phase = p]

\* A transport call that succeeds has carried the command out.
Carry(t, ok) == lamp' = IF ok THEN [lamp EXCEPT ![task[t].key] = t] ELSE lamp

\* The transport call returns before the supervision timeout is noticed.
Return(t, ok) ==
  /\ task[t].phase = "running"
  /\ Phase(t, "returned")
  /\ Carry(t, ok)
  /\ UNCHANGED <<queueVars, workerVars, caller, cpc, dropped, calls, cmd, balance, load>>

EmitReturned(t) ==
  /\ task[t].phase = "returned"
  /\ Outcome(task[t].node)
  /\ Phase(t, "finishing")
  /\ UNCHANGED <<queueVars, workerVars, caller, cpc, dropped, calls, cmd, lamp, load>>

\* The supervision timeout fires: apply_timeout_cooldown.
TimeOut(t) ==
  /\ task[t].phase = "running"
  /\ task[t].left = 0
  /\ LockFree
  /\ IF TimeoutScope = "target"
     THEN cooldown' = [cooldown EXCEPT ![task[t].key] = TimeoutCooldown] /\ UNCHANGED hubCooldown
     ELSE hubCooldown' = TimeoutCooldown /\ UNCHANGED cooldown
  /\ task' = [task EXCEPT ![t].phase = "timed_out", ![t].until = TimeoutCooldown]
  /\ UNCHANGED <<order, pending, inFlight, inFlightCount, tokens, sinceRefill, closed,
                 workerVars, caller, cpc, dropped, calls, cmd, ghostVars>>

EmitTimedOut(t) ==
  /\ task[t].phase = "timed_out"
  /\ Outcome(task[t].node)
  /\ Phase(t, "zombie")
  /\ UNCHANGED <<queueVars, workerVars, caller, cpc, dropped, calls, cmd, lamp, load>>

\* queue.target_cooldowns.get(key) == Some(&applied_until), or the hub's.
StillApplied(t, left) == task[t].until > 0 /\ left = task[t].until

\* The timed-out call succeeds after all: clear_timeout_cooldown, if the
\* cooldown is still the one this call applied.
LateSuccess(t) ==
  /\ task[t].phase = "zombie"
  /\ LockFree
  /\ IF TimeoutScope = "target"
     THEN /\ cooldown' = IF StillApplied(t, cooldown[task[t].key])
                         THEN [cooldown EXCEPT ![task[t].key] = 0] ELSE cooldown
          /\ UNCHANGED hubCooldown
     ELSE /\ hubCooldown' = IF StillApplied(t, hubCooldown) THEN 0 ELSE hubCooldown
          /\ UNCHANGED cooldown
  /\ Notify
  /\ Phase(t, "finishing")
  /\ Carry(t, TRUE)
  /\ UNCHANGED <<order, pending, inFlight, inFlightCount, tokens, sinceRefill, closed,
                 wout, sleepLeft, caller, cpc, dropped, calls, cmd, balance, load>>

LateFailure(t) ==
  /\ task[t].phase = "zombie"
  /\ Phase(t, "finishing")
  /\ UNCHANGED <<queueVars, workerVars, caller, cpc, dropped, calls, cmd, ghostVars>>

\* finish_dispatch: release the elements and wake the worker.
FinishDispatch(t) ==
  /\ task[t].phase = "finishing"
  /\ LockFree
  /\ inFlight' = inFlight \ Elements(task[t].key)
  /\ inFlightCount' = IF inFlightCount > 0 THEN inFlightCount - 1 ELSE 0
  /\ task' = Without(task, t)
  /\ Notify
  /\ UNCHANGED <<order, pending, cooldown, hubCooldown, tokens, sinceRefill, closed,
                 wout, sleepLeft, caller, cpc, dropped, calls, cmd, ghostVars>>

TaskStep(t) ==
  \/ \E ok \in BOOLEAN : Return(t, ok)
  \/ EmitReturned(t) \/ TimeOut(t) \/ EmitTimedOut(t)
  \/ LateSuccess(t) \/ LateFailure(t) \/ FinishDispatch(t)

-----------------------------------------------------------------------------
(* DispatcherShared::close, called when the hub's controller is replaced or *)
(* removed and again when the dispatcher is dropped.                        *)

Close ==
  /\ cpc = "idle" /\ LockFree
  /\ cpc' = "dropping"
  /\ closed' = TRUE
  /\ IF closed THEN UNCHANGED <<order, pending, dropped>>
     ELSE order' = <<>> /\ pending' = [k \in {} |-> 0] /\ dropped' = pending
  /\ UNCHANGED <<inFlight, inFlightCount, cooldown, hubCooldown, tokens, sinceRefill,
                 workerVars, task, caller, calls, cmd, ghostVars>>

\* Report one drained job; HashMap::drain yields them in any order.
EmitDropped(k) ==
  /\ cpc = "dropping"
  /\ Outcome(dropped[k].node)
  /\ dropped' = Without(dropped, k)
  /\ UNCHANGED <<queueVars, workerVars, task, caller, cpc, calls, cmd, lamp, load>>

CloseNotify ==
  /\ cpc = "dropping"
  /\ dropped = [k \in {} |-> 0]
  /\ cpc' = "idle"
  /\ Notify
  /\ UNCHANGED <<queueVars, wout, sleepLeft, task, caller, dropped, calls, cmd, ghostVars>>

CloserStep == CloseNotify \/ \E k \in DOMAIN dropped : EmitDropped(k)

\* The supervision timer runs while the call does.
Aged(r) == [key |-> r.key, node |-> r.node, phase |-> r.phase,
            left |-> IF r.phase = "running" THEN Dec(r.left) ELSE r.left,
            until |-> Dec(r.until)]

\* One unit of time passes.  A critical section takes no time.
Tick ==
  /\ LockFree
  /\ cooldown' = [k \in Keys |-> Dec(cooldown[k])]
  /\ hubCooldown' = Dec(hubCooldown)
  /\ sleepLeft' = IF wpc = "asleep" THEN Dec(sleepLeft) ELSE sleepLeft
  /\ sinceRefill' = IF RateLimited /\ Refilled < Capacity THEN sinceRefill + 1 ELSE sinceRefill
  /\ task' = [t \in DOMAIN task |-> Aged(task[t])]
  /\ load' = IF load > RefillPerTick THEN load - RefillPerTick ELSE 0
  /\ UNCHANGED <<order, pending, inFlight, inFlightCount, tokens, closed, permit, wpc, wout,
                 caller, cpc, dropped, calls, cmd, balance, lamp>>

Next ==
  \/ \E c \in Callers : CallerStep(c) \/ \E n \in Nodes : Call(c, n)
  \/ WorkerStep
  \/ \E t \in DOMAIN task : TaskStep(t)
  \/ Close \/ CloserStep
  \/ Tick

(***************************************************************************)
(* The threads and tasks are scheduled by the OS and by tokio, so each     *)
(* keeps running; a transport call eventually returns ("the wait is        *)
(* bounded by the transport's own timeouts"); time passes.  Nothing forces *)
(* a new call or a close.                                                  *)
(***************************************************************************)
Fairness ==
  /\ \A c \in Callers : WF_vars(CallerStep(c))
  /\ WF_vars(WorkerStep)
  /\ \A t \in 1..(MaxCalls * Cardinality(Keys)) : WF_vars(t \in DOMAIN task /\ TaskStep(t))
  /\ WF_vars(CloserStep)
  /\ WF_vars(Tick)

Spec == Init /\ [][Next]_vars

FairSpec == Spec /\ Fairness

-----------------------------------------------------------------------------
(* Properties.                                                              *)

QueueType ==
  /\ order \in Seq(Keys)
  /\ DOMAIN pending \subseteq Keys
  /\ pending \in [DOMAIN pending -> Job]
  /\ inFlight \subseteq UNION {Elements(k) : k \in Keys}
  /\ inFlightCount \in Nat
  /\ closed \in BOOLEAN

TimeType ==
  /\ cooldown \in [Keys -> Nat]
  /\ hubCooldown \in Nat
  /\ tokens \in 0..Capacity
  /\ sinceRefill \in Nat
  /\ sleepLeft \in Nat
  /\ load \in Nat

WorkerType ==
  /\ permit \in BOOLEAN
  /\ wpc \in WorkerPcs
  /\ wout \in Seq(Nodes)

TaskType ==
  /\ DOMAIN task \subseteq Nat
  /\ task \in [DOMAIN task -> Task]

CallerType ==
  /\ caller \in [Callers -> Caller]
  /\ \A c \in Callers : caller[c].pc # "idle" =>
       caller[c].node \in Nodes /\ caller[c].todo # <<>>
  /\ calls \in Nat
  /\ cmd \in Nat

CloserType ==
  /\ cpc \in {"idle", "dropping"}
  /\ DOMAIN dropped \subseteq Keys
  /\ dropped \in [DOMAIN dropped -> Job]

EventType ==
  /\ balance \in [Nodes -> Int]
  /\ lamp \in [Keys -> Nat]

\* Every variable keeps its type; in particular no tick count, token count
\* or in-flight count goes below zero and the bucket never overflows.
TypeOK ==
  /\ QueueType /\ TimeType /\ WorkerType /\ TaskType
  /\ CallerType /\ CloserType /\ EventType

\* The FIFO lists every mailbox slot exactly once, so select_next's
\* expect("pending job for ordered key") cannot panic under the mutex.
MailboxConsistent ==
  /\ \A i, j \in DOMAIN order : order[i] = order[j] => i = j
  /\ {order[i] : i \in DOMAIN order} = DOMAIN pending

\* No two live dispatches, zombies included, share an element, and the
\* in-flight bookkeeping that guards this is exact and within the budget.
InFlightExact ==
  /\ \A t, u \in DOMAIN task : t # u => Elements(task[t].key) \cap Elements(task[u].key) = {}
  /\ inFlight = UNION {Elements(task[t].key) : t \in DOMAIN task}
  /\ inFlightCount = Cardinality(DOMAIN task)
  /\ inFlightCount <= MaxInFlight

\* Queued events and outcomes pair 1:1 per node: what the listeners have
\* counted is what is still queued, in flight or about to be reported, less
\* the queued events not reported yet.
Unreported == {"selected", "running", "returned", "timed_out"}

Owed(n) ==
  Cardinality({k \in DOMAIN pending : pending[k].node = n})
  + Cardinality({t \in DOMAIN task : task[t].node = n /\ task[t].phase \in Unreported})
  + Cardinality({i \in DOMAIN wout : wout[i] = n})
  + Cardinality({k \in DOMAIN dropped : dropped[k].node = n})
  + Cardinality({c \in Callers : caller[c].pc = "skip_outcome" /\ caller[c].node = n})
  + Cardinality({c \in Callers : caller[c].pc = "queued" /\ caller[c].superseded = n})
  - Cardinality({c \in Callers : caller[c].pc = "queued" /\ caller[c].node = n})

EventsPair == \A n \in Nodes : balance[n] = Owed(n)

\* While a timed-out call may still be alive, the cooldown it applied to its
\* own target stands; no other call's late success lifts it.
ZombieHoldsCooldown ==
  \A t \in DOMAIN task :
    task[t].phase \in {"timed_out", "zombie"} /\ task[t].until > 0 /\ TimeoutScope = "target"
      => cooldown[task[t].key] = task[t].until

\* The hub's own leaky bucket never overflows: over any stretch of time the
\* worker sends at most the burst capacity plus what that time refills.
PacingHonoured == RateLimited => load <= Capacity

\* No lost wakeup: when the worker is parked, either somebody is about to
\* notify it, or the budget is spent, or every queued key is blocked by a
\* dispatch in flight (whose end notifies).
NoLostWakeup ==
  wpc = "parked" /\ ~closed =>
    \/ \E c \in Callers : caller[c].pc \in {"queued", "notify"}
    \/ inFlightCount >= MaxInFlight
    \/ \A i \in DOMAIN order : Conflicts(order[i])

\* Once calls stop, every accepted command is eventually resolved: the
\* mailbox and the in-flight set drain and every queued event has had its
\* outcome.
Settles ==
  <>[](DOMAIN pending = {} /\ DOMAIN task = {} /\ \A n \in Nodes : balance[n] = 0)

-----------------------------------------------------------------------------
(* What the dispatcher promises.                                            *)

\* The mailbox without its order; the live calls; the keys that cool down.
Waiting == [k \in Keys |-> IF k \in DOMAIN pending THEN pending[k].cmd ELSE 0]
LiveCall(t) == [key |-> task[t].key, cmd |-> t]
Live == {LiveCall(t) : t \in DOMAIN task}
Cooling == {k \in Keys : ActiveCooldown(k) > 0}
Lamps == [k \in Keys |-> Elements(k)]

Mailbox == INSTANCE MailboxPromise WITH
  Limit <- MaxInFlight, queued <- Waiting, flying <- Live, done <- lamp,
  cool <- Cooling, accepted <- cmd, open <- ~closed

\* Queue, scan, pacing, supervision and close implement the promise: of each
\* key only the latest accepted command is sent, one at a time for each lamp
\* and in order; none is lost but to a later one, a cooldown or the close
\* (select_next, supervise_dispatch, finish_dispatch, close).
KeepsMailbox == Mailbox!Spec
=============================================================================
