------------------------- MODULE HubDispatchProofs --------------------------
(***************************************************************************)
(* The inductive invariant IInv of HubDispatch and what follows from it,   *)
(* for every set of callers and nodes, every routing and every policy.     *)
(*                                                                         *)
(* IInv joins the types, the agreement of FIFO and map, the exactness of   *)
(* the in-flight set, the budget (a selection that has begun has room for  *)
(* one more) and the order of commands: of one key, what the hub has       *)
(* carried out is older than what is in flight, and that is older than     *)
(* what is queued.  The last part needs the exactness of the in-flight set *)
(* (a key is popped only when no live call, zombies included, shares an    *)
(* element with it), and that needs the rest.  The wakeup, cooldown and     *)
(* pacing invariants, the pairing of events and the refinement of          *)
(* MailboxPromise follow on top of it.                                     *)
(***************************************************************************)
EXTENDS HubDispatch, SeqLemmas, FiniteSetTheorems, FunctionTheorems

\* The pacing sleep is a natural number of ticks.
LEMMA DivNat ==
  ASSUME NEW a \in Nat, NEW b \in Nat \ {0} PROVE a \div b \in Nat
OBVIOUS

-----------------------------------------------------------------------------
(* Facts about targets, keys and units.                                     *)

\* Every key is a target with at least one element.
LEMMA KeyFacts ==
  ASSUME NEW k \in Keys
  PROVE  /\ k.kind \in {"group", "devices"}
         /\ k.ids \in Seq(STRING) /\ k.ids # <<>>
         /\ Cost(k) \in Nat
         /\ Elements(k) # {}
<1>0. PICK n \in Nodes : \E i \in DOMAIN Units(Route[n]) : k = Units(Route[n])[i]
  BY DEF Keys
<1>1. PICK i \in DOMAIN Units(Route[n]) : k = Units(Route[n])[i]
  BY <1>0
<1>2. /\ Route[n].kind \in {"group", "devices"}
      /\ Route[n].ids \in Seq(STRING) /\ Route[n].ids # <<>>
  BY RouteAssumption
<1>3. k.kind \in {"group", "devices"} /\ k.ids \in Seq(STRING) /\ k.ids # <<>>
  <2>1. CASE SplitDeviceTargets /\ Route[n].kind = "devices" /\ Len(Route[n].ids) > 1
    <3>1. i \in DOMAIN Route[n].ids /\ k = [kind |-> "devices", ids |-> <<Route[n].ids[i]>>]
      BY <1>1, <2>1 DEF Units
    <3>2. Route[n].ids[i] \in STRING
      BY <3>1, <1>2, ElementOfSeq, LenProperties
    <3>3. QED BY <3>1, <3>2
  <2>2. CASE ~(SplitDeviceTargets /\ Route[n].kind = "devices" /\ Len(Route[n].ids) > 1)
    <3>1. k = Route[n]
      BY <1>1, <2>2 DEF Units
    <3>2. QED BY <3>1, <1>2
  <2>3. QED BY <2>1, <2>2
<1>4. Len(k.ids) \in Nat /\ 1 \in DOMAIN k.ids
  BY <1>3, LenProperties, EmptySeq
<1>5. Cost(k) \in Nat
  BY <1>4, RateAssumption DEF Cost
<1>6. Elements(k) # {}
  BY <1>4 DEF Elements
<1>7. QED BY <1>3, <1>5, <1>6

\* The units of a routed target are a non-empty sequence of keys.
LEMMA UnitsFacts ==
  ASSUME NEW n \in Nodes
  PROVE  Units(Route[n]) \in Seq(Keys) /\ Units(Route[n]) # <<>>
<1> DEFINE u == Units(Route[n])
<1>1. Route[n].ids \in Seq(STRING) /\ Route[n].ids # <<>>
  BY RouteAssumption
<1>2. /\ Len(Route[n].ids) \in Nat /\ Len(Route[n].ids) # 0
      /\ DOMAIN Route[n].ids = 1..Len(Route[n].ids)
  BY <1>1, LenProperties, EmptySeq
<1>3. PICK m \in Nat : m # 0 /\ DOMAIN u = 1..m /\ u = [i \in 1..m |-> u[i]]
  <2>1. CASE SplitDeviceTargets /\ Route[n].kind = "devices" /\ Len(Route[n].ids) > 1
    BY <1>2, <2>1 DEF Units
  <2>2. CASE ~(SplitDeviceTargets /\ Route[n].kind = "devices" /\ Len(Route[n].ids) > 1)
    BY <2>2 DEF Units
  <2>3. QED BY <2>1, <2>2
<1>4. \A i \in 1..m : u[i] \in Keys
  <2>1. SUFFICES ASSUME NEW i \in 1..m PROVE u[i] \in Keys
    OBVIOUS
  <2>2. i \in DOMAIN Units(Route[n])
    BY <1>3
  <2>3. u[i] \in {Units(Route[n])[j] : j \in DOMAIN Units(Route[n])}
    BY <2>2
  <2>4. QED BY <2>3 DEF Keys
<1> HIDE DEF u
<1>5. u \in [1..m -> Keys]
  BY <1>3, <1>4
<1>6. u \in Seq(Keys)
  BY <1>5, SeqDef
<1>7. u # <<>>
  BY <1>3, <1>6, LenProperties, EmptySeq
<1>8. QED BY <1>6, <1>7 DEF u

-----------------------------------------------------------------------------
(* Type correctness.                                                        *)

USE DEF queueVars, workerVars, threadVars, ghostVars

\* The initial state is type-correct.
LEMMA TypeInit == Init => TypeOK
<1> SUFFICES ASSUME Init PROVE TypeOK
  OBVIOUS
<1>1. QueueType
  BY EmptySeq DEF Init, QueueType
<1>2. TimeType
  BY RateAssumption, PolicyAssumption DEF Init, TimeType
<1>3. WorkerType
  BY EmptySeq DEF Init, WorkerType, WorkerPcs
<1>4. TaskType
  BY DEF Init, TaskType
<1>5. CallerType
  BY DEF Init, CallerType, Caller, CallerPcs, Idle
<1>6. CloserType
  BY DEF Init, CloserType
<1>7. EventType
  BY DEF Init, EventType
<1>8. QED BY <1>1, <1>2, <1>3, <1>4, <1>5, <1>6, <1>7 DEF TypeOK

\* Goto keeps the callers typed.
LEMMA CallerTypeGoto ==
  ASSUME CallerType, NEW c \in Callers, caller[c].pc # "idle",
         NEW pc \in CallerPcs, NEW old \in Nodes \cup {NoNode}, Goto(c, pc, old),
         calls' = calls, cmd' \in Nat
  PROVE  CallerType'
BY DEF Goto, CallerType, Caller

\* NextUnit keeps the callers typed.
LEMMA CallerTypeNextUnit ==
  ASSUME CallerType, NEW c \in Callers, caller[c].pc # "idle", NextUnit(c),
         calls' = calls, cmd' = cmd
  PROVE  CallerType'
<1> DEFINE rest == [pc |-> "enqueue", node |-> caller[c].node,
                    todo |-> Tail(caller[c].todo), superseded |-> NoNode]
<1>1. caller[c].todo \in Seq(Keys) /\ caller[c].todo # <<>> /\ caller[c].node \in Nodes
  BY DEF CallerType, Caller
<1>2. Idle \in Caller
  BY DEF Idle, Caller, CallerPcs
<1>3. Len(caller[c].todo) > 1 => rest \in Caller /\ rest.todo # <<>>
  <2>0. SUFFICES ASSUME Len(caller[c].todo) > 1
                 PROVE  rest \in Caller /\ rest.todo # <<>>
    OBVIOUS
  <2>1. Tail(caller[c].todo) \in Seq(Keys) /\ Tail(caller[c].todo) # <<>>
    BY <1>1, <2>0, LongTail
  <2>2. QED BY <1>1, <2>1 DEF Caller, CallerPcs
<1>4. caller' = [caller EXCEPT ![c] = IF Len(caller[c].todo) > 1 THEN rest ELSE Idle]
  BY DEF NextUnit
<1> HIDE DEF rest
<1>5. caller' \in [Callers -> Caller]
  BY <1>2, <1>3, <1>4 DEF CallerType
<1>6. ASSUME NEW d \in Callers, caller'[d].pc # "idle"
      PROVE  caller'[d].node \in Nodes /\ caller'[d].todo # <<>>
  BY <1>1, <1>3, <1>4, <1>6 DEF CallerType, Idle, rest
<1>7. QED BY <1>5, <1>6 DEF CallerType

\* Call keeps the types.
LEMMA TypeCall ==
  ASSUME TypeOK, NEW c \in Callers, NEW n \in Nodes, Call(c, n)
  PROVE  TypeOK'
<1> USE DEF TypeOK
<1>1. CallerType'
  BY UnitsFacts DEF Call, CallerType, Caller, CallerPcs
<1>2. QueueType' /\ TimeType' /\ WorkerType' /\ TaskType' /\ CloserType' /\ EventType'
  BY DEF Call, QueueType, TimeType, WorkerType, TaskType, CloserType, EventType
<1>3. QED
  BY <1>1, <1>2

\* EnqueueClosed keeps the types.
LEMMA TypeEnqueueClosed ==
  ASSUME TypeOK, NEW c \in Callers, EnqueueClosed(c)
  PROVE  TypeOK'
<1> USE DEF TypeOK
<1>1. CallerType'
  BY CallerTypeNextUnit DEF EnqueueClosed
<1>2. QueueType' /\ TimeType' /\ WorkerType' /\ TaskType' /\ CloserType' /\ EventType'
  BY DEF EnqueueClosed, QueueType, TimeType, WorkerType, TaskType, CloserType, EventType
<1>3. QED
  BY <1>1, <1>2

\* EnqueueCooling keeps the types.
LEMMA TypeEnqueueCooling ==
  ASSUME TypeOK, NEW c \in Callers, EnqueueCooling(c)
  PROVE  TypeOK'
<1> USE DEF TypeOK
<1>1. CallerType'
  BY CallerTypeGoto DEF EnqueueCooling, CallerType, CallerPcs
<1>2. QueueType' /\ TimeType' /\ WorkerType' /\ TaskType' /\ CloserType' /\ EventType'
  BY DEF EnqueueCooling, QueueType, TimeType, WorkerType, TaskType, CloserType, EventType
<1>3. QED
  BY <1>1, <1>2

\* EnqueueCoalesce keeps the types.
LEMMA TypeEnqueueCoalesce ==
  ASSUME TypeOK, NEW c \in Callers, EnqueueCoalesce(c)
  PROVE  TypeOK'
<1> USE DEF TypeOK
<1>1. QueueType'
  BY DEF EnqueueCoalesce, QueueType, CallerType, Job
<1>2. CallerType'
  BY CallerTypeGoto DEF EnqueueCoalesce, CoalesceEvent, QueueType, CallerType, CallerPcs, Job
<1>3. TimeType' /\ WorkerType' /\ TaskType' /\ CloserType' /\ EventType'
  BY DEF EnqueueCoalesce, TimeType, WorkerType, TaskType, CloserType, EventType
<1>4. QED
  BY <1>1, <1>2, <1>3

\* EnqueueInsert keeps the types.
LEMMA TypeEnqueueInsert ==
  ASSUME TypeOK, NEW c \in Callers, EnqueueInsert(c)
  PROVE  TypeOK'
<1> USE DEF TypeOK
<1>1. QueueType'
  <2>1. caller[c].todo \in Seq(Keys) /\ caller[c].todo # <<>> /\ caller[c].node \in Nodes
    BY DEF EnqueueInsert, CallerType, Caller
  <2>2. Head(caller[c].todo) \in Keys
    BY <2>1, HeadTailProperties
  <2>3. QED
    BY <2>1, <2>2, AppendProperties DEF EnqueueInsert, QueueType, CallerType, Job, With
<1>2. CallerType'
  BY CallerTypeGoto DEF EnqueueInsert, CallerType, CallerPcs
<1>3. TimeType' /\ WorkerType' /\ TaskType' /\ CloserType' /\ EventType'
  BY DEF EnqueueInsert, TimeType, WorkerType, TaskType, CloserType, EventType
<1>4. QED
  BY <1>1, <1>2, <1>3

\* EmitQueued keeps the types.
LEMMA TypeEmitQueued ==
  ASSUME TypeOK, NEW c \in Callers, EmitQueued(c)
  PROVE  TypeOK'
<1> USE DEF TypeOK
<1>1. CallerType'
  BY CallerTypeGoto DEF EmitQueued, CallerType, CallerPcs
<1>2. EventType'
  BY DEF EmitQueued, Queued, EventType
<1>3. QueueType' /\ TimeType' /\ WorkerType' /\ TaskType' /\ CloserType'
  BY DEF EmitQueued, QueueType, TimeType, WorkerType, TaskType, CloserType
<1>4. QED
  BY <1>1, <1>2, <1>3

\* EnqueueNotify keeps the types.
LEMMA TypeEnqueueNotify ==
  ASSUME TypeOK, NEW c \in Callers, EnqueueNotify(c)
  PROVE  TypeOK'
<1> USE DEF TypeOK
<1>1. CallerType'
  BY CallerTypeNextUnit DEF EnqueueNotify
<1>2. WorkerType'
  BY DEF EnqueueNotify, Notify, WorkerType, WorkerPcs
<1>3. QueueType' /\ TimeType' /\ TaskType' /\ CloserType' /\ EventType'
  BY DEF EnqueueNotify, QueueType, TimeType, TaskType, CloserType, EventType
<1>4. QED
  BY <1>1, <1>2, <1>3

\* EmitSkipQueued keeps the types.
LEMMA TypeEmitSkipQueued ==
  ASSUME TypeOK, NEW c \in Callers, EmitSkipQueued(c)
  PROVE  TypeOK'
<1> USE DEF TypeOK
<1>1. CallerType'
  BY CallerTypeGoto DEF EmitSkipQueued, CallerType, CallerPcs
<1>2. EventType'
  BY DEF EmitSkipQueued, Queued, EventType
<1>3. QueueType' /\ TimeType' /\ WorkerType' /\ TaskType' /\ CloserType'
  BY DEF EmitSkipQueued, QueueType, TimeType, WorkerType, TaskType, CloserType
<1>4. QED
  BY <1>1, <1>2, <1>3

\* EmitSkipOutcome keeps the types.
LEMMA TypeEmitSkipOutcome ==
  ASSUME TypeOK, NEW c \in Callers, EmitSkipOutcome(c)
  PROVE  TypeOK'
<1> USE DEF TypeOK
<1>1. CallerType'
  BY CallerTypeNextUnit DEF EmitSkipOutcome
<1>2. EventType'
  BY DEF EmitSkipOutcome, Outcome, EventType, CallerType
<1>3. QueueType' /\ TimeType' /\ WorkerType' /\ TaskType' /\ CloserType'
  BY DEF EmitSkipOutcome, QueueType, TimeType, WorkerType, TaskType, CloserType
<1>4. QED
  BY <1>1, <1>2, <1>3

\* SelectBegin keeps the types.
LEMMA TypeSelectBegin ==
  ASSUME TypeOK, SelectBegin
  PROVE  TypeOK'
<1> USE DEF TypeOK
<1>1. TimeType'
  <2>1. Refilled \in 0..Capacity
    BY RateAssumption DEF TimeType, Refilled
  <2>2. QED
    BY <2>1 DEF SelectBegin, RefillTokens, TimeType
<1>2. WorkerType'
  BY DEF SelectBegin, WorkerType, WorkerPcs
<1>3. QueueType' /\ TaskType' /\ CallerType' /\ CloserType' /\ EventType'
  BY DEF SelectBegin, QueueType, TaskType, CallerType, CloserType, EventType
<1>4. QED
  BY <1>1, <1>2, <1>3

\* ScanDrop keeps the types.
LEMMA TypeScanDrop ==
  ASSUME TypeOK, MailboxConsistent, NEW i \in DOMAIN order, ScanDrop(i)
  PROVE  TypeOK'
<1> USE DEF TypeOK
<1>1. QueueType'
  BY RemoveAtFacts DEF ScanDrop, Pop, Without, QueueType
<1>2. WorkerType'
  <2>1. order[i] \in DOMAIN pending
    BY DEF MailboxConsistent
  <2>2. pending[order[i]].node \in Nodes
    BY <2>1 DEF QueueType, Job
  <2>3. QED
    BY <2>1, <2>2, AppendProperties DEF ScanDrop, WorkerType
<1>3. TimeType' /\ TaskType' /\ CallerType' /\ CloserType' /\ EventType'
  BY DEF ScanDrop, TimeType, TaskType, CallerType, CloserType, EventType
<1>4. QED
  BY <1>1, <1>2, <1>3

\* ScanSleep keeps the types.
LEMMA TypeScanSleep ==
  ASSUME TypeOK, NEW i \in DOMAIN order, ScanSleep(i)
  PROVE  TypeOK'
<1> USE DEF TypeOK
<1>1. TimeType'
  <2>1. order[i] \in Keys /\ Cost(order[i]) \in Nat
    BY KeyFacts, ElementOfSeq, LenProperties DEF QueueType
  <2>2. Cost(order[i]) - tokens + RefillPerTick - 1 \in Nat
    BY <2>1, RateAssumption DEF ScanSleep, TokensShort, TimeType
  <2>3. QED
    BY <2>1, <2>2, DivNat, RateAssumption DEF ScanSleep, TimeType
<1>2. WorkerType'
  BY DEF ScanSleep, WorkerType, WorkerPcs
<1>3. QueueType' /\ TaskType' /\ CallerType' /\ CloserType' /\ EventType'
  BY DEF ScanSleep, QueueType, TaskType, CallerType, CloserType, EventType
<1>4. QED
  BY <1>1, <1>2, <1>3

\* ScanDispatch keeps the types.
LEMMA TypeScanDispatch ==
  ASSUME TypeOK, MailboxConsistent, NEW i \in DOMAIN order, ScanDispatch(i)
  PROVE  TypeOK'
<1> USE DEF TypeOK
<1>1. QueueType'
  <2>1. order[i] \in Keys
    BY ElementOfSeq, LenProperties DEF QueueType
  <2>2. QED
    BY <2>1, RemoveAtFacts DEF ScanDispatch, Pop, Without, QueueType
<1>2. TimeType'
  <2>1. order[i] \in Keys /\ Cost(order[i]) \in Nat
    BY KeyFacts, ElementOfSeq, LenProperties DEF QueueType
  <2>2. tokens \in Nat /\ Capacity \in Nat /\ tokens <= Capacity
    BY <2>1, RateAssumption DEF TimeType
  <2>3. tokens' \in 0..Capacity /\ load' \in Nat
    BY <2>1, <2>2, PolicyAssumption DEF ScanDispatch, TokensShort, TimeType
  <2>4. QED
    BY <2>1, <2>2, <2>3 DEF ScanDispatch, TimeType
<1>3. TaskType'
  <2>1. order[i] \in Keys /\ order[i] \in DOMAIN pending
    BY ElementOfSeq, LenProperties DEF QueueType, MailboxConsistent
  <2>2. pending[order[i]].node \in Nodes /\ pending[order[i]].cmd \in Nat
    BY <2>1 DEF QueueType, Job
  <2>3. QED
    BY <2>1, <2>2, PolicyAssumption DEF ScanDispatch, With, TaskType, Task, Phases
<1>4. WorkerType'
  BY DEF ScanDispatch, WorkerType, WorkerPcs
<1>5. CallerType' /\ CloserType' /\ EventType'
  BY DEF ScanDispatch, CallerType, CloserType, EventType
<1>6. QED
  BY <1>1, <1>2, <1>3, <1>4, <1>5

\* ScanWait keeps the types.
LEMMA TypeScanWait ==
  ASSUME TypeOK, ScanWait
  PROVE  TypeOK'
<1> USE DEF TypeOK
<1>1. WorkerType'
  BY DEF ScanWait, WorkerType, WorkerPcs
<1>2. QueueType' /\ TimeType' /\ TaskType' /\ CallerType' /\ CloserType' /\ EventType'
  BY DEF ScanWait, QueueType, TimeType, TaskType, CallerType, CloserType, EventType
<1>3. QED
  BY <1>1, <1>2

\* EmitSkipped keeps the types.
LEMMA TypeEmitSkipped ==
  ASSUME TypeOK, EmitSkipped
  PROVE  TypeOK'
<1> USE DEF TypeOK
<1>1. WorkerType'
  BY HeadTailProperties DEF EmitSkipped, WorkerType
<1>2. EventType'
  BY HeadTailProperties DEF EmitSkipped, Outcome, EventType, WorkerType
<1>3. QueueType' /\ TimeType' /\ TaskType' /\ CallerType' /\ CloserType'
  BY DEF EmitSkipped, QueueType, TimeType, TaskType, CallerType, CloserType
<1>4. QED
  BY <1>1, <1>2, <1>3

\* Park keeps the types.
LEMMA TypePark ==
  ASSUME TypeOK, Park
  PROVE  TypeOK'
<1> USE DEF TypeOK
<1>1. WorkerType'
  BY DEF Park, WorkerType, WorkerPcs
<1>2. QueueType' /\ TimeType' /\ TaskType' /\ CallerType' /\ CloserType' /\ EventType'
  BY DEF Park, QueueType, TimeType, TaskType, CallerType, CloserType, EventType
<1>3. QED
  BY <1>1, <1>2

\* WakeUp keeps the types.
LEMMA TypeWakeUp ==
  ASSUME TypeOK, WakeUp
  PROVE  TypeOK'
<1> USE DEF TypeOK
<1>1. WorkerType'
  BY DEF WakeUp, WorkerType, WorkerPcs
<1>2. QueueType' /\ TimeType' /\ TaskType' /\ CallerType' /\ CloserType' /\ EventType'
  BY DEF WakeUp, QueueType, TimeType, TaskType, CallerType, CloserType, EventType
<1>3. QED
  BY <1>1, <1>2

\* Spawn keeps the types.
LEMMA TypeSpawn ==
  ASSUME TypeOK, Spawn
  PROVE  TypeOK'
<1> USE DEF TypeOK
<1>1. WorkerType'
  BY DEF Spawn, WorkerType, WorkerPcs
<1>2. TaskType'
  <2>1. DOMAIN task' = DOMAIN task /\ DOMAIN task \subseteq Nat
    BY DEF Spawn, TaskType
  <2>2. ASSUME NEW t \in DOMAIN task
        PROVE  task'[t] \in Task
    <3>1. task[t] \in Task
      BY DEF TaskType
    <3>2. task'[t] = [task[t] EXCEPT !.phase = "running"] \/ task'[t] = task[t]
      BY DEF Spawn
    <3>3. QED BY <3>1, <3>2 DEF Task, Phases
  <2>3. task' \in [DOMAIN task -> Task]
    BY <2>2 DEF Spawn
  <2>4. QED BY <2>1, <2>3 DEF TaskType
<1>3. QueueType' /\ TimeType' /\ CallerType' /\ CloserType' /\ EventType'
  BY DEF Spawn, QueueType, TimeType, CallerType, CloserType, EventType
<1>4. QED
  BY <1>1, <1>2, <1>3

\* Return keeps the types.
LEMMA TypeReturn ==
  ASSUME TypeOK, NEW t \in DOMAIN task, NEW ok \in BOOLEAN, Return(t, ok)
  PROVE  TypeOK'
<1> USE DEF TypeOK
<1>1. TaskType'
  BY DEF Return, Phase, TaskType, Task, Phases
<1>2. EventType'
  BY DEF Return, Carry, EventType, TaskType, Task
<1>3. QueueType' /\ TimeType' /\ WorkerType' /\ CallerType' /\ CloserType'
  BY DEF Return, QueueType, TimeType, WorkerType, CallerType, CloserType
<1>4. QED
  BY <1>1, <1>2, <1>3

\* EmitReturned keeps the types.
LEMMA TypeEmitReturned ==
  ASSUME TypeOK, NEW t \in DOMAIN task, EmitReturned(t)
  PROVE  TypeOK'
<1> USE DEF TypeOK
<1>1. TaskType'
  BY DEF EmitReturned, Phase, TaskType, Task, Phases
<1>2. EventType'
  BY DEF EmitReturned, Outcome, EventType, TaskType, Task
<1>3. QueueType' /\ TimeType' /\ WorkerType' /\ CallerType' /\ CloserType'
  BY DEF EmitReturned, QueueType, TimeType, WorkerType, CallerType, CloserType
<1>4. QED
  BY <1>1, <1>2, <1>3

\* TimeOut keeps the types.
LEMMA TypeTimeOut ==
  ASSUME TypeOK, NEW t \in DOMAIN task, TimeOut(t)
  PROVE  TypeOK'
<1> USE DEF TypeOK
<1>1. TaskType'
  BY PolicyAssumption DEF TimeOut, TaskType, Task, Phases
<1>2. TimeType'
  BY PolicyAssumption DEF TimeOut, TimeType, TaskType, Task
<1>3. QueueType' /\ WorkerType' /\ CallerType' /\ CloserType' /\ EventType'
  BY DEF TimeOut, QueueType, WorkerType, CallerType, CloserType, EventType
<1>4. QED
  BY <1>1, <1>2, <1>3

\* EmitTimedOut keeps the types.
LEMMA TypeEmitTimedOut ==
  ASSUME TypeOK, NEW t \in DOMAIN task, EmitTimedOut(t)
  PROVE  TypeOK'
<1> USE DEF TypeOK
<1>1. TaskType'
  BY DEF EmitTimedOut, Phase, TaskType, Task, Phases
<1>2. EventType'
  BY DEF EmitTimedOut, Outcome, EventType, TaskType, Task
<1>3. QueueType' /\ TimeType' /\ WorkerType' /\ CallerType' /\ CloserType'
  BY DEF EmitTimedOut, QueueType, TimeType, WorkerType, CallerType, CloserType
<1>4. QED
  BY <1>1, <1>2, <1>3

\* LateSuccess keeps the types.
LEMMA TypeLateSuccess ==
  ASSUME TypeOK, NEW t \in DOMAIN task, LateSuccess(t)
  PROVE  TypeOK'
<1> USE DEF TypeOK
<1>1. TaskType'
  BY DEF LateSuccess, Phase, TaskType, Task, Phases
<1>2. TimeType'
  BY DEF LateSuccess, TimeType, TaskType, Task
<1>3. WorkerType'
  BY DEF LateSuccess, Notify, WorkerType, WorkerPcs
<1>4. EventType'
  BY DEF LateSuccess, Carry, EventType, TaskType, Task
<1>5. QueueType' /\ CallerType' /\ CloserType'
  BY DEF LateSuccess, QueueType, CallerType, CloserType
<1>6. QED
  BY <1>1, <1>2, <1>3, <1>4, <1>5

\* LateFailure keeps the types.
LEMMA TypeLateFailure ==
  ASSUME TypeOK, NEW t \in DOMAIN task, LateFailure(t)
  PROVE  TypeOK'
<1> USE DEF TypeOK
<1>1. TaskType'
  BY DEF LateFailure, Phase, TaskType, Task, Phases
<1>2. QueueType' /\ TimeType' /\ WorkerType' /\ CallerType' /\ CloserType' /\ EventType'
  BY DEF LateFailure, QueueType, TimeType, WorkerType, CallerType, CloserType, EventType
<1>3. QED
  BY <1>1, <1>2

\* FinishDispatch keeps the types.
LEMMA TypeFinishDispatch ==
  ASSUME TypeOK, NEW t \in DOMAIN task, FinishDispatch(t)
  PROVE  TypeOK'
<1> USE DEF TypeOK
<1>1. QueueType'
  BY DEF FinishDispatch, QueueType
<1>2. TaskType'
  BY DEF FinishDispatch, Without, TaskType
<1>3. WorkerType'
  BY DEF FinishDispatch, Notify, WorkerType, WorkerPcs
<1>4. TimeType' /\ CallerType' /\ CloserType' /\ EventType'
  BY DEF FinishDispatch, TimeType, CallerType, CloserType, EventType
<1>5. QED
  BY <1>1, <1>2, <1>3, <1>4

\* Close keeps the types.
LEMMA TypeClose ==
  ASSUME TypeOK, Close
  PROVE  TypeOK'
<1> USE DEF TypeOK
<1>1. QueueType'
  BY EmptySeq DEF Close, QueueType
<1>2. CloserType'
  BY DEF Close, CloserType, QueueType
<1>3. TimeType' /\ WorkerType' /\ TaskType' /\ CallerType' /\ EventType'
  BY DEF Close, TimeType, WorkerType, TaskType, CallerType, EventType
<1>4. QED
  BY <1>1, <1>2, <1>3

\* EmitDropped keeps the types.
LEMMA TypeEmitDropped ==
  ASSUME TypeOK, NEW k \in DOMAIN dropped, EmitDropped(k)
  PROVE  TypeOK'
<1> USE DEF TypeOK
<1>1. CloserType'
  BY DEF EmitDropped, Without, CloserType
<1>2. EventType'
  BY DEF EmitDropped, Outcome, EventType, CloserType, Job
<1>3. QueueType' /\ TimeType' /\ WorkerType' /\ TaskType' /\ CallerType'
  BY DEF EmitDropped, QueueType, TimeType, WorkerType, TaskType, CallerType
<1>4. QED
  BY <1>1, <1>2, <1>3

\* CloseNotify keeps the types.
LEMMA TypeCloseNotify ==
  ASSUME TypeOK, CloseNotify
  PROVE  TypeOK'
<1> USE DEF TypeOK
<1>1. CloserType'
  BY DEF CloseNotify, CloserType
<1>2. WorkerType'
  BY DEF CloseNotify, Notify, WorkerType, WorkerPcs
<1>3. QueueType' /\ TimeType' /\ TaskType' /\ CallerType' /\ EventType'
  BY DEF CloseNotify, QueueType, TimeType, TaskType, CallerType, EventType
<1>4. QED
  BY <1>1, <1>2, <1>3

\* Tick keeps the types.
LEMMA TypeTick ==
  ASSUME TypeOK, Tick
  PROVE  TypeOK'
<1> USE DEF TypeOK
<1>1. TimeType'
  <2>1. cooldown' \in [Keys -> Nat]
    BY DEF Tick, Dec, TimeType
  <2>2. hubCooldown' \in Nat /\ sleepLeft' \in Nat
    BY <2>1 DEF Tick, Dec, TimeType
  <2>3. sinceRefill' \in Nat
    BY <2>1, <2>2 DEF Tick, TimeType
  <2>4. load' \in Nat
    BY <2>1, <2>2, <2>3, RateAssumption DEF Tick, TimeType
  <2>5. QED
    BY <2>1, <2>2, <2>3, <2>4 DEF Tick, TimeType
<1>2. TaskType'
  BY DEF Tick, Aged, Dec, TaskType, Task
<1>3. QueueType' /\ WorkerType' /\ CallerType' /\ CloserType' /\ EventType'
  BY DEF Tick, QueueType, WorkerType, CallerType, CloserType, EventType
<1>4. QED
  BY <1>1, <1>2, <1>3

\* Every step keeps the types.
LEMMA TypeNext ==
  ASSUME TypeOK, MailboxConsistent, Next
  PROVE  TypeOK'
<1>1. ASSUME NEW c \in Callers, CallerStep(c) PROVE TypeOK'
  BY <1>1, TypeEnqueueClosed, TypeEnqueueCooling, TypeEnqueueCoalesce, TypeEnqueueInsert,
     TypeEmitQueued, TypeEnqueueNotify, TypeEmitSkipQueued, TypeEmitSkipOutcome
  DEF CallerStep
<1>2. ASSUME NEW c \in Callers, NEW n \in Nodes, Call(c, n) PROVE TypeOK'
  BY <1>2, TypeCall
<1>3. CASE WorkerStep
  BY <1>3, TypeSelectBegin, TypeScanDrop, TypeScanSleep, TypeScanDispatch, TypeScanWait,
     TypeEmitSkipped, TypePark, TypeWakeUp, TypeSpawn
  DEF WorkerStep
<1>4. ASSUME NEW t \in DOMAIN task, TaskStep(t) PROVE TypeOK'
  BY <1>4, TypeReturn, TypeEmitReturned, TypeTimeOut, TypeEmitTimedOut, TypeLateSuccess,
     TypeLateFailure, TypeFinishDispatch
  DEF TaskStep
<1>5. CASE Close
  BY <1>5, TypeClose
<1>6. CASE CloserStep
  BY <1>6, TypeEmitDropped, TypeCloseNotify DEF CloserStep
<1>7. CASE Tick
  BY <1>7, TypeTick
<1>8. QED
  BY <1>1, <1>2, <1>3, <1>4, <1>5, <1>6, <1>7 DEF Next

-----------------------------------------------------------------------------
(* The mailbox: order and pending describe the same set of keys.            *)

\* Taking one slot out keeps FIFO and map in agreement.
LEMMA PopMailbox ==
  ASSUME QueueType, MailboxConsistent, NEW i \in DOMAIN order, Pop(i)
  PROVE  MailboxConsistent'
<1>0. PICK n \in Nat : n = Len(order) /\ DOMAIN order = 1..n
  BY LenProperties DEF QueueType
<1>1. /\ order' \in Seq(Keys) /\ Len(order') = n - 1
      /\ \A j \in 1..(n - 1) : order'[j] = IF j < i THEN order[j] ELSE order[j + 1]
  BY <1>0, RemoveAtFacts DEF Pop, QueueType
<1>2. DOMAIN order' = 1..(n - 1)
  BY <1>1, LenProperties
<1>3. DOMAIN pending' = DOMAIN pending \ {order[i]}
  BY DEF Pop, Without
<1>4. ASSUME NEW j \in DOMAIN order', NEW l \in DOMAIN order', order'[j] = order'[l]
      PROVE  j = l
  <2> DEFINE up(x) == IF x < i THEN x ELSE x + 1
  <2>1. /\ up(j) \in DOMAIN order /\ up(l) \in DOMAIN order
        /\ order'[j] = order[up(j)] /\ order'[l] = order[up(l)]
    BY <1>0, <1>1, <1>2
  <2>2. up(j) = up(l)
    BY <1>4, <2>1 DEF MailboxConsistent
  <2>3. QED BY <1>0, <1>2, <2>2
<1>5. ASSUME NEW j \in DOMAIN order'
      PROVE  order'[j] \in DOMAIN pending'
  <2> DEFINE x == IF j < i THEN j ELSE j + 1
  <2>1. x \in DOMAIN order /\ x # i /\ order'[j] = order[x]
    BY <1>0, <1>1, <1>2
  <2>2. QED BY <1>3, <2>1 DEF MailboxConsistent
<1>6. ASSUME NEW k \in DOMAIN pending'
      PROVE  \E j \in DOMAIN order' : order'[j] = k
  <2>1. PICK x \in DOMAIN order : order[x] = k
    BY <1>3 DEF MailboxConsistent
  <2>2. x # i
    BY <1>3, <2>1
  <2>3. CASE x < i
    BY <1>0, <1>1, <1>2, <2>1, <2>3
  <2>4. CASE ~(x < i)
    <3>1. x - 1 \in DOMAIN order' /\ ~(x - 1 < i) /\ (x - 1) + 1 = x
      BY <1>0, <1>2, <2>1, <2>2, <2>4
    <3>2. order'[x - 1] = k
      BY <1>1, <1>2, <2>1, <3>1
    <3>3. QED BY <3>1, <3>2
  <2>5. QED BY <2>3, <2>4
<1>7. {order'[j] : j \in DOMAIN order'} = DOMAIN pending'
  BY <1>5, <1>6
<1>8. QED BY <1>4, <1>7 DEF MailboxConsistent

\* So does opening a new slot.
LEMMA MailboxInsert ==
  ASSUME QueueType, MailboxConsistent, NEW k \in Keys, k \notin DOMAIN pending, NEW v,
         order' = Append(order, k), pending' = With(pending, k, v)
  PROVE  MailboxConsistent'
<1>0. PICK n \in Nat : n = Len(order) /\ DOMAIN order = 1..n
  BY LenProperties DEF QueueType
<1>1. /\ order' \in Seq(Keys) /\ Len(order') = n + 1 /\ order'[n + 1] = k
      /\ \A j \in 1..n : order'[j] = order[j]
  BY <1>0, AppendProperties DEF QueueType
<1>2. DOMAIN order' = 1..(n + 1)
  BY <1>1, LenProperties
<1>3. DOMAIN pending' = DOMAIN pending \cup {k}
  BY DEF With
<1>4. \A j \in 1..n : order[j] # k
  BY <1>0 DEF MailboxConsistent
<1>5. ASSUME NEW j \in DOMAIN order', NEW l \in DOMAIN order', order'[j] = order'[l]
      PROVE  j = l
  <2>1. (j \in 1..n \/ j = n + 1) /\ (l \in 1..n \/ l = n + 1)
    BY <1>2
  <2>2. QED BY <1>0, <1>1, <1>4, <1>5, <2>1 DEF MailboxConsistent
<1>6. \A j \in DOMAIN order' : order'[j] \in DOMAIN pending'
  <2>1. \A j \in 1..n : order'[j] \in DOMAIN pending
    BY <1>0, <1>1 DEF MailboxConsistent
  <2>2. \A j \in DOMAIN order' : j \in 1..n \/ j = n + 1
    BY <1>2
  <2>3. QED BY <1>1, <1>3, <2>1, <2>2
<1>7. ASSUME NEW x \in DOMAIN pending'
      PROVE  \E j \in DOMAIN order' : order'[j] = x
  <2>1. CASE x = k
    BY <1>1, <1>2, <2>1
  <2>2. CASE x # k
    <3>1. PICK j \in 1..n : order[j] = x
      BY <1>0, <1>3, <2>2 DEF MailboxConsistent
    <3>2. QED BY <1>1, <1>2, <3>1
  <2>3. QED BY <2>1, <2>2
<1>8. {order'[j] : j \in DOMAIN order'} = DOMAIN pending'
  BY <1>6, <1>7
<1>9. QED BY <1>5, <1>8 DEF MailboxConsistent

\* Every step keeps FIFO and map in agreement.
LEMMA MailboxNext ==
  ASSUME TypeOK, MailboxConsistent, Next
  PROVE  MailboxConsistent'
<1> USE DEF TypeOK
<1>0. ASSUME UNCHANGED <<order, pending>> PROVE MailboxConsistent'
  BY <1>0 DEF MailboxConsistent
<1>1. ASSUME NEW c \in Callers, CallerStep(c) PROVE MailboxConsistent'
  <2>1. CASE EnqueueCoalesce(c)
    BY <2>1 DEF EnqueueCoalesce, MailboxConsistent, QueueType
  <2>2. CASE EnqueueInsert(c)
    <3>1. caller[c].todo \in Seq(Keys) /\ caller[c].todo # <<>>
      BY <2>2 DEF EnqueueInsert, CallerType, Caller
    <3>2. Head(caller[c].todo) \in Keys
      BY <3>1, HeadTailProperties
    <3>3. QED BY <2>2, <3>2, MailboxInsert DEF EnqueueInsert
  <2>3. CASE ~EnqueueCoalesce(c) /\ ~EnqueueInsert(c)
    BY <1>0, <1>1, <2>3 DEF CallerStep, EnqueueClosed, EnqueueCooling, EmitQueued,
       EnqueueNotify, EmitSkipQueued, EmitSkipOutcome
  <2>4. QED BY <2>1, <2>2, <2>3
<1>2. ASSUME NEW c \in Callers, NEW n \in Nodes, Call(c, n) PROVE MailboxConsistent'
  BY <1>0, <1>2 DEF Call
<1>3. CASE WorkerStep
  <2>1. ASSUME NEW i \in DOMAIN order, ScanDrop(i) \/ ScanDispatch(i)
        PROVE  MailboxConsistent'
    BY <2>1, PopMailbox DEF ScanDrop, ScanDispatch
  <2>2. ASSUME NEW i \in DOMAIN order, ScanSleep(i) PROVE MailboxConsistent'
    BY <1>0, <2>2 DEF ScanSleep
  <2>3. CASE SelectBegin \/ ScanWait \/ EmitSkipped \/ Park \/ WakeUp \/ Spawn
    BY <1>0, <2>3 DEF SelectBegin, ScanWait, EmitSkipped, Park, WakeUp, Spawn
  <2>4. QED BY <1>3, <2>1, <2>2, <2>3 DEF WorkerStep
<1>4. ASSUME NEW t \in DOMAIN task, TaskStep(t) PROVE MailboxConsistent'
  BY <1>0, <1>4 DEF TaskStep, Return, EmitReturned, TimeOut, EmitTimedOut, LateSuccess,
     LateFailure, FinishDispatch
<1>5. CASE Close
  <2>1. CASE closed
    BY <1>0, <1>5, <2>1 DEF Close
  <2>2. CASE ~closed
    BY <1>5, <2>2 DEF Close, MailboxConsistent
  <2>3. QED BY <2>1, <2>2
<1>6. CASE CloserStep
  BY <1>0, <1>6 DEF CloserStep, EmitDropped, CloseNotify
<1>7. CASE Tick
  BY <1>0, <1>7 DEF Tick
<1>8. QED
  BY <1>1, <1>2, <1>3, <1>4, <1>5, <1>6, <1>7 DEF Next

-----------------------------------------------------------------------------
(***************************************************************************)
(* The inductive invariant.  InFlightExact is not inductive as it stands:  *)
(* it needs to know that the worker only scans with budget to spare        *)
(* (Budget) and that the command it pops is not the id of a live task      *)
(* (CmdOrder, which orders the commands of a key: carried out < in flight  *)
(* < queued).                                                              *)
(***************************************************************************)

Budget == wpc = "scan" => inFlightCount < MaxInFlight

TasksFinite == IsFiniteSet(DOMAIN task)

CmdOrder ==
  /\ \A k \in Keys : lamp[k] <= cmd
  /\ \A k \in DOMAIN pending : lamp[k] < pending[k].cmd /\ pending[k].cmd <= cmd
  /\ \A k, l \in DOMAIN pending : pending[k].cmd = pending[l].cmd => k = l
  /\ \A t \in DOMAIN task : lamp[task[t].key] <= t /\ t <= cmd
  /\ \A k \in DOMAIN pending, t \in DOMAIN task :
       pending[k].cmd # t /\ (task[t].key = k => t < pending[k].cmd)

IInv ==
  /\ TypeOK /\ MailboxConsistent
  /\ InFlightExact /\ Budget /\ TasksFinite
  /\ CmdOrder

\* Most steps leave the in-flight books alone and keep every task's key.
SameTasks ==
  /\ inFlight' = inFlight /\ inFlightCount' = inFlightCount
  /\ DOMAIN task' = DOMAIN task
  /\ \A t \in DOMAIN task : task'[t].key = task[t].key

\* A step that leaves the tasks and their keys alone keeps the bookkeeping exact.
LEMMA SameTasksInFlight ==
  ASSUME InFlightExact, TasksFinite, SameTasks
  PROVE  InFlightExact' /\ TasksFinite'
<1>1. UNION {Elements(task'[t].key) : t \in DOMAIN task'}
        = UNION {Elements(task[t].key) : t \in DOMAIN task}
  BY DEF SameTasks
<1>2. \A t, u \in DOMAIN task' :
        t # u => Elements(task'[t].key) \cap Elements(task'[u].key) = {}
  BY DEF SameTasks, InFlightExact
<1>3. QED BY <1>1, <1>2 DEF SameTasks, InFlightExact, TasksFinite

\* Only a dispatch and its end change the set of tasks.
LEMMA SameTasksSteps ==
  ASSUME TypeOK, Next,
         ~\E i \in DOMAIN order : ScanDispatch(i),
         ~\E t \in DOMAIN task : FinishDispatch(t)
  PROVE  SameTasks
<1> USE DEF TypeOK, SameTasks
<1>0. ASSUME UNCHANGED <<inFlight, inFlightCount, task>> PROVE SameTasks
  BY <1>0
<1>1. ASSUME NEW c \in Callers, CallerStep(c) PROVE SameTasks
  BY <1>0, <1>1 DEF CallerStep, EnqueueClosed, EnqueueCooling, EnqueueCoalesce, EnqueueInsert,
     EmitQueued, EnqueueNotify, EmitSkipQueued, EmitSkipOutcome
<1>2. ASSUME NEW c \in Callers, NEW n \in Nodes, Call(c, n) PROVE SameTasks
  BY <1>0, <1>2 DEF Call
<1>3. CASE WorkerStep
  <2>1. ASSUME NEW i \in DOMAIN order, ScanDrop(i) \/ ScanSleep(i) PROVE SameTasks
    BY <1>0, <2>1 DEF ScanDrop, ScanSleep
  <2>2. CASE SelectBegin \/ ScanWait \/ EmitSkipped \/ Park \/ WakeUp
    BY <1>0, <2>2 DEF SelectBegin, ScanWait, EmitSkipped, Park, WakeUp
  <2>3. CASE Spawn
    BY <2>3 DEF Spawn, TaskType, Task
  <2>4. QED BY <1>3, <2>1, <2>2, <2>3 DEF WorkerStep
<1>4. ASSUME NEW t \in DOMAIN task, TaskStep(t) PROVE SameTasks
  <2>1. ASSUME NEW ok \in BOOLEAN, Return(t, ok) PROVE SameTasks
    BY <2>1 DEF Return, Phase, TaskType, Task
  <2>2. CASE EmitReturned(t) \/ EmitTimedOut(t) \/ LateFailure(t)
    BY <2>2 DEF EmitReturned, EmitTimedOut, LateFailure, Phase, TaskType, Task
  <2>3. CASE TimeOut(t)
    BY <2>3 DEF TimeOut, TaskType, Task
  <2>4. CASE LateSuccess(t)
    BY <2>4 DEF LateSuccess, Phase, TaskType, Task
  <2>5. QED BY <1>4, <2>1, <2>2, <2>3, <2>4 DEF TaskStep
<1>5. CASE Close
  BY <1>0, <1>5 DEF Close
<1>6. CASE CloserStep
  BY <1>0, <1>6 DEF CloserStep, EmitDropped, CloseNotify
<1>7. CASE Tick
  BY <1>7 DEF Tick, Aged
<1>8. QED
  BY <1>1, <1>2, <1>3, <1>4, <1>5, <1>6, <1>7 DEF Next

\* A dispatch starts only on elements nobody else holds.
LEMMA InFlightDispatch ==
  ASSUME IInv, NEW i \in DOMAIN order, ScanDispatch(i)
  PROVE  InFlightExact' /\ TasksFinite'
<1> DEFINE k == order[i]
           c == pending[order[i]].cmd
<1> USE DEF IInv, TypeOK
<1>1. k \in Keys /\ k \in DOMAIN pending
  BY ElementOfSeq, LenProperties DEF QueueType, MailboxConsistent
<1>2. c \notin DOMAIN task
  BY <1>1 DEF CmdOrder
<1>3. /\ DOMAIN task' = DOMAIN task \cup {c}
      /\ task'[c].key = k
      /\ \A t \in DOMAIN task : task'[t] = task[t]
  BY <1>2 DEF ScanDispatch, With
<1>4. Elements(k) \cap inFlight = {}
  BY DEF ScanDispatch, ScanStopsAt, Stops, Conflicts
<1>5. inFlight' = inFlight \cup Elements(k) /\ inFlightCount' = inFlightCount + 1
  BY DEF ScanDispatch
<1>6. /\ inFlight = UNION {Elements(task[t].key) : t \in DOMAIN task}
      /\ inFlightCount = Cardinality(DOMAIN task)
      /\ \A t, u \in DOMAIN task : t # u => Elements(task[t].key) \cap Elements(task[u].key) = {}
  BY DEF InFlightExact
<1> HIDE DEF k, c
<1>7. \A t \in DOMAIN task : Elements(task[t].key) \cap Elements(k) = {}
  BY <1>4, <1>6
<1>8. ASSUME NEW t \in DOMAIN task', NEW u \in DOMAIN task', t # u
      PROVE  Elements(task'[t].key) \cap Elements(task'[u].key) = {}
  BY <1>3, <1>6, <1>7, <1>8
<1>9. inFlight' = UNION {Elements(task'[t].key) : t \in DOMAIN task'}
  BY <1>3, <1>5, <1>6
<1>10. IsFiniteSet(DOMAIN task') /\ Cardinality(DOMAIN task') = inFlightCount + 1
  BY <1>2, <1>3, <1>6, FS_AddElement DEF TasksFinite
<1>11. inFlightCount' <= MaxInFlight
  BY <1>5, PolicyAssumption DEF ScanDispatch, Budget, QueueType
<1>12. QED BY <1>5, <1>8, <1>9, <1>10, <1>11 DEF InFlightExact, TasksFinite

\* The end of a dispatch gives back exactly its own elements.
LEMMA InFlightFinish ==
  ASSUME IInv, NEW t \in DOMAIN task, FinishDispatch(t)
  PROVE  InFlightExact' /\ TasksFinite'
<1> USE DEF IInv, TypeOK
<1>1. /\ DOMAIN task' = DOMAIN task \ {t}
      /\ \A u \in DOMAIN task' : task'[u] = task[u]
  BY DEF FinishDispatch, Without
<1>2. /\ inFlight' = inFlight \ Elements(task[t].key)
      /\ inFlightCount' = IF inFlightCount > 0 THEN inFlightCount - 1 ELSE 0
  BY DEF FinishDispatch
<1>3. /\ inFlight = UNION {Elements(task[u].key) : u \in DOMAIN task}
      /\ inFlightCount = Cardinality(DOMAIN task) /\ inFlightCount <= MaxInFlight
      /\ \A u, v \in DOMAIN task : u # v => Elements(task[u].key) \cap Elements(task[v].key) = {}
  BY DEF InFlightExact
<1>4. \A u, v \in DOMAIN task' : u # v => Elements(task'[u].key) \cap Elements(task'[v].key) = {}
  BY <1>1, <1>3
<1>5. inFlight' = UNION {Elements(task'[u].key) : u \in DOMAIN task'}
  BY <1>1, <1>2, <1>3
<1>6. /\ IsFiniteSet(DOMAIN task')
      /\ Cardinality(DOMAIN task') = inFlightCount - 1
      /\ Cardinality(DOMAIN task') \in Nat
  BY <1>1, <1>3, FS_RemoveElement, FS_CardinalityType DEF TasksFinite
<1>7. inFlightCount' = inFlightCount - 1 /\ inFlightCount' <= MaxInFlight
  BY <1>2, <1>3, <1>6, PolicyAssumption DEF QueueType
<1>8. QED BY <1>4, <1>5, <1>6, <1>7 DEF InFlightExact, TasksFinite

\* Every step keeps the in-flight bookkeeping exact.
LEMMA InFlightNext ==
  ASSUME IInv, Next
  PROVE  InFlightExact' /\ TasksFinite'
<1>1. ASSUME NEW i \in DOMAIN order, ScanDispatch(i) PROVE InFlightExact' /\ TasksFinite'
  BY <1>1, InFlightDispatch
<1>2. ASSUME NEW t \in DOMAIN task, FinishDispatch(t) PROVE InFlightExact' /\ TasksFinite'
  BY <1>2, InFlightFinish
<1>3. QED BY <1>1, <1>2, SameTasksSteps, SameTasksInFlight DEF IInv

\* Every step keeps the budget.
LEMMA BudgetNext ==
  ASSUME IInv, Next
  PROVE  Budget'
<1> USE DEF IInv, TypeOK, Budget
<1>1. CASE SelectBegin
  BY <1>1, PolicyAssumption DEF SelectBegin, QueueType
<1>2. ASSUME NEW i \in DOMAIN order, ScanDrop(i) PROVE Budget'
  BY <1>2 DEF ScanDrop
<1>3. ASSUME wpc' # "scan" PROVE Budget'
  BY <1>3
<1>4. ASSUME UNCHANGED <<wpc, inFlightCount>> PROVE Budget'
  BY <1>4
<1>5. ASSUME NEW c \in Callers, CallerStep(c) PROVE Budget'
  BY <1>4, <1>5 DEF CallerStep, EnqueueClosed, EnqueueCooling, EnqueueCoalesce, EnqueueInsert,
     EmitQueued, EnqueueNotify, Notify, EmitSkipQueued, EmitSkipOutcome
<1>6. ASSUME NEW c \in Callers, NEW n \in Nodes, Call(c, n) PROVE Budget'
  BY <1>4, <1>6 DEF Call
<1>7. CASE WorkerStep
  <2>1. ASSUME NEW i \in DOMAIN order, ScanSleep(i) \/ ScanDispatch(i) PROVE Budget'
    BY <1>3, <2>1 DEF ScanSleep, ScanDispatch
  <2>2. CASE ScanWait \/ Park \/ WakeUp \/ Spawn
    BY <1>3, <2>2 DEF ScanWait, Park, WakeUp, Spawn
  <2>3. CASE EmitSkipped
    BY <1>4, <2>3 DEF EmitSkipped
  <2>4. QED BY <1>1, <1>2, <1>7, <2>1, <2>2, <2>3 DEF WorkerStep
<1>8. ASSUME NEW t \in DOMAIN task, TaskStep(t) PROVE Budget'
  <2>1. CASE FinishDispatch(t)
    BY <1>3, <2>1 DEF FinishDispatch, Notify, LockFree
  <2>2. CASE LateSuccess(t)
    BY <1>3, <2>2 DEF LateSuccess, Notify, LockFree
  <2>3. CASE ~FinishDispatch(t) /\ ~LateSuccess(t)
    BY <1>4, <1>8, <2>3 DEF TaskStep, Return, EmitReturned, TimeOut, EmitTimedOut, LateFailure
  <2>4. QED BY <2>1, <2>2, <2>3
<1>9. CASE Close
  BY <1>4, <1>9 DEF Close
<1>10. CASE CloserStep
  BY <1>4, <1>10 DEF CloserStep, EmitDropped, CloseNotify, Notify
<1>11. CASE Tick
  BY <1>4, <1>11 DEF Tick
<1>12. QED
  BY <1>5, <1>6, <1>7, <1>8, <1>9, <1>10, <1>11 DEF Next

-----------------------------------------------------------------------------
(* The order of the commands of a key.                                      *)

\* Two live tasks have different keys, since every key has an element.
LEMMA KeysDiffer ==
  ASSUME IInv, NEW t \in DOMAIN task, NEW u \in DOMAIN task, t # u
  PROVE  task[t].key # task[u].key
<1>1. task[t].key \in Keys
  BY DEF IInv, TypeOK, TaskType, Task
<1>2. Elements(task[t].key) # {}
  BY <1>1, KeyFacts
<1>3. QED BY <1>2 DEF IInv, InFlightExact

\* Steps that touch neither the mailbox nor the lamps.
LEMMA CmdOrderSame ==
  ASSUME CmdOrder, SameTasks, UNCHANGED <<pending, cmd, lamp>>
  PROVE  CmdOrder'
BY DEF CmdOrder, SameTasks

\* An accepted command is newer than everything known of its key.
LEMMA CmdOrderAccept ==
  ASSUME IInv, NEW k \in Keys, NEW n \in Nodes, cmd' = cmd + 1,
         \/ /\ k \in DOMAIN pending
            /\ pending' = [pending EXCEPT ![k] = [node |-> n, cmd |-> cmd + 1]]
         \/ pending' = With(pending, k, [node |-> n, cmd |-> cmd + 1]),
         UNCHANGED <<task, lamp>>
  PROVE  CmdOrder'
<1> USE DEF IInv, TypeOK
<1>0. /\ cmd \in Nat /\ lamp \in [Keys -> Nat]
      /\ DOMAIN task \subseteq Nat
      /\ \A l \in DOMAIN pending : pending[l].cmd \in Nat
      /\ \A l \in DOMAIN pending : l \in Keys
      /\ \A t \in DOMAIN task : task[t].key \in Keys
  BY DEF CallerType, EventType, TaskType, Task, QueueType, Job
<1>1. /\ DOMAIN pending' = DOMAIN pending \cup {k}
      /\ pending'[k].cmd = cmd + 1
      /\ \A l \in DOMAIN pending : l # k => pending'[l] = pending[l]
  <2>1. CASE /\ k \in DOMAIN pending
             /\ pending' = [pending EXCEPT ![k] = [node |-> n, cmd |-> cmd + 1]]
    <3>1. pending \in [DOMAIN pending -> Job]
      BY DEF QueueType
    <3>2. QED BY <2>1, <3>1
  <2>2. CASE pending' = With(pending, k, [node |-> n, cmd |-> cmd + 1])
    BY <2>2 DEF With
  <2>3. QED BY <2>1, <2>2
<1>2. \A l \in Keys : lamp'[l] <= cmd'
  BY <1>0 DEF CmdOrder
<1>3. \A l \in DOMAIN pending' : lamp'[l] < pending'[l].cmd /\ pending'[l].cmd <= cmd'
  BY <1>0, <1>1 DEF CmdOrder
<1>4. \A l, m \in DOMAIN pending' : pending'[l].cmd = pending'[m].cmd => l = m
  BY <1>0, <1>1 DEF CmdOrder
<1>5. \A t \in DOMAIN task' : lamp'[task'[t].key] <= t /\ t <= cmd'
  BY <1>0 DEF CmdOrder
<1>6. \A l \in DOMAIN pending', t \in DOMAIN task' :
        pending'[l].cmd # t /\ (task'[t].key = l => t < pending'[l].cmd)
  BY <1>0, <1>1 DEF CmdOrder
<1>7. QED BY <1>2, <1>3, <1>4, <1>5, <1>6 DEF CmdOrder

\* Removing jobs or tasks keeps the order.
LEMMA CmdOrderShrink ==
  ASSUME CmdOrder, NEW k, pending' = Without(pending, k), SameTasks, UNCHANGED <<cmd, lamp>>
  PROVE  CmdOrder'
BY DEF CmdOrder, Without, SameTasks

\* A popped command is newer than what its key has seen, and no task of that key is alive.
LEMMA CmdOrderDispatch ==
  ASSUME IInv, NEW i \in DOMAIN order, ScanDispatch(i)
  PROVE  CmdOrder'
<1> DEFINE k == order[i]
           c == pending[order[i]].cmd
<1> USE DEF IInv, TypeOK
<1>1. k \in Keys /\ k \in DOMAIN pending
  BY ElementOfSeq, LenProperties DEF QueueType, MailboxConsistent
<1>2. c \in Nat /\ lamp \in [Keys -> Nat]
  BY <1>1 DEF QueueType, Job, EventType
<1>3. /\ DOMAIN task' = DOMAIN task \cup {c} /\ task'[c].key = k
      /\ \A t \in DOMAIN task : t # c => task'[t] = task[t]
  BY DEF ScanDispatch, With
<1>4. /\ DOMAIN pending' = DOMAIN pending \ {k}
      /\ \A l \in DOMAIN pending' : pending'[l] = pending[l]
      /\ UNCHANGED <<cmd, lamp>>
  BY DEF ScanDispatch, Pop, Without
<1>5. lamp[k] <= c /\ c <= cmd /\ c \notin DOMAIN task
  BY <1>1, <1>2 DEF CmdOrder
<1> HIDE DEF k, c
<1>6. \A l \in DOMAIN pending' : pending'[l].cmd # c
  BY <1>1, <1>4 DEF CmdOrder, k, c
<1>7. \A t \in DOMAIN task' : lamp'[task'[t].key] <= t /\ t <= cmd'
  BY <1>3, <1>4, <1>5 DEF CmdOrder
<1>8. \A l \in DOMAIN pending', t \in DOMAIN task' :
        pending'[l].cmd # t /\ (task'[t].key = l => t < pending'[l].cmd)
  BY <1>3, <1>4, <1>5, <1>6 DEF CmdOrder
<1>9. QED BY <1>4, <1>7, <1>8 DEF CmdOrder

\* The end of a dispatch keeps the order.
LEMMA CmdOrderFinish ==
  ASSUME IInv, NEW t \in DOMAIN task, FinishDispatch(t)
  PROVE  CmdOrder'
BY DEF IInv, FinishDispatch, Without, CmdOrder

\* A carried-out command is the oldest one alive of its key.
LEMMA CmdOrderCarry ==
  ASSUME IInv, NEW t \in DOMAIN task, NEW ok \in BOOLEAN, Carry(t, ok),
         SameTasks, UNCHANGED <<pending, cmd>>
  PROVE  CmdOrder' /\ \A k \in Keys : lamp'[k] >= lamp[k]
<1> DEFINE k == task[t].key
<1> USE DEF IInv, TypeOK
<1>1. k \in Keys /\ t \in Nat /\ lamp \in [Keys -> Nat] /\ cmd \in Nat
  BY DEF TaskType, Task, EventType, CallerType
<1>2. lamp[k] <= t /\ t <= cmd
  BY DEF CmdOrder
<1>3. \A u \in DOMAIN task : u # t => task[u].key # k
  BY KeysDiffer
<1>4. /\ DOMAIN task' = DOMAIN task
      /\ \A u \in DOMAIN task : task'[u].key = task[u].key /\ task[u].key \in Keys
  BY DEF SameTasks, TaskType, Task
<1>5. CASE ok
  <2>1. lamp' = [lamp EXCEPT ![k] = t]
    BY <1>5 DEF Carry
  <2> HIDE DEF k
  <2>2. \A l \in Keys : lamp'[l] = IF l = k THEN t ELSE lamp[l]
    BY <1>1, <2>1
  <2>3. \A l \in Keys : lamp'[l] >= lamp[l] /\ lamp'[l] <= cmd'
    BY <1>1, <1>2, <2>2 DEF CmdOrder
  <2>4. ASSUME NEW l \in DOMAIN pending
        PROVE  lamp'[l] < pending[l].cmd /\ pending[l].cmd <= cmd
    <3>1. l \in Keys /\ (l = k => t < pending[l].cmd)
      BY DEF CmdOrder, k, QueueType
    <3>2. QED BY <2>2, <3>1 DEF CmdOrder
  <2>5. \A u \in DOMAIN task : lamp'[task[u].key] <= u /\ u <= cmd
    BY <1>1, <1>3, <1>4, <2>2 DEF CmdOrder, TaskType
  <2>6. QED BY <1>4, <2>3, <2>4, <2>5 DEF CmdOrder
<1>6. CASE ~ok
  <2>1. lamp' = lamp
    BY <1>6 DEF Carry
  <2>2. QED BY <1>1, <2>1, CmdOrderSame
<1>7. QED BY <1>5, <1>6

\* Every step keeps the order of commands.
LEMMA CmdOrderNext ==
  ASSUME IInv, Next
  PROVE  CmdOrder' /\ \A k \in Keys : lamp'[k] >= lamp[k]
<1> DEFINE Goal == CmdOrder' /\ \A k \in Keys : lamp'[k] >= lamp[k]
<1> USE DEF IInv, TypeOK
<1>0. ASSUME UNCHANGED lamp, CmdOrder' PROVE Goal
  BY <1>0 DEF EventType
<1>a. ASSUME NEW i \in DOMAIN order, ScanDispatch(i) PROVE Goal
  BY <1>0, <1>a, CmdOrderDispatch DEF ScanDispatch
<1>b. ASSUME NEW t \in DOMAIN task, FinishDispatch(t) PROVE Goal
  BY <1>0, <1>b, CmdOrderFinish DEF FinishDispatch
<1>c. SUFFICES ASSUME ~\E i \in DOMAIN order : ScanDispatch(i),
                      ~\E t \in DOMAIN task : FinishDispatch(t)
               PROVE  Goal
  BY <1>a, <1>b
<1>d. SameTasks
  BY <1>c, SameTasksSteps
<1>e. ASSUME UNCHANGED <<pending, cmd, lamp>> PROVE Goal
  BY <1>0, <1>d, <1>e, CmdOrderSame
<1> HIDE DEF Goal
<1>1. ASSUME NEW c \in Callers, CallerStep(c) PROVE Goal
  <2>1. CASE EnqueueCoalesce(c) \/ EnqueueInsert(c)
    <3>1. /\ caller[c].todo \in Seq(Keys) /\ caller[c].todo # <<>> /\ caller[c].node \in Nodes
      BY <2>1 DEF EnqueueCoalesce, EnqueueInsert, CallerType, Caller
    <3>2. Head(caller[c].todo) \in Keys
      BY <3>1, HeadTailProperties
    <3>3. CmdOrder'
      BY <2>1, <3>1, <3>2, CmdOrderAccept DEF EnqueueCoalesce, EnqueueInsert
    <3>4. UNCHANGED lamp
      BY <2>1 DEF EnqueueCoalesce, EnqueueInsert
    <3>5. QED BY <1>0, <3>3, <3>4
  <2>2. CASE ~EnqueueCoalesce(c) /\ ~EnqueueInsert(c)
    BY <1>1, <1>e, <2>2 DEF CallerStep, EnqueueClosed, EnqueueCooling, EmitQueued,
       EnqueueNotify, EmitSkipQueued, EmitSkipOutcome
  <2>3. QED BY <2>1, <2>2
<1>2. ASSUME NEW c \in Callers, NEW n \in Nodes, Call(c, n) PROVE Goal
  BY <1>2, <1>e DEF Call
<1>3. CASE WorkerStep
  <2>1. ASSUME NEW i \in DOMAIN order, ScanDrop(i) PROVE Goal
    <3>1. pending' = Without(pending, order[i]) /\ UNCHANGED <<cmd, lamp>>
      BY <2>1 DEF ScanDrop, Pop
    <3>2. QED BY <1>0, <1>d, <3>1, CmdOrderShrink
  <2>2. ASSUME NEW i \in DOMAIN order, ScanSleep(i) PROVE Goal
    BY <1>e, <2>2 DEF ScanSleep
  <2>3. CASE SelectBegin \/ ScanWait \/ EmitSkipped \/ Park \/ WakeUp \/ Spawn
    BY <1>e, <2>3 DEF SelectBegin, ScanWait, EmitSkipped, Park, WakeUp, Spawn
  <2>4. QED BY <1>3, <1>c, <2>1, <2>2, <2>3 DEF WorkerStep
<1>4. ASSUME NEW t \in DOMAIN task, TaskStep(t) PROVE Goal
  <2>1. ASSUME NEW ok \in BOOLEAN, Return(t, ok) PROVE Goal
    BY <1>d, <2>1, CmdOrderCarry DEF Return, Goal
  <2>2. CASE LateSuccess(t)
    BY <1>d, <2>2, CmdOrderCarry DEF LateSuccess, Goal
  <2>3. CASE EmitReturned(t) \/ TimeOut(t) \/ EmitTimedOut(t) \/ LateFailure(t)
    BY <1>e, <2>3 DEF EmitReturned, TimeOut, EmitTimedOut, LateFailure
  <2>4. QED BY <1>4, <1>c, <2>1, <2>2, <2>3 DEF TaskStep
<1>5. CASE Close
  <2>1. CASE closed
    BY <1>e, <1>5, <2>1 DEF Close
  <2>2. CASE ~closed
    <3>1. DOMAIN pending' = {} /\ UNCHANGED <<cmd, lamp>>
      BY <1>5, <2>2 DEF Close
    <3>2. CmdOrder'
      BY <1>d, <3>1 DEF CmdOrder, SameTasks
    <3>3. QED BY <1>0, <3>1, <3>2
  <2>3. QED BY <2>1, <2>2
<1>6. CASE CloserStep
  BY <1>e, <1>6 DEF CloserStep, EmitDropped, CloseNotify
<1>7. CASE Tick
  BY <1>e, <1>7 DEF Tick
<1>8. QED
  BY <1>1, <1>2, <1>3, <1>4, <1>5, <1>6, <1>7 DEF Next, Goal

-----------------------------------------------------------------------------

\* IInv holds initially.
LEMMA IInvInit == Init => IInv
<1> SUFFICES ASSUME Init PROVE IInv
  OBVIOUS
<1>1. TypeOK
  BY TypeInit
<1>2. DOMAIN task = {} /\ DOMAIN pending = {} /\ DOMAIN order = {}
  BY DEF Init
<1>3. IsFiniteSet({}) /\ Cardinality({}) = 0
  BY FS_EmptySet
<1>4. QED
  BY <1>1, <1>2, <1>3, PolicyAssumption
  DEF Init, IInv, MailboxConsistent, InFlightExact, Budget, TasksFinite, CmdOrder

\* IInv is inductive.
LEMMA IInvNext == IInv /\ [Next]_vars => IInv'
<1> SUFFICES ASSUME IInv, [Next]_vars PROVE IInv'
  OBVIOUS
<1>1. CASE Next
  BY <1>1, TypeNext, MailboxNext, InFlightNext, BudgetNext, CmdOrderNext DEF IInv
<1>2. CASE UNCHANGED vars
  <2>1. TypeOK'
    BY <1>2 DEF vars, IInv, TypeOK, QueueType, TimeType, WorkerType, TaskType, CallerType,
       CloserType, EventType
  <2>2. (MailboxConsistent /\ InFlightExact /\ Budget)'
    BY <1>2 DEF vars, IInv, MailboxConsistent, InFlightExact, Budget
  <2>3. (TasksFinite /\ CmdOrder)'
    BY <1>2 DEF vars, IInv, TasksFinite, CmdOrder
  <2>4. QED BY <2>1, <2>2, <2>3 DEF IInv
<1>3. QED BY <1>1, <1>2

\* The inductive invariant holds in every reachable state of the dispatcher.
THEOREM Invariant == Spec => []IInv
BY IInvInit, IInvNext, PTL DEF Spec

\* Type correctness of the dispatcher, for every policy and every routing.
THEOREM TypeCorrect == Spec => []TypeOK
<1>1. IInv => TypeOK
  BY DEF IInv
<1>2. QED BY Invariant, <1>1, PTL

\* select_next never meets an ordered key without a job.
THEOREM MailboxSafe == Spec => []MailboxConsistent
<1>1. IInv => MailboxConsistent
  BY DEF IInv
<1>2. QED BY Invariant, <1>1, PTL

\* Per-target exclusion and the in-flight budget hold through timeouts and
\* late completions.
THEOREM Exclusion == Spec => []InFlightExact
<1>1. IInv => InFlightExact
  BY DEF IInv
<1>2. QED BY Invariant, <1>1, PTL

LampInOrder == [][\A k \in Keys : lamp'[k] >= lamp[k]]_vars

\* The hub never carries out an older command for a key after a newer one,
\* whatever timeouts, retries and late completions do.
THEOREM DeliveredInOrder == Spec => LampInOrder
<1>1. IInv /\ [Next]_vars => [\A k \in Keys : lamp'[k] >= lamp[k]]_vars
  BY CmdOrderNext
<1>2. QED BY Invariant, <1>1, PTL DEF Spec, LampInOrder

-----------------------------------------------------------------------------
(* No lost wakeup.  The invariant has to cover the worker from the moment   *)
(* it has decided to wait, not only once it is parked: until then a         *)
(* notification leaves a permit behind.                                     *)

Excused ==
  \/ \E c \in Callers : caller[c].pc \in {"queued", "notify"}
  \/ inFlightCount >= MaxInFlight
  \/ \A i \in DOMAIN order : Conflicts(order[i])

WakeInv ==
  /\ wpc = "parked" => ~permit
  /\ wpc \in {"wait", "parked"} /\ ~permit /\ ~closed => Excused

\* Steps that change nothing the worker waits for.
LEMMA WakeSame ==
  ASSUME WakeInv, UNCHANGED <<wpc, permit, closed, inFlight, inFlightCount, order>>,
         \A c \in Callers : caller[c].pc \in {"queued", "notify"} => caller'[c].pc \in {"queued", "notify"}
  PROVE  WakeInv'
BY DEF WakeInv, Excused, Conflicts

\* A notification wakes the worker or leaves a permit.
LEMMA WakeNotify ==
  ASSUME WakeInv, WorkerType, Notify
  PROVE  WakeInv'
BY DEF WakeInv, Notify, WorkerType, WorkerPcs

\* A worker that is neither deciding to wait nor parked needs no excuse.
LEMMA WakeElsewhere ==
  ASSUME wpc' \notin {"wait", "parked"}
  PROVE  WakeInv'
BY DEF WakeInv

\* A caller that has just changed the mailbox is about to notify.
LEMMA WakeEnqueue ==
  ASSUME TypeOK, WakeInv, NEW c \in Callers, EnqueueCoalesce(c) \/ EnqueueInsert(c)
  PROVE  WakeInv'
<1>1. caller'[c].pc \in {"queued", "notify"}
  BY DEF EnqueueCoalesce, EnqueueInsert, CoalesceEvent, Goto, TypeOK, CallerType
<1>2. UNCHANGED <<wpc, permit>>
  BY DEF EnqueueCoalesce, EnqueueInsert
<1>3. QED BY <1>1, <1>2 DEF WakeInv, Excused

\* WakeInv is inductive, relative to IInv.
LEMMA WakeNext ==
  ASSUME IInv, WakeInv, Next
  PROVE  WakeInv'
<1> USE DEF IInv, TypeOK
<1>1. ASSUME NEW c \in Callers, CallerStep(c) PROVE WakeInv'
  <2>1. CASE EnqueueCoalesce(c) \/ EnqueueInsert(c)
    BY <2>1, WakeEnqueue
  <2>2. CASE EnqueueNotify(c)
    BY <2>2, WakeNotify DEF EnqueueNotify
  <2>3. CASE EnqueueClosed(c) \/ EnqueueCooling(c)
    BY <2>3, WakeSame DEF EnqueueClosed, EnqueueCooling, NextUnit, Goto, CallerType
  <2>4. CASE EmitQueued(c)
    BY <2>4, WakeSame DEF EmitQueued, Goto, CallerType
  <2>5. CASE EmitSkipQueued(c) \/ EmitSkipOutcome(c)
    BY <2>5, WakeSame DEF EmitSkipQueued, EmitSkipOutcome, NextUnit, Goto, CallerType
  <2>6. QED BY <1>1, <2>1, <2>2, <2>3, <2>4, <2>5 DEF CallerStep
<1>2. ASSUME NEW c \in Callers, NEW n \in Nodes, Call(c, n) PROVE WakeInv'
  BY <1>2, WakeSame DEF Call, CallerType
<1>3. CASE WorkerStep
  <2>1. CASE SelectBegin
    BY <2>1 DEF SelectBegin, WakeInv, Excused
  <2>2. CASE ScanWait
    <3>1. \A i \in DOMAIN order : Conflicts(order[i])
      BY <2>2 DEF ScanWait, Stops
    <3>2. \A i \in DOMAIN order' : Conflicts(order[i])'
      BY <2>2, <3>1 DEF ScanWait, Conflicts
    <3>3. wpc' = "wait"
      BY <2>2 DEF ScanWait
    <3>4. QED BY <3>2, <3>3 DEF WakeInv, Excused
  <2>3. CASE EmitSkipped
    BY <2>3, WakeSame DEF EmitSkipped
  <2>4. CASE Park
    <3>1. CASE permit \/ wpc = "sleep"
      BY <2>4, <3>1, WakeElsewhere DEF Park
    <3>2. CASE ~permit /\ wpc = "wait"
      <4>1. wpc' = "parked" /\ ~permit' /\ UNCHANGED <<queueVars, caller>>
        BY <2>4, <3>2 DEF Park
      <4>2. ~closed => Excused
        BY <3>2 DEF WakeInv
      <4>3. ~closed' => Excused'
        BY <4>1, <4>2 DEF Excused, Conflicts
      <4>4. QED BY <4>1, <4>3 DEF WakeInv
    <3>3. QED BY <2>4, <3>1, <3>2 DEF Park
  <2>5. CASE WakeUp \/ Spawn
    BY <2>5, WakeElsewhere DEF WakeUp, Spawn
  <2>6. ASSUME NEW i \in DOMAIN order, ScanDrop(i) \/ ScanSleep(i) \/ ScanDispatch(i)
        PROVE  WakeInv'
    BY <2>6, WakeElsewhere DEF ScanDrop, ScanSleep, ScanDispatch
  <2>7. QED BY <1>3, <2>1, <2>2, <2>3, <2>4, <2>5, <2>6 DEF WorkerStep
<1>4. ASSUME NEW t \in DOMAIN task, TaskStep(t) PROVE WakeInv'
  <2>1. CASE LateSuccess(t) \/ FinishDispatch(t)
    BY <2>1, WakeNotify DEF LateSuccess, FinishDispatch
  <2>2. CASE ~LateSuccess(t) /\ ~FinishDispatch(t)
    BY <1>4, <2>2, WakeSame DEF TaskStep, Return, EmitReturned, TimeOut, EmitTimedOut, LateFailure
  <2>3. QED BY <2>1, <2>2
<1>5. CASE Close
  BY <1>5 DEF Close, WakeInv
<1>6. CASE CloserStep
  <2>1. CASE CloseNotify
    BY <2>1, WakeNotify DEF CloseNotify
  <2>2. ASSUME NEW k \in DOMAIN dropped, EmitDropped(k) PROVE WakeInv'
    BY <2>2, WakeSame DEF EmitDropped
  <2>3. QED BY <1>6, <2>1, <2>2 DEF CloserStep
<1>7. CASE Tick
  BY <1>7, WakeSame DEF Tick
<1>8. QED
  BY <1>1, <1>2, <1>3, <1>4, <1>5, <1>6, <1>7 DEF Next

\* The worker never sleeps through work it could do: enqueue, finish_dispatch
\* and clear_timeout_cooldown notify in every case that matters.
THEOREM WakesUp == Spec => []NoLostWakeup
<1>1. Init => WakeInv
  BY DEF Init, WakeInv
<1>2. IInv /\ WakeInv /\ [Next]_vars => WakeInv'
  <2> SUFFICES ASSUME IInv, WakeInv, [Next]_vars PROVE WakeInv'
    OBVIOUS
  <2>1. CASE Next
    BY <2>1, WakeNext
  <2>2. CASE UNCHANGED vars
    BY <2>2, WakeSame DEF vars
  <2>3. QED BY <2>1, <2>2
<1>3. WakeInv => NoLostWakeup
  BY DEF WakeInv, NoLostWakeup, Excused
<1>4. QED BY Invariant, <1>1, <1>2, <1>3, PTL DEF Spec

-----------------------------------------------------------------------------
(* A timed-out call's cooldown stands while the call may be alive.  Only    *)
(* TimeOut and LateSuccess write a cooldown other than by time passing, and *)
(* both write the one of their own key, which by exclusion no other task    *)
(* has.                                                                     *)

CoolSame ==
  /\ UNCHANGED cooldown
  /\ \A t \in DOMAIN task' :
       task'[t].phase \in {"timed_out", "zombie"} =>
         t \in DOMAIN task /\ task[t].phase \in {"timed_out", "zombie"}
         /\ task'[t].key = task[t].key /\ task'[t].until = task[t].until

\* Steps that keep cooldowns and timed-out calls.
LEMMA CoolSameStep ==
  ASSUME ZombieHoldsCooldown, CoolSame
  PROVE  ZombieHoldsCooldown'
BY DEF ZombieHoldsCooldown, CoolSame

\* A task's step touches only the cooldown of its own key, which no other live task shares.
LEMMA CoolTask ==
  ASSUME IInv, ZombieHoldsCooldown, NEW t \in DOMAIN task, TaskStep(t)
  PROVE  ZombieHoldsCooldown'
<1> USE DEF IInv, TypeOK
<1>0. \A u \in DOMAIN task : task[u].key \in Keys /\ (u # t => task[u].key # task[t].key)
  BY KeysDiffer DEF TaskType, Task
<1>1. ASSUME NEW ok \in BOOLEAN, Return(t, ok) PROVE ZombieHoldsCooldown'
  BY <1>1, CoolSameStep DEF CoolSame, Return, Phase, TaskType, Task
<1>2. CASE EmitReturned(t) \/ EmitTimedOut(t) \/ LateFailure(t)
  BY <1>2, CoolSameStep DEF CoolSame, EmitReturned, EmitTimedOut, LateFailure, Phase, TaskType, Task
<1>3. CASE TimeOut(t)
  <2>1. SUFFICES ASSUME TimeoutScope = "target", NEW u \in DOMAIN task',
                        task'[u].phase \in {"timed_out", "zombie"}, task'[u].until > 0
                 PROVE  cooldown'[task'[u].key] = task'[u].until
    BY DEF ZombieHoldsCooldown
  <2>2. cooldown' = [cooldown EXCEPT ![task[t].key] = TimeoutCooldown]
    BY <1>3, <2>1 DEF TimeOut
  <2>3. /\ DOMAIN task' = DOMAIN task
        /\ task'[t].key = task[t].key /\ task'[t].until = TimeoutCooldown
        /\ \A v \in DOMAIN task : v # t => task'[v] = task[v]
    BY <1>3 DEF TimeOut, TaskType, Task
  <2>4. CASE u = t
    BY <1>0, <2>2, <2>3, <2>4 DEF TimeType
  <2>5. CASE u # t
    BY <1>0, <2>1, <2>2, <2>3, <2>5 DEF TimeType, ZombieHoldsCooldown
  <2>6. QED BY <2>4, <2>5
<1>4. CASE LateSuccess(t)
  <2>1. SUFFICES ASSUME TimeoutScope = "target", NEW u \in DOMAIN task',
                        task'[u].phase \in {"timed_out", "zombie"}, task'[u].until > 0
                 PROVE  cooldown'[task'[u].key] = task'[u].until
    BY DEF ZombieHoldsCooldown
  <2>2. \A k \in Keys : k # task[t].key => cooldown'[k] = cooldown[k]
    BY <1>4, <2>1 DEF LateSuccess, TimeType
  <2>3. /\ DOMAIN task' = DOMAIN task
        /\ task'[t].phase = "finishing"
        /\ \A v \in DOMAIN task : v # t => task'[v] = task[v]
    BY <1>4 DEF LateSuccess, Phase, TaskType, Task
  <2>4. u # t /\ task'[u] = task[u]
    BY <2>1, <2>3
  <2>5. cooldown[task[u].key] = task[u].until
    BY <2>1, <2>3, <2>4 DEF ZombieHoldsCooldown
  <2>6. QED BY <1>0, <2>2, <2>3, <2>4, <2>5
<1>5. CASE FinishDispatch(t)
  BY <1>5, CoolSameStep DEF CoolSame, FinishDispatch, Without
<1>6. QED BY <1>1, <1>2, <1>3, <1>4, <1>5 DEF TaskStep

\* Time runs the same for a cooldown and for the call that applied it.
LEMMA CoolTick ==
  ASSUME IInv, ZombieHoldsCooldown, Tick
  PROVE  ZombieHoldsCooldown'
<1> USE DEF IInv, TypeOK
<1>1. SUFFICES ASSUME TimeoutScope = "target", NEW u \in DOMAIN task',
                      task'[u].phase \in {"timed_out", "zombie"}, task'[u].until > 0
               PROVE  cooldown'[task'[u].key] = task'[u].until
  BY DEF ZombieHoldsCooldown
<1>2. /\ u \in DOMAIN task /\ task'[u].phase = task[u].phase /\ task'[u].key = task[u].key
      /\ task'[u].until = Dec(task[u].until)
  BY DEF Tick, Aged
<1>3. task[u].until \in Nat /\ task[u].key \in Keys
  BY <1>2 DEF TaskType, Task
<1>4. task[u].until > 0
  BY <1>1, <1>2, <1>3 DEF Dec
<1>5. cooldown[task[u].key] = task[u].until
  BY <1>1, <1>2, <1>4 DEF ZombieHoldsCooldown
<1>6. cooldown'[task[u].key] = Dec(cooldown[task[u].key])
  BY <1>3 DEF Tick
<1>7. QED BY <1>2, <1>5, <1>6

\* ZombieHoldsCooldown is inductive, relative to IInv.
LEMMA CoolNext ==
  ASSUME IInv, ZombieHoldsCooldown, Next
  PROVE  ZombieHoldsCooldown'
<1> USE DEF IInv, TypeOK
<1>0. ASSUME UNCHANGED <<cooldown, task>> PROVE ZombieHoldsCooldown'
  BY <1>0 DEF ZombieHoldsCooldown
<1>1. ASSUME NEW c \in Callers, CallerStep(c) PROVE ZombieHoldsCooldown'
  BY <1>0, <1>1 DEF CallerStep, EnqueueClosed, EnqueueCooling, EnqueueCoalesce, EnqueueInsert,
     EmitQueued, EnqueueNotify, EmitSkipQueued, EmitSkipOutcome
<1>2. ASSUME NEW c \in Callers, NEW n \in Nodes, Call(c, n) PROVE ZombieHoldsCooldown'
  BY <1>0, <1>2 DEF Call
<1>3. CASE WorkerStep
  <2>1. ASSUME NEW i \in DOMAIN order, ScanDrop(i) \/ ScanSleep(i) PROVE ZombieHoldsCooldown'
    BY <1>0, <2>1 DEF ScanDrop, ScanSleep
  <2>2. ASSUME NEW i \in DOMAIN order, ScanDispatch(i) PROVE ZombieHoldsCooldown'
    BY <2>2, CoolSameStep DEF CoolSame, ScanDispatch, With
  <2>3. CASE SelectBegin \/ ScanWait \/ EmitSkipped \/ Park \/ WakeUp
    BY <1>0, <2>3 DEF SelectBegin, ScanWait, EmitSkipped, Park, WakeUp
  <2>4. CASE Spawn
    BY <2>4, CoolSameStep DEF CoolSame, Spawn, TaskType, Task
  <2>5. QED BY <1>3, <2>1, <2>2, <2>3, <2>4 DEF WorkerStep
<1>4. ASSUME NEW t \in DOMAIN task, TaskStep(t) PROVE ZombieHoldsCooldown'
  BY <1>4, CoolTask
<1>5. CASE Close
  BY <1>0, <1>5 DEF Close
<1>6. CASE CloserStep
  BY <1>0, <1>6 DEF CloserStep, EmitDropped, CloseNotify
<1>7. CASE Tick
  BY <1>7, CoolTick
<1>8. QED
  BY <1>1, <1>2, <1>3, <1>4, <1>5, <1>6, <1>7 DEF Next

\* With target scope, a hung call's own cooldown outlasts every other call's
\* late completion.
THEOREM CooldownStands == Spec => []ZombieHoldsCooldown
<1>1. Init => ZombieHoldsCooldown
  BY DEF Init, ZombieHoldsCooldown
<1>2. IInv /\ ZombieHoldsCooldown /\ [Next]_vars => ZombieHoldsCooldown'
  <2> SUFFICES ASSUME IInv, ZombieHoldsCooldown, [Next]_vars PROVE ZombieHoldsCooldown'
    OBVIOUS
  <2>1. CASE Next
    BY <2>1, CoolNext
  <2>2. CASE UNCHANGED vars
    BY <2>2 DEF vars, ZombieHoldsCooldown
  <2>3. QED BY <2>1, <2>2
<1>3. QED BY Invariant, <1>1, <1>2, PTL DEF Spec

-----------------------------------------------------------------------------
(* Pacing.  The tokens the bucket would hold after a refill and the load of *)
(* the hub's leaky bucket never exceed the capacity together.               *)

PaceInv ==
  RateLimited => /\ load + Refilled <= Capacity
                 /\ wpc = "scan" => sinceRefill = 0

\* The refilled bucket lies between its content and its capacity.
LEMMA RefilledFacts ==
  ASSUME TimeType
  PROVE  /\ Refilled \in Nat /\ Refilled <= Capacity
         /\ sinceRefill * RefillPerTick \in Nat
         /\ Refilled <= tokens + sinceRefill * RefillPerTick
         /\ Refilled < Capacity => Refilled = tokens + sinceRefill * RefillPerTick
<1>1. sinceRefill * RefillPerTick \in Nat /\ tokens \in Nat /\ Capacity \in Nat
  BY RateAssumption DEF TimeType
<1>2. QED BY <1>1 DEF Refilled

\* For the solver: products of naturals are naturals.
LEMMA ProductNat ==
  ASSUME NEW a \in Nat, NEW b \in Nat PROVE a * b \in Nat
OBVIOUS

\* A bucket of cost a beside r tokens: both limits move together.
LEMMA LeakStep ==
  ASSUME NEW a \in Nat, NEW d \in Nat, NEW r \in Nat, NEW r2 \in Nat, NEW cap \in Nat,
         a + r <= cap, r2 <= cap, r < cap => r2 <= r + d
  PROVE  (IF a > d THEN a - d ELSE 0) + r2 <= cap
<1>1. CASE a > d
  BY <1>1
<1>2. CASE ~(a > d)
  BY <1>2
<1>3. QED BY <1>1, <1>2

\* Tokens n beside accrual s, capped.
LEMMA CapFacts ==
  ASSUME NEW n \in Nat, NEW s \in Nat, NEW cap \in Nat, NEW r,
         r = IF n + s < cap THEN n + s ELSE cap
  PROVE  r \in Nat /\ r <= cap /\ r <= n + s /\ (r < cap => r = n + s)
OBVIOUS

\* One tick refills at most what the hub's bucket drains.
LEMMA PaceTick ==
  ASSUME TimeType, TimeType', PaceInv, Tick
  PROVE  PaceInv'
<1>1. SUFFICES ASSUME RateLimited PROVE PaceInv'
  BY DEF PaceInv
<1>2. wpc' # "scan"
  BY DEF Tick, LockFree
<1>3. /\ load \in Nat /\ RefillPerTick \in Nat /\ tokens \in Nat /\ Capacity \in Nat
      /\ sinceRefill \in Nat /\ sinceRefill' \in Nat /\ tokens' = tokens
  BY RateAssumption DEF Tick, TimeType
<1>4. PICK s \in Nat : s = sinceRefill * RefillPerTick
  BY <1>3, ProductNat
<1>5. PICK u \in Nat : u = sinceRefill' * RefillPerTick
  BY <1>3, ProductNat
<1>6. PICK r : r = Refilled
  OBVIOUS
<1>7. PICK r2 : r2 = Refilled'
  OBVIOUS
<1>8. r = IF tokens + s < Capacity THEN tokens + s ELSE Capacity
  BY <1>4, <1>6 DEF Refilled
<1>9. r2 = IF tokens + u < Capacity THEN tokens + u ELSE Capacity
  BY <1>3, <1>5, <1>7 DEF Refilled
<1>10. r \in Nat /\ r <= Capacity /\ r <= tokens + s /\ (r < Capacity => r = tokens + s)
  BY <1>3, <1>8, CapFacts
<1>11. r2 \in Nat /\ r2 <= Capacity /\ r2 <= tokens + u
  BY <1>3, <1>9, CapFacts
<1>12. r < Capacity => u = s + RefillPerTick
  <2>1. SUFFICES ASSUME r < Capacity PROVE u = s + RefillPerTick
    OBVIOUS
  <2>2. sinceRefill' = sinceRefill + 1
    BY <1>1, <1>6, <2>1 DEF Tick
  <2>3. QED BY <1>3, <1>4, <1>5, <2>2
<1>13. r < Capacity => r2 <= r + RefillPerTick
  BY <1>3, <1>10, <1>11, <1>12
<1>14. load + r <= Capacity
  BY <1>1, <1>6 DEF PaceInv
<1>15. (IF load > RefillPerTick THEN load - RefillPerTick ELSE 0) + r2 <= Capacity
  BY <1>3, <1>10, <1>11, <1>13, <1>14, LeakStep
<1>16. load' + Refilled' <= Capacity
  BY <1>7, <1>15 DEF Tick
<1>17. QED BY <1>2, <1>16 DEF PaceInv

\* The worker sends only what its tokens pay for.
LEMMA PaceWorker ==
  ASSUME IInv, TypeOK', PaceInv, WorkerStep
  PROVE  PaceInv'
<1> USE DEF IInv, TypeOK
<1>0. ASSUME UNCHANGED <<tokens, sinceRefill, load>>, wpc' # "scan" \/ wpc' = wpc
      PROVE  PaceInv'
  BY <1>0 DEF PaceInv, Refilled
<1>1. CASE SelectBegin
  <2>1. CASE RateLimited /\ wpc' = "scan"
    <3>1. tokens' = Refilled /\ sinceRefill' = 0 /\ load' = load
      BY <1>1, <2>1 DEF SelectBegin, RefillTokens
    <3>2. 0 * RefillPerTick = 0
      BY RateAssumption
    <3>3. Refilled \in Nat /\ Refilled <= Capacity
      BY RefilledFacts
    <3>4. Refilled' = Refilled
      BY <3>1, <3>2, <3>3, RateAssumption DEF Refilled
    <3>5. QED BY <2>1, <3>1, <3>4 DEF PaceInv
  <2>2. CASE ~(RateLimited /\ wpc' = "scan")
    BY <1>0, <1>1, <2>2 DEF SelectBegin, PaceInv
  <2>3. QED BY <2>1, <2>2
<1>2. ASSUME NEW i \in DOMAIN order, ScanDispatch(i) PROVE PaceInv'
  <2>1. SUFFICES ASSUME RateLimited PROVE PaceInv'
    BY DEF PaceInv
  <2>2. order[i] \in Keys /\ Cost(order[i]) \in Nat
    BY KeyFacts, ElementOfSeq, LenProperties DEF QueueType
  <2>3. /\ sinceRefill = 0 /\ sinceRefill' = 0 /\ wpc' # "scan"
        /\ tokens' = tokens - Cost(order[i]) /\ load' = load + Cost(order[i])
        /\ tokens >= Cost(order[i])
    BY <1>2, <2>1, <2>2 DEF ScanDispatch, TokensShort, PaceInv, TimeType
  <2>4. 0 * RefillPerTick = 0 /\ Capacity \in Nat /\ tokens \in Nat /\ tokens <= Capacity /\ load \in Nat
    BY RateAssumption DEF TimeType
  <2>5. Refilled = tokens /\ Refilled' = tokens'
    BY <2>2, <2>3, <2>4 DEF Refilled
  <2>6. load' + Refilled' <= Capacity
    BY <2>1, <2>2, <2>3, <2>4, <2>5 DEF PaceInv
  <2>7. QED BY <2>3, <2>6 DEF PaceInv
<1>3. ASSUME NEW i \in DOMAIN order, ScanDrop(i) \/ ScanSleep(i) PROVE PaceInv'
  BY <1>0, <1>3 DEF ScanDrop, ScanSleep
<1>4. CASE ScanWait \/ EmitSkipped \/ Park \/ WakeUp \/ Spawn
  BY <1>0, <1>4 DEF ScanWait, EmitSkipped, Park, WakeUp, Spawn
<1>5. QED BY <1>1, <1>2, <1>3, <1>4 DEF WorkerStep

\* PaceInv is inductive, relative to IInv.
LEMMA PaceNext ==
  ASSUME IInv, TypeOK', PaceInv, Next
  PROVE  PaceInv'
<1> USE DEF IInv, TypeOK
<1>0. ASSUME UNCHANGED <<tokens, sinceRefill, load>>, wpc' # "scan" \/ wpc' = wpc
      PROVE  PaceInv'
  BY <1>0 DEF PaceInv, Refilled
<1>1. ASSUME NEW c \in Callers, CallerStep(c) PROVE PaceInv'
  BY <1>0, <1>1 DEF CallerStep, EnqueueClosed, EnqueueCooling, EnqueueCoalesce, EnqueueInsert,
     EmitQueued, EnqueueNotify, Notify, EmitSkipQueued, EmitSkipOutcome
<1>2. ASSUME NEW c \in Callers, NEW n \in Nodes, Call(c, n) PROVE PaceInv'
  BY <1>0, <1>2 DEF Call
<1>3. CASE WorkerStep
  BY <1>3, PaceWorker
<1>4. ASSUME NEW t \in DOMAIN task, TaskStep(t) PROVE PaceInv'
  BY <1>0, <1>4 DEF TaskStep, Return, EmitReturned, TimeOut, EmitTimedOut, LateSuccess,
     LateFailure, FinishDispatch, Notify
<1>5. CASE Close
  BY <1>0, <1>5 DEF Close
<1>6. CASE CloserStep
  BY <1>0, <1>6 DEF CloserStep, EmitDropped, CloseNotify, Notify
<1>7. CASE Tick
  BY <1>7, PaceTick
<1>8. QED
  BY <1>1, <1>2, <1>3, <1>4, <1>5, <1>6, <1>7 DEF Next

\* Whatever the interleaving of sleeps, wakeups and refills, a rate-limited
\* hub never receives more than its burst capacity plus what time refills.
THEOREM Paced == Spec => []PacingHonoured
<1>1. Init => PaceInv
  BY RateAssumption DEF Init, PaceInv, Refilled
<1>2. IInv /\ IInv' /\ PaceInv /\ [Next]_vars => PaceInv'
  <2> SUFFICES ASSUME IInv, IInv', PaceInv, [Next]_vars PROVE PaceInv'
    OBVIOUS
  <2>1. CASE Next
    BY <2>1, PaceNext DEF IInv
  <2>2. CASE UNCHANGED vars
    BY <2>2 DEF vars, PaceInv, Refilled
  <2>3. QED BY <2>1, <2>2
<1>3. IInv /\ PaceInv => PacingHonoured
  <2> SUFFICES ASSUME IInv, PaceInv, RateLimited PROVE load <= Capacity
    BY DEF PacingHonoured
  <2>1. Refilled \in Nat /\ load \in Nat /\ Capacity \in Nat
    BY RefilledFacts, RateAssumption DEF IInv, TypeOK, TimeType
  <2>2. QED BY <2>1 DEF PaceInv
<1>4. QED BY Invariant, <1>1, <1>2, <1>3, PTL DEF Spec

-----------------------------------------------------------------------------
(***************************************************************************)
(* The pairing of events.  What is owed to a node is counted in seven      *)
(* places; every step changes each of these sets by one element at most,   *)
(* but for the close, which hands the whole mailbox over.                  *)
(***************************************************************************)

Mail(n) == {k \in DOMAIN pending : pending[k].node = n}
Flying(n) == {t \in DOMAIN task : task[t].node = n /\ task[t].phase \in Unreported}
Reports(n) == {i \in DOMAIN wout : wout[i] = n}
Drained(n) == {k \in DOMAIN dropped : dropped[k].node = n}

Skips(r, n) == r.pc = "skip_outcome" /\ r.node = n
Displaces(r, n) == r.pc = "queued" /\ r.superseded = n
Announces(r, n) == r.pc = "queued" /\ r.node = n

Skipping(n) == {c \in Callers : Skips(caller[c], n)}
Displacing(n) == {c \in Callers : Displaces(caller[c], n)}
Announcing(n) == {c \in Callers : Announces(caller[c], n)}

Books(n) ==
  /\ IsFiniteSet(Mail(n)) /\ IsFiniteSet(Flying(n)) /\ IsFiniteSet(Reports(n)) /\ IsFiniteSet(Drained(n))
  /\ IsFiniteSet(Skipping(n)) /\ IsFiniteSet(Displacing(n)) /\ IsFiniteSet(Announcing(n))
  /\ balance[n] = Owed(n)

PairInv ==
  /\ \A n \in Nodes : Books(n)
  /\ cpc = "idle" => DOMAIN dropped = {}

Bit(b) == IF b THEN 1 ELSE 0

\* The finite set T has d elements more than the finite set S.
Grows(S, T, d) ==
  /\ IsFiniteSet(T) /\ Cardinality(T) \in Nat /\ Cardinality(S) \in Nat
  /\ d \in Int /\ Cardinality(T) = Cardinality(S) + d

LEMMA BitFacts ==
  ASSUME NEW b PROVE Bit(b) \in {0, 1} /\ (b => Bit(b) = 1) /\ (~b => Bit(b) = 0)
BY DEF Bit

LEMMA GrowsSame ==
  ASSUME NEW S, NEW T, IsFiniteSet(S), T = S PROVE Grows(S, T, 0)
<1>1. Cardinality(S) \in Nat
  BY FS_CardinalityType
<1>2. QED BY <1>1 DEF Grows

\* Sets that differ in one element at most.
LEMMA GrowsOne ==
  ASSUME NEW S, NEW T, NEW x, IsFiniteSet(S), \A y : y # x => (y \in T <=> y \in S)
  PROVE  Grows(S, T, Bit(x \in T) - Bit(x \in S))
<1>1. PICK U : U = S \ {x} /\ U = T \ {x}
  OBVIOUS
<1>2. IsFiniteSet(U) /\ x \notin U
  BY <1>1, FS_RemoveElement
<1>3. PICK m \in Nat : m = Cardinality(U)
  BY <1>2, FS_CardinalityType
<1>4. IsFiniteSet(U \cup {x}) /\ Cardinality(U \cup {x}) = m + 1
  BY <1>2, <1>3, FS_AddElement
<1>5. (x \in S => S = U \cup {x}) /\ (x \notin S => S = U) /\ (x \in T => T = U \cup {x}) /\ (x \notin T => T = U)
  BY <1>1
<1>6. Cardinality(S) = m + Bit(x \in S) /\ IsFiniteSet(S)
  <2>1. CASE x \in S
    <3>1. S = U \cup {x} /\ Bit(x \in S) = 1
      BY <1>5, <2>1, BitFacts
    <3>2. QED BY <1>4, <3>1
  <2>2. CASE x \notin S
    <3>1. S = U /\ Bit(x \in S) = 0
      BY <1>5, <2>2 DEF Bit
    <3>2. Cardinality(U) = m + 0
      BY <1>3
    <3>3. QED BY <1>2, <3>1, <3>2
  <2>3. QED BY <2>1, <2>2
<1>7. Cardinality(T) = m + Bit(x \in T) /\ IsFiniteSet(T)
  <2>1. CASE x \in T
    <3>1. T = U \cup {x} /\ Bit(x \in T) = 1
      BY <1>5, <2>1, BitFacts
    <3>2. QED BY <1>4, <3>1
  <2>2. CASE x \notin T
    <3>1. T = U /\ Bit(x \in T) = 0
      BY <1>5, <2>2 DEF Bit
    <3>2. Cardinality(U) = m + 0
      BY <1>3
    <3>3. QED BY <1>2, <3>1, <3>2
  <2>3. QED BY <2>1, <2>2
<1>8. PICK a \in {0, 1}, b \in {0, 1} : a = Bit(x \in S) /\ b = Bit(x \in T)
  BY BitFacts
<1>9. QED BY <1>3, <1>6, <1>7, <1>8 DEF Grows

\* What has gone out is what is less owed.
LEMMA BooksNext ==
  ASSUME NEW n, Books(n), balance[n] \in Int,
         NEW a, NEW b, NEW c, NEW d, NEW e, NEW f, NEW g,
         Grows(Mail(n), Mail(n)', a), Grows(Flying(n), Flying(n)', b),
         Grows(Reports(n), Reports(n)', c), Grows(Drained(n), Drained(n)', d),
         Grows(Skipping(n), Skipping(n)', e), Grows(Displacing(n), Displacing(n)', f),
         Grows(Announcing(n), Announcing(n)', g),
         balance'[n] = balance[n] + (a + b + c + d + e + f - g)
  PROVE  Books(n)'
<1>1. Owed(n) = Cardinality(Mail(n)) + Cardinality(Flying(n)) + Cardinality(Reports(n)) + Cardinality(Drained(n))
                  + Cardinality(Skipping(n)) + Cardinality(Displacing(n)) - Cardinality(Announcing(n))
  BY DEF Owed, Mail, Flying, Reports, Drained, Skipping, Displacing, Announcing, Skips, Displaces, Announces
<1>2. Owed(n)' = Cardinality(Mail(n)') + Cardinality(Flying(n)') + Cardinality(Reports(n)') + Cardinality(Drained(n)')
                  + Cardinality(Skipping(n)') + Cardinality(Displacing(n)') - Cardinality(Announcing(n)')
  BY DEF Owed, Mail, Flying, Reports, Drained, Skipping, Displacing, Announcing, Skips, Displaces, Announces
<1>3. balance[n] = Owed(n)
  BY DEF Books
<1>4. balance'[n] = Owed(n)'
  <2>1. PICK p1, q1 : p1 = Cardinality(Mail(n)) /\ q1 = Cardinality(Mail(n)') /\ p1 \in Nat /\ q1 \in Nat /\ q1 = p1 + a /\ a \in Int
    BY DEF Grows
  <2>2. PICK p2, q2 : p2 = Cardinality(Flying(n)) /\ q2 = Cardinality(Flying(n)') /\ p2 \in Nat /\ q2 \in Nat /\ q2 = p2 + b /\ b \in Int
    BY DEF Grows
  <2>3. PICK p3, q3 : p3 = Cardinality(Reports(n)) /\ q3 = Cardinality(Reports(n)') /\ p3 \in Nat /\ q3 \in Nat /\ q3 = p3 + c /\ c \in Int
    BY DEF Grows
  <2>4. PICK p4, q4 : p4 = Cardinality(Drained(n)) /\ q4 = Cardinality(Drained(n)') /\ p4 \in Nat /\ q4 \in Nat /\ q4 = p4 + d /\ d \in Int
    BY DEF Grows
  <2>5. PICK p5, q5 : p5 = Cardinality(Skipping(n)) /\ q5 = Cardinality(Skipping(n)') /\ p5 \in Nat /\ q5 \in Nat /\ q5 = p5 + e /\ e \in Int
    BY DEF Grows
  <2>6. PICK p6, q6 : p6 = Cardinality(Displacing(n)) /\ q6 = Cardinality(Displacing(n)') /\ p6 \in Nat /\ q6 \in Nat /\ q6 = p6 + f /\ f \in Int
    BY DEF Grows
  <2>7. PICK p7, q7 : p7 = Cardinality(Announcing(n)) /\ q7 = Cardinality(Announcing(n)') /\ p7 \in Nat /\ q7 \in Nat /\ q7 = p7 + g /\ g \in Int
    BY DEF Grows
  <2>8. balance[n] = p1 + p2 + p3 + p4 + p5 + p6 - p7 /\ Owed(n)' = q1 + q2 + q3 + q4 + q5 + q6 - q7
    BY <1>1, <1>2, <1>3, <2>1, <2>2, <2>3, <2>4, <2>5, <2>6, <2>7
  <2>9. balance'[n] = (p1 + p2 + p3 + p4 + p5 + p6 - p7) + (a + b + c + d + e + f - g)
    BY <2>8
  <2>10. QED BY <2>1, <2>2, <2>3, <2>4, <2>5, <2>6, <2>7, <2>8, <2>9
<1>5. QED BY <1>4 DEF Books, Grows

\* What a caller at r has counted but not reported, or the reverse.
Due(r, n) == Bit(Skips(r, n)) + Bit(Displaces(r, n)) - Bit(Announces(r, n))

LEMMA DueFacts ==
  ASSUME NEW r, NEW n
  PROVE  /\ Due(r, n) \in Int
         /\ r.pc \notin {"queued", "skip_outcome"} => Due(r, n) = 0
         /\ r.pc = "skip_outcome" => Due(r, n) = Bit(r.node = n)
         /\ r.pc = "queued" => Due(r, n) = Bit(r.superseded = n) - Bit(r.node = n)
BY DEF Due, Bit, Skips, Displaces, Announces

\* No node is NoNode.
LEMMA NoBit ==
  ASSUME NEW n \in Nodes PROVE Bit(NoNode = n) = 0
<1>1. ~(NoNode = n)
  BY RouteAssumption
<1>2. QED BY <1>1, BitFacts

LEMMA OutcomeFacts ==
  ASSUME TypeOK, NEW m \in Nodes, Outcome(m), NEW n \in Nodes
  PROVE  balance[n] \in Int /\ balance'[n] = balance[n] - Bit(m = n)
<1>1. balance \in [Nodes -> Int] /\ balance' = [balance EXCEPT ![m] = @ - 1]
  BY DEF TypeOK, EventType, Outcome
<1>2. balance'[n] = IF m = n THEN balance[n] - 1 ELSE balance[n]
  BY <1>1
<1>3. QED BY <1>1, <1>2 DEF Bit

LEMMA QueuedFacts ==
  ASSUME TypeOK, NEW m \in Nodes, NEW old, Queued(m, old), NEW n \in Nodes
  PROVE  balance[n] \in Int /\ balance'[n] = balance[n] + Bit(m = n) - Bit(old = n)
BY DEF TypeOK, EventType, Queued, Bit

\* One caller goes on, perhaps with a change of the mailbox.
OneCaller(c) == \A d \in Callers : d # c => caller'[d] = caller[d]

LEMMA CallerBooks ==
  ASSUME NEW n \in Nodes, Books(n), balance[n] \in Int, NEW c \in Callers, OneCaller(c),
         NEW q, q = caller[c], NEW r, r = caller'[c],
         UNCHANGED <<task, wout, dropped>>, NEW m, Grows(Mail(n), Mail(n)', m),
         balance'[n] = balance[n] + (m + Due(r, n) - Due(q, n))
  PROVE  Books(n)'
<1>1. Grows(Skipping(n), Skipping(n)', Bit(Skips(r, n)) - Bit(Skips(q, n)))
  <2>1. \A d : d # c => (d \in Skipping(n)' <=> d \in Skipping(n))
    BY DEF OneCaller, Skipping, Skips
  <2>2. (c \in Skipping(n) <=> Skips(q, n)) /\ (c \in Skipping(n)' <=> Skips(r, n))
    BY DEF Skipping
  <2>3. Grows(Skipping(n), Skipping(n)', Bit(c \in Skipping(n)') - Bit(c \in Skipping(n)))
    BY <2>1, GrowsOne DEF Books
  <2>4. QED BY <2>2, <2>3 DEF Bit
<1>2. Grows(Displacing(n), Displacing(n)', Bit(Displaces(r, n)) - Bit(Displaces(q, n)))
  <2>1. \A d : d # c => (d \in Displacing(n)' <=> d \in Displacing(n))
    BY DEF OneCaller, Displacing, Displaces
  <2>2. (c \in Displacing(n) <=> Displaces(q, n)) /\ (c \in Displacing(n)' <=> Displaces(r, n))
    BY DEF Displacing
  <2>3. Grows(Displacing(n), Displacing(n)', Bit(c \in Displacing(n)') - Bit(c \in Displacing(n)))
    BY <2>1, GrowsOne DEF Books
  <2>4. QED BY <2>2, <2>3 DEF Bit
<1>3. Grows(Announcing(n), Announcing(n)', Bit(Announces(r, n)) - Bit(Announces(q, n)))
  <2>1. \A d : d # c => (d \in Announcing(n)' <=> d \in Announcing(n))
    BY DEF OneCaller, Announcing, Announces
  <2>2. (c \in Announcing(n) <=> Announces(q, n)) /\ (c \in Announcing(n)' <=> Announces(r, n))
    BY DEF Announcing
  <2>3. Grows(Announcing(n), Announcing(n)', Bit(c \in Announcing(n)') - Bit(c \in Announcing(n)))
    BY <2>1, GrowsOne DEF Books
  <2>4. QED BY <2>2, <2>3 DEF Bit
<1>4. /\ Grows(Flying(n), Flying(n)', 0) /\ Grows(Reports(n), Reports(n)', 0)
      /\ Grows(Drained(n), Drained(n)', 0)
  <2>1. Flying(n)' = Flying(n) /\ Reports(n)' = Reports(n) /\ Drained(n)' = Drained(n)
    BY DEF Flying, Reports, Drained
  <2>2. QED BY <2>1, GrowsSame DEF Books
<1>5. PICK e \in Int, f \in Int, g \in Int :
        /\ e = Bit(Skips(r, n)) - Bit(Skips(q, n))
        /\ f = Bit(Displaces(r, n)) - Bit(Displaces(q, n))
        /\ g = Bit(Announces(r, n)) - Bit(Announces(q, n))
  BY DEF Bit
<1>6. Due(r, n) - Due(q, n) = e + f - g
  BY <1>5 DEF Due, Bit
<1>7. balance'[n] = balance[n] + (m + 0 + 0 + 0 + e + f - g)
  <2>1. m \in Int
    BY DEF Grows
  <2>2. PICK x \in Int, y \in Int : x = Due(r, n) /\ y = Due(q, n)
    BY DueFacts
  <2>3. QED BY <1>6, <2>1, <2>2
<1>8. /\ Grows(Skipping(n), Skipping(n)', e) /\ Grows(Displacing(n), Displacing(n)', f)
      /\ Grows(Announcing(n), Announcing(n)', g)
  BY <1>1, <1>2, <1>3, <1>5
<1>9. QED BY <1>4, <1>7, <1>8, BooksNext

LEMMA GotoFacts ==
  ASSUME TypeOK, NEW c \in Callers, NEW pc, NEW old, Goto(c, pc, old)
  PROVE  /\ OneCaller(c)
         /\ caller'[c].pc = pc /\ caller'[c].node = caller[c].node /\ caller'[c].superseded = old
BY DEF Goto, OneCaller, TypeOK, CallerType

LEMMA NextUnitFacts ==
  ASSUME TypeOK, NEW c \in Callers, NextUnit(c)
  PROVE  OneCaller(c) /\ caller'[c].pc \notin {"queued", "skip_outcome"}
<1>1. PICK r : r = IF Len(caller[c].todo) > 1
                   THEN [pc |-> "enqueue", node |-> caller[c].node,
                         todo |-> Tail(caller[c].todo), superseded |-> NoNode]
                   ELSE Idle
  OBVIOUS
<1>2. caller' = [caller EXCEPT ![c] = r]
  BY <1>1 DEF NextUnit
<1>3. r.pc \notin {"queued", "skip_outcome"}
  BY <1>1 DEF Idle
<1>4. QED BY <1>2, <1>3 DEF OneCaller, TypeOK, CallerType

\* The steps of a caller that leave the mailbox alone.
LEMMA PairCaller ==
  ASSUME TypeOK, NEW n \in Nodes, Books(n), NEW c \in Callers,
         \/ \E m \in Nodes : Call(c, m)
         \/ EnqueueClosed(c) \/ EnqueueCooling(c) \/ EmitQueued(c) \/ EnqueueNotify(c)
         \/ EmitSkipQueued(c) \/ EmitSkipOutcome(c)
  PROVE  Books(n)'
<1>1. PICK q, r : q = caller[c] /\ r = caller'[c]
  OBVIOUS
<1>2. pending' = pending /\ UNCHANGED <<task, wout, dropped>> /\ balance[n] \in Int
  BY DEF Call, EnqueueClosed, EnqueueCooling, EmitQueued, EnqueueNotify, EmitSkipQueued, EmitSkipOutcome,
     queueVars, workerVars, Notify, TypeOK, EventType
<1>3. Grows(Mail(n), Mail(n)', 0)
  <2>1. Mail(n)' = Mail(n)
    BY <1>2 DEF Mail
  <2>2. QED BY <2>1, GrowsSame DEF Books
<1>4. q.pc # "idle" => q.node \in Nodes
  BY <1>1 DEF TypeOK, CallerType
<1>5. OneCaller(c) /\ balance'[n] = balance[n] + (Due(r, n) - Due(q, n))
  <2>1. ASSUME q.pc \notin {"queued", "skip_outcome"}, r.pc \notin {"queued", "skip_outcome"}, balance' = balance
        PROVE  balance'[n] = balance[n] + (Due(r, n) - Due(q, n))
    <3>1. Due(r, n) = 0 /\ Due(q, n) = 0
      BY <2>1, DueFacts
    <3>2. QED BY <1>2, <2>1, <3>1
  <2>2. CASE EnqueueClosed(c) \/ EnqueueNotify(c)
    <3>1. NextUnit(c) /\ q.pc \notin {"queued", "skip_outcome"} /\ balance' = balance
      BY <1>1, <2>2 DEF EnqueueClosed, EnqueueNotify, ghostVars
    <3>2. QED BY <1>1, <2>1, <3>1, NextUnitFacts
  <2>3. CASE EnqueueCooling(c)
    <3>1. Goto(c, "skip_queued", NoNode) /\ q.pc \notin {"queued", "skip_outcome"} /\ balance' = balance
      BY <1>1, <2>3 DEF EnqueueCooling, ghostVars
    <3>2. OneCaller(c) /\ r.pc = "skip_queued"
      BY <1>1, <3>1, GotoFacts
    <3>3. QED BY <2>1, <3>1, <3>2
  <2>4. CASE EmitQueued(c)
    <3>1. q.pc = "queued" /\ Queued(q.node, q.superseded) /\ Goto(c, "notify", NoNode)
      BY <1>1, <2>4 DEF EmitQueued
    <3>2. OneCaller(c) /\ r.pc = "notify"
      BY <1>1, <3>1, GotoFacts
    <3>3. balance'[n] = balance[n] + Bit(q.node = n) - Bit(q.superseded = n)
      BY <1>4, <3>1, QueuedFacts
    <3>4. Due(r, n) = 0 /\ Due(q, n) = Bit(q.superseded = n) - Bit(q.node = n)
      BY <3>1, <3>2, DueFacts
    <3>5. PICK x \in {0, 1}, y \in {0, 1} : x = Bit(q.node = n) /\ y = Bit(q.superseded = n)
      BY BitFacts
    <3>6. QED BY <1>2, <3>2, <3>3, <3>4, <3>5
  <2>5. CASE EmitSkipQueued(c)
    <3>1. q.pc = "skip_queued" /\ Queued(q.node, NoNode) /\ Goto(c, "skip_outcome", NoNode)
      BY <1>1, <2>5 DEF EmitSkipQueued
    <3>2. OneCaller(c) /\ r.pc = "skip_outcome" /\ r.node = q.node
      BY <1>1, <3>1, GotoFacts
    <3>3. balance'[n] = balance[n] + Bit(q.node = n) - Bit(NoNode = n)
      BY <1>4, <3>1, QueuedFacts
    <3>4. Due(r, n) = Bit(q.node = n) /\ Due(q, n) = 0 /\ Bit(NoNode = n) = 0
      <4>1. Due(r, n) = Bit(q.node = n)
        BY <3>2, DueFacts
      <4>2. Due(q, n) = 0
        BY <3>1, DueFacts
      <4>3. QED BY <4>1, <4>2, NoBit
    <3>5. PICK x \in {0, 1} : x = Bit(q.node = n)
      BY BitFacts
    <3>6. QED BY <1>2, <3>2, <3>3, <3>4, <3>5
  <2>6. CASE EmitSkipOutcome(c)
    <3>1. q.pc = "skip_outcome" /\ Outcome(q.node) /\ NextUnit(c)
      BY <1>1, <2>6 DEF EmitSkipOutcome
    <3>2. OneCaller(c) /\ r.pc \notin {"queued", "skip_outcome"}
      BY <1>1, <3>1, NextUnitFacts
    <3>3. balance'[n] = balance[n] - Bit(q.node = n)
      BY <1>4, <3>1, OutcomeFacts
    <3>4. Due(r, n) = 0 /\ Due(q, n) = Bit(q.node = n)
      BY <3>1, <3>2, DueFacts
    <3>5. PICK x \in {0, 1} : x = Bit(q.node = n)
      BY BitFacts
    <3>6. QED BY <1>2, <3>2, <3>3, <3>4, <3>5
  <2>7. ASSUME NEW m \in Nodes, Call(c, m) PROVE OneCaller(c) /\ balance'[n] = balance[n] + (Due(r, n) - Due(q, n))
    <3>1. q.pc = "idle" /\ r.pc = "enqueue" /\ OneCaller(c) /\ balance' = balance
      BY <1>1, <2>7 DEF Call, ghostVars, OneCaller, TypeOK, CallerType
    <3>2. QED BY <2>1, <3>1
  <2>8. QED BY <2>2, <2>3, <2>4, <2>5, <2>6, <2>7
<1>6. balance'[n] = balance[n] + (0 + Due(r, n) - Due(q, n))
  <2>1. PICK x \in Int, y \in Int : x = Due(r, n) /\ y = Due(q, n)
    BY DueFacts
  <2>2. QED BY <1>2, <1>5, <2>1
<1>7. QED BY <1>1, <1>2, <1>3, <1>5, <1>6, CallerBooks

\* A command that is accepted is announced by its caller later.
LEMMA PairAccept ==
  ASSUME TypeOK, NEW n \in Nodes, Books(n), NEW c \in Callers, EnqueueCoalesce(c) \/ EnqueueInsert(c)
  PROVE  Books(n)'
<1>1. PICK q, r, k : q = caller[c] /\ r = caller'[c] /\ k = Head(caller[c].todo)
  OBVIOUS
<1>2. /\ UNCHANGED <<task, wout, dropped>> /\ balance' = balance /\ balance[n] \in Int
      /\ q.pc = "enqueue" /\ Due(q, n) = 0
  <2>1. UNCHANGED <<task, wout, dropped>> /\ balance' = balance /\ q.pc = "enqueue" /\ balance[n] \in Int
    BY <1>1 DEF EnqueueCoalesce, EnqueueInsert, workerVars, ghostVars, TypeOK, EventType
  <2>2. QED BY <2>1, DueFacts
<1>3. IsFiniteSet(Mail(n))
  BY DEF Books
<1>4. CASE EnqueueCoalesce(c)
  <2>1. PICK v : v = [node |-> q.node, cmd |-> cmd + 1]
    OBVIOUS
  <2>2. k \in DOMAIN pending /\ pending' = [pending EXCEPT ![k] = v] /\ CoalesceEvent(c, k)
    BY <1>1, <1>4, <2>1 DEF EnqueueCoalesce
  <2>3. /\ DOMAIN pending' = DOMAIN pending /\ pending'[k] = v
        /\ \A l \in DOMAIN pending : l # k => pending'[l] = pending[l]
    BY <2>2 DEF TypeOK, QueueType
  <2>4. PICK old : old = pending[k].node
    OBVIOUS
  <2>5. Grows(Mail(n), Mail(n)', Bit(q.node = n) - Bit(old = n))
    <3>1. \A l : l # k => (l \in Mail(n)' <=> l \in Mail(n))
      BY <2>3 DEF Mail
    <3>2. (k \in Mail(n)' <=> q.node = n) /\ (k \in Mail(n) <=> old = n)
      BY <2>1, <2>2, <2>3, <2>4 DEF Mail
    <3>3. Grows(Mail(n), Mail(n)', Bit(k \in Mail(n)') - Bit(k \in Mail(n)))
      BY <1>3, <3>1, GrowsOne
    <3>4. QED BY <3>2, <3>3 DEF Bit
  <2>6. OneCaller(c) /\ Due(r, n) = Bit(old = n) - Bit(q.node = n)
    <3>1. CASE old # q.node
      <4>1. Goto(c, "queued", old)
        BY <1>1, <2>2, <2>4, <3>1 DEF CoalesceEvent
      <4>2. OneCaller(c) /\ r.pc = "queued" /\ r.node = q.node /\ r.superseded = old
        BY <1>1, <4>1, GotoFacts
      <4>3. QED BY <4>2, DueFacts
    <3>2. CASE old = q.node
      <4>1. Goto(c, "notify", NoNode)
        BY <1>1, <2>2, <2>4, <3>2 DEF CoalesceEvent
      <4>2. OneCaller(c) /\ r.pc = "notify"
        BY <1>1, <4>1, GotoFacts
      <4>3. Due(r, n) = 0
        BY <4>2, DueFacts
      <4>4. QED BY <3>2, <4>2, <4>3, BitFacts
    <3>3. QED BY <3>1, <3>2
  <2>7. PICK x \in {0, 1}, y \in {0, 1}, b \in Int : x = Bit(q.node = n) /\ y = Bit(old = n) /\ b = balance[n]
    BY <1>2, BitFacts
  <2>8. Due(r, n) = y - x
    BY <2>6, <2>7
  <2>9. balance'[n] = b /\ b = b + ((x - y) + (y - x) - 0)
    BY <1>2, <2>7
  <2>10. balance'[n] = balance[n] + ((x - y) + Due(r, n) - Due(q, n))
    BY <1>2, <2>7, <2>8, <2>9
  <2>11. Grows(Mail(n), Mail(n)', x - y)
    BY <2>5, <2>7
  <2>12. QED BY <1>1, <1>2, <2>6, <2>10, <2>11, CallerBooks
<1>5. CASE EnqueueInsert(c)
  <2>1. PICK v : v = [node |-> q.node, cmd |-> cmd + 1]
    OBVIOUS
  <2>2. k \notin DOMAIN pending /\ pending' = With(pending, k, v) /\ Goto(c, "queued", NoNode)
    BY <1>1, <1>5, <2>1 DEF EnqueueInsert
  <2>3. /\ DOMAIN pending' = DOMAIN pending \cup {k} /\ pending'[k] = v
        /\ \A l \in DOMAIN pending : l # k => pending'[l] = pending[l]
    BY <2>2 DEF With
  <2>4. Grows(Mail(n), Mail(n)', Bit(q.node = n))
    <3>1. \A l : l # k => (l \in Mail(n)' <=> l \in Mail(n))
      BY <2>3 DEF Mail
    <3>2. (k \in Mail(n)' <=> q.node = n) /\ ~(k \in Mail(n))
      BY <2>1, <2>2, <2>3 DEF Mail
    <3>3. Grows(Mail(n), Mail(n)', Bit(k \in Mail(n)') - Bit(k \in Mail(n)))
      BY <1>3, <3>1, GrowsOne
    <3>4. Bit(k \in Mail(n)') - Bit(k \in Mail(n)) = Bit(q.node = n)
      BY <3>2 DEF Bit
    <3>5. QED BY <3>3, <3>4
  <2>5. OneCaller(c) /\ r.pc = "queued" /\ r.node = q.node /\ r.superseded = NoNode
    BY <1>1, <2>2, GotoFacts
  <2>6. PICK x \in {0, 1}, b \in Int : x = Bit(q.node = n) /\ b = balance[n]
    BY <1>2, BitFacts
  <2>7. Due(r, n) = 0 - x
    <3>1. Due(r, n) = Bit(NoNode = n) - Bit(q.node = n)
      BY <2>5, DueFacts
    <3>2. QED BY <2>6, <3>1, NoBit
  <2>8. balance'[n] = b /\ b = b + (x + (0 - x) - 0)
    BY <1>2, <2>6
  <2>9. balance'[n] = balance[n] + (x + Due(r, n) - Due(q, n))
    BY <1>2, <2>6, <2>7, <2>8
  <2>10. Grows(Mail(n), Mail(n)', x)
    BY <2>4, <2>6
  <2>11. QED BY <1>1, <1>2, <2>5, <2>9, <2>10, CallerBooks
<1>6. QED BY <1>4, <1>5

\* The steps of the other threads.
LEMMA OtherBooks ==
  ASSUME NEW n \in Nodes, Books(n), balance[n] \in Int, caller' = caller,
         NEW a, NEW b, NEW c, NEW d,
         Grows(Mail(n), Mail(n)', a), Grows(Flying(n), Flying(n)', b),
         Grows(Reports(n), Reports(n)', c), Grows(Drained(n), Drained(n)', d),
         balance'[n] = balance[n] + (a + b + c + d)
  PROVE  Books(n)'
<1>1. Skipping(n)' = Skipping(n) /\ Displacing(n)' = Displacing(n) /\ Announcing(n)' = Announcing(n)
  BY DEF Skipping, Displacing, Announcing
<1>2. Grows(Skipping(n), Skipping(n)', 0) /\ Grows(Displacing(n), Displacing(n)', 0) /\ Grows(Announcing(n), Announcing(n)', 0)
  BY <1>1, GrowsSame DEF Books
<1>3. balance'[n] = balance[n] + (a + b + c + d + 0 + 0 - 0)
  BY DEF Grows
<1>4. QED BY <1>2, <1>3, BooksNext

\* A set whose variable is left alone.
LEMMA StillBooks ==
  ASSUME NEW n, Books(n)
  PROVE  /\ pending' = pending => Grows(Mail(n), Mail(n)', 0)
         /\ task' = task => Grows(Flying(n), Flying(n)', 0)
         /\ wout' = wout => Grows(Reports(n), Reports(n)', 0)
         /\ dropped' = dropped => Grows(Drained(n), Drained(n)', 0)
<1>1. /\ pending' = pending => Mail(n)' = Mail(n)
      /\ task' = task => Flying(n)' = Flying(n)
      /\ wout' = wout => Reports(n)' = Reports(n)
      /\ dropped' = dropped => Drained(n)' = Drained(n)
  BY DEF Mail, Flying, Reports, Drained
<1>2. QED BY <1>1, GrowsSame DEF Books

LEMMA PairStill ==
  ASSUME TypeOK, NEW n \in Nodes, Books(n), UNCHANGED <<pending, task, wout, dropped, caller, balance>>
  PROVE  Books(n)'
<1>1. balance[n] \in Int /\ balance'[n] = balance[n] + (0 + 0 + 0 + 0)
  BY DEF TypeOK, EventType
<1>2. QED BY <1>1, StillBooks, OtherBooks

\* The slot that is taken out of the mailbox.
LEMMA PopBooks ==
  ASSUME TypeOK, MailboxConsistent, NEW n \in Nodes, Books(n), NEW i \in DOMAIN order, Pop(i),
         NEW v, v = pending[order[i]].node
  PROVE  Grows(Mail(n), Mail(n)', 0 - Bit(v = n))
<1>1. PICK k : k = order[i]
  OBVIOUS
<1>2. k \in DOMAIN pending /\ DOMAIN pending' = DOMAIN pending \ {k} /\ \A l \in DOMAIN pending' : pending'[l] = pending[l]
  BY <1>1 DEF Pop, Without, MailboxConsistent
<1>3. \A l : l # k => (l \in Mail(n)' <=> l \in Mail(n))
  BY <1>2 DEF Mail
<1>4. ~(k \in Mail(n)') /\ (k \in Mail(n) <=> v = n)
  BY <1>1, <1>2 DEF Mail
<1>5. Grows(Mail(n), Mail(n)', Bit(k \in Mail(n)') - Bit(k \in Mail(n)))
  BY <1>3, GrowsOne DEF Books
<1>6. Bit(k \in Mail(n)') - Bit(k \in Mail(n)) = 0 - Bit(v = n)
  BY <1>4 DEF Bit
<1>7. QED BY <1>5, <1>6

\* One node more to be reported, and one less.
LEMMA AppendBooks ==
  ASSUME TypeOK, NEW n \in Nodes, Books(n), NEW v \in Nodes, wout' = Append(wout, v)
  PROVE  Grows(Reports(n), Reports(n)', Bit(v = n))
<1>1. PICK m \in Nat : m = Len(wout) /\ DOMAIN wout = 1..m
  BY LenProperties DEF TypeOK, WorkerType
<1>2. /\ wout' \in Seq(Nodes) /\ Len(wout') = m + 1 /\ wout'[m + 1] = v
      /\ \A i \in 1..m : wout'[i] = wout[i]
  BY <1>1, AppendFacts DEF TypeOK, WorkerType
<1>3. DOMAIN wout' = 1..(m + 1)
  BY <1>2, LenProperties
<1>4. \A i : i # m + 1 => (i \in Reports(n)' <=> i \in Reports(n))
  <2>1. \A i : i # m + 1 => (i \in 1..(m + 1) <=> i \in 1..m)
    OBVIOUS
  <2>2. QED BY <1>1, <1>2, <1>3, <2>1 DEF Reports
<1>5. (m + 1 \in Reports(n)' <=> v = n) /\ ~(m + 1 \in Reports(n))
  BY <1>1, <1>2, <1>3 DEF Reports
<1>6. Grows(Reports(n), Reports(n)', Bit(m + 1 \in Reports(n)') - Bit(m + 1 \in Reports(n)))
  BY <1>4, GrowsOne DEF Books
<1>7. Bit(m + 1 \in Reports(n)') - Bit(m + 1 \in Reports(n)) = Bit(v = n)
  BY <1>5 DEF Bit
<1>8. QED BY <1>6, <1>7

LEMMA TailBooks ==
  ASSUME TypeOK, NEW n \in Nodes, Books(n), wout # <<>>, wout' = Tail(wout), NEW v, v = Head(wout)
  PROVE  Grows(Reports(n), Reports(n)', 0 - Bit(v = n)) /\ v \in Nodes
<1>1. PICK m \in Nat : m + 1 = Len(wout) /\ DOMAIN wout = 1..(m + 1)
  <2>1. Len(wout) \in Nat /\ DOMAIN wout = 1..Len(wout) /\ Len(wout) > 0
    BY TailFacts, LenProperties DEF TypeOK, WorkerType
  <2>2. Len(wout) - 1 \in Nat /\ (Len(wout) - 1) + 1 = Len(wout)
    BY <2>1
  <2>3. QED BY <2>1, <2>2
<1>2. /\ wout' \in Seq(Nodes) /\ Len(wout') = m /\ v = wout[1] /\ v \in Nodes
      /\ \A i \in 1..m : wout'[i] = wout[i + 1]
  BY <1>1, TailFacts DEF TypeOK, WorkerType
<1>3. DOMAIN wout' = 1..m
  BY <1>2, LenProperties
<1>4. PICK U : U = Reports(n) \ {1}
  OBVIOUS
<1>5. Grows(Reports(n), U, 0 - Bit(v = n))
  <2>1. (1 \in Reports(n) <=> v = n) /\ ~(1 \in U)
    BY <1>1, <1>2, <1>4 DEF Reports
  <2>2. Grows(Reports(n), U, Bit(1 \in U) - Bit(1 \in Reports(n)))
    BY <1>4, GrowsOne DEF Books
  <2>3. Bit(1 \in U) - Bit(1 \in Reports(n)) = 0 - Bit(v = n)
    BY <2>1 DEF Bit
  <2>4. QED BY <2>2, <2>3
<1>6. IsFiniteSet(Reports(n)') /\ Cardinality(Reports(n)') = Cardinality(U)
  <2>1. PICK f : f = [j \in U |-> j - 1]
    OBVIOUS
  <2>2. \A j \in U : j \in 2..(m + 1) /\ wout[j] = n
    BY <1>1, <1>4 DEF Reports
  <2>3. \A i : i \in Reports(n)' <=> i \in 1..m /\ wout[i + 1] = n
    BY <1>2, <1>3 DEF Reports
  <2>4. f \in [U -> Reports(n)']
    <3>1. \A j \in U : j - 1 \in 1..m /\ (j - 1) + 1 = j
      BY <2>2
    <3>2. QED BY <2>1, <2>2, <2>3, <3>1
  <2>5. \A i, j \in U : f[i] = f[j] => i = j
    BY <2>1, <2>2
  <2>6. \A i \in Reports(n)' : \E j \in U : f[j] = i
    <3>1. SUFFICES ASSUME NEW i \in Reports(n)' PROVE \E j \in U : f[j] = i
      OBVIOUS
    <3>2. i \in 1..m /\ wout[i + 1] = n
      BY <2>3
    <3>3. i + 1 \in U
      BY <1>1, <1>4, <3>2 DEF Reports
    <3>4. f[i + 1] = i
      BY <2>1, <3>2, <3>3
    <3>5. QED BY <3>3, <3>4
  <2>7. f \in Bijection(U, Reports(n)')
    BY <2>4, <2>5, <2>6, Fun_IsBij
  <2>8. QED BY <1>5, <2>7, FS_Bijection DEF Grows, ExistsBijection
<1>7. QED BY <1>2, <1>5, <1>6 DEF Grows

\* The steps of the worker.
LEMMA PairDrop ==
  ASSUME TypeOK, MailboxConsistent, NEW n \in Nodes, Books(n), NEW i \in DOMAIN order, ScanDrop(i)
  PROVE  Books(n)'
<1>1. PICK v : v = pending[order[i]].node
  OBVIOUS
<1>2. v \in Nodes
  <2>1. order[i] \in DOMAIN pending
    BY DEF MailboxConsistent
  <2>2. pending[order[i]] \in Job
    BY <2>1 DEF TypeOK, QueueType
  <2>3. QED BY <1>1, <2>2 DEF Job
<1>3. Pop(i) /\ wout' = Append(wout, v) /\ UNCHANGED <<task, dropped, caller, balance>> /\ balance[n] \in Int
  BY <1>1 DEF ScanDrop, threadVars, ghostVars, TypeOK, EventType
<1>4. Grows(Mail(n), Mail(n)', 0 - Bit(v = n)) /\ Grows(Reports(n), Reports(n)', Bit(v = n))
  BY <1>1, <1>2, <1>3, PopBooks, AppendBooks
<1>5. Grows(Flying(n), Flying(n)', 0) /\ Grows(Drained(n), Drained(n)', 0)
  BY <1>3, StillBooks
<1>6. PICK x \in {0, 1} : x = Bit(v = n)
  BY BitFacts
<1>7. balance'[n] = balance[n] + ((0 - Bit(v = n)) + 0 + Bit(v = n) + 0)
  BY <1>3, <1>6
<1>8. QED BY <1>3, <1>4, <1>5, <1>7, OtherBooks

LEMMA PairDispatch ==
  ASSUME IInv, NEW n \in Nodes, Books(n), NEW i \in DOMAIN order, ScanDispatch(i)
  PROVE  Books(n)'
<1>1. PICK k, v, c : k = order[i] /\ v = pending[k].node /\ c = pending[k].cmd
  OBVIOUS
<1>2. c \notin DOMAIN task
  <2>1. k \in Keys /\ k \in DOMAIN pending
    BY <1>1, ElementOfSeq, LenProperties DEF IInv, TypeOK, QueueType, MailboxConsistent
  <2>2. QED BY <1>1, <2>1 DEF IInv, CmdOrder
<1>3. /\ DOMAIN task' = DOMAIN task \cup {c}
      /\ task'[c].node = v /\ task'[c].phase = "selected"
      /\ \A t \in DOMAIN task : task'[t] = task[t]
  BY <1>1, <1>2 DEF ScanDispatch, With
<1>4. Pop(i) /\ UNCHANGED <<wout, dropped, caller, balance>> /\ balance[n] \in Int
  BY DEF ScanDispatch, IInv, TypeOK, EventType
<1>5. Grows(Mail(n), Mail(n)', 0 - Bit(v = n))
  BY <1>1, <1>4, PopBooks DEF IInv
<1>6. Grows(Flying(n), Flying(n)', Bit(v = n))
  <2>1. \A t : t # c => (t \in Flying(n)' <=> t \in Flying(n))
    BY <1>3 DEF Flying
  <2>2. (c \in Flying(n)' <=> v = n) /\ ~(c \in Flying(n))
    BY <1>2, <1>3 DEF Flying, Unreported
  <2>3. Grows(Flying(n), Flying(n)', Bit(c \in Flying(n)') - Bit(c \in Flying(n)))
    BY <2>1, GrowsOne DEF Books
  <2>4. Bit(c \in Flying(n)') - Bit(c \in Flying(n)) = Bit(v = n)
    BY <2>2 DEF Bit
  <2>5. QED BY <2>3, <2>4
<1>7. Grows(Reports(n), Reports(n)', 0) /\ Grows(Drained(n), Drained(n)', 0)
  BY <1>4, StillBooks
<1>8. PICK x \in {0, 1} : x = Bit(v = n)
  BY BitFacts
<1>9. balance'[n] = balance[n] + ((0 - Bit(v = n)) + Bit(v = n) + 0 + 0)
  BY <1>4, <1>8
<1>10. QED BY <1>4, <1>5, <1>6, <1>7, <1>9, OtherBooks

LEMMA PairSkipped ==
  ASSUME TypeOK, NEW n \in Nodes, Books(n), EmitSkipped
  PROVE  Books(n)'
<1>1. PICK v : v = Head(wout)
  OBVIOUS
<1>2. wout # <<>> /\ wout' = Tail(wout) /\ Outcome(v) /\ UNCHANGED <<pending, task, dropped, caller>>
  BY <1>1 DEF EmitSkipped, queueVars, threadVars
<1>3. Grows(Reports(n), Reports(n)', 0 - Bit(v = n)) /\ v \in Nodes
  BY <1>1, <1>2, TailBooks
<1>4. balance[n] \in Int /\ balance'[n] = balance[n] - Bit(v = n)
  BY <1>2, <1>3, OutcomeFacts
<1>5. Grows(Mail(n), Mail(n)', 0) /\ Grows(Flying(n), Flying(n)', 0) /\ Grows(Drained(n), Drained(n)', 0)
  BY <1>2, StillBooks
<1>6. PICK x \in {0, 1} : x = Bit(v = n)
  BY BitFacts
<1>7. balance'[n] = balance[n] + (0 + 0 + (0 - Bit(v = n)) + 0)
  BY <1>4, <1>6
<1>8. QED BY <1>2, <1>3, <1>4, <1>5, <1>7, OtherBooks

\* A step that changes tasks, but not which of them have still to be reported.
LEMMA PairSameFlying ==
  ASSUME TypeOK, NEW n \in Nodes, Books(n), Flying(n)' = Flying(n),
         UNCHANGED <<pending, wout, dropped, caller, balance>>
  PROVE  Books(n)'
<1>1. balance[n] \in Int /\ balance'[n] = balance[n] + (0 + 0 + 0 + 0)
  BY DEF TypeOK, EventType
<1>2. Grows(Flying(n), Flying(n)', 0)
  BY GrowsSame DEF Books
<1>3. QED BY <1>1, <1>2, StillBooks, OtherBooks

LEMMA PairWorker ==
  ASSUME IInv, NEW n \in Nodes, Books(n), WorkerStep
  PROVE  Books(n)'
<1> USE DEF IInv
<1>1. ASSUME NEW i \in DOMAIN order, ScanDrop(i) \/ ScanDispatch(i) PROVE Books(n)'
  BY <1>1, PairDrop, PairDispatch
<1>2. ASSUME NEW i \in DOMAIN order, ScanSleep(i) PROVE Books(n)'
  <2>1. UNCHANGED <<pending, task, wout, dropped, caller, balance>>
    BY <1>2 DEF ScanSleep, queueVars, threadVars, ghostVars
  <2>2. QED BY <2>1, PairStill
<1>3. CASE SelectBegin \/ ScanWait \/ Park \/ WakeUp
  <2>1. UNCHANGED <<pending, task, wout, dropped, caller, balance>>
    BY <1>3 DEF SelectBegin, ScanWait, Park, WakeUp, queueVars, threadVars, ghostVars
  <2>2. QED BY <2>1, PairStill
<1>4. CASE EmitSkipped
  BY <1>4, PairSkipped
<1>5. CASE Spawn
  <2>1. DOMAIN task' = DOMAIN task
    BY <1>5 DEF Spawn
  <2>2. ASSUME NEW t \in DOMAIN task
        PROVE  task'[t].node = task[t].node /\ (task'[t].phase \in Unreported <=> task[t].phase \in Unreported)
    <3>1. task[t] \in Task
      BY DEF TypeOK, TaskType
    <3>2. CASE task[t].phase = "selected"
      <4>1. task'[t] = [task[t] EXCEPT !.phase = "running"]
        BY <1>5, <3>2 DEF Spawn
      <4>2. task'[t].node = task[t].node /\ task'[t].phase = "running"
        BY <3>1, <4>1 DEF Task
      <4>3. QED BY <3>2, <4>2 DEF Unreported
    <3>3. CASE task[t].phase # "selected"
      BY <1>5, <3>3 DEF Spawn
    <3>4. QED BY <3>2, <3>3
  <2>3. Flying(n)' = Flying(n)
    BY <2>1, <2>2 DEF Flying
  <2>4. UNCHANGED <<pending, wout, dropped, caller, balance>>
    BY <1>5 DEF Spawn, queueVars, ghostVars
  <2>5. QED BY <2>3, <2>4, PairSameFlying
<1>6. QED BY <1>1, <1>2, <1>3, <1>4, <1>5 DEF WorkerStep

\* A task that goes from one phase to another.
LEMMA FlyingOne ==
  ASSUME NEW n \in Nodes, Books(n), NEW t,
         \A u : u # t => ((u \in DOMAIN task' <=> u \in DOMAIN task) /\ (u \in DOMAIN task => task'[u] = task[u]))
  PROVE  Grows(Flying(n), Flying(n)', Bit(t \in Flying(n)') - Bit(t \in Flying(n)))
<1>1. \A u : u # t => (u \in Flying(n)' <=> u \in Flying(n))
  BY DEF Flying
<1>2. QED BY <1>1, GrowsOne DEF Books

LEMMA PhaseFacts ==
  ASSUME TypeOK, NEW t \in DOMAIN task, NEW p, Phase(t, p)
  PROVE  /\ \A u : u # t => ((u \in DOMAIN task' <=> u \in DOMAIN task) /\ (u \in DOMAIN task => task'[u] = task[u]))
         /\ t \in DOMAIN task' /\ task'[t].node = task[t].node /\ task'[t].phase = p
<1>1. task[t] \in Task /\ task' = [task EXCEPT ![t].phase = p]
  BY DEF TypeOK, TaskType, Phase
<1>2. DOMAIN task' = DOMAIN task /\ task'[t] = [task[t] EXCEPT !.phase = p]
  BY <1>1
<1>3. QED BY <1>1, <1>2 DEF Task

\* A task that reports.
LEMMA PairReported ==
  ASSUME TypeOK, NEW n \in Nodes, Books(n), NEW t \in DOMAIN task, EmitReturned(t) \/ EmitTimedOut(t)
  PROVE  Books(n)'
<1>1. PICK v, p : v = task[t].node /\ p = IF task[t].phase = "returned" THEN "finishing" ELSE "zombie"
  OBVIOUS
<1>2. /\ task[t].phase \in Unreported /\ p \notin Unreported
      /\ Outcome(v) /\ Phase(t, p) /\ UNCHANGED <<pending, wout, dropped, caller>>
  BY <1>1 DEF EmitReturned, EmitTimedOut, Unreported, queueVars, workerVars
<1>3. Grows(Flying(n), Flying(n)', 0 - Bit(v = n))
  <2>1. /\ \A u : u # t => ((u \in DOMAIN task' <=> u \in DOMAIN task) /\ (u \in DOMAIN task => task'[u] = task[u]))
        /\ t \in DOMAIN task' /\ task'[t].phase = p
    BY <1>2, PhaseFacts
  <2>2. Grows(Flying(n), Flying(n)', Bit(t \in Flying(n)') - Bit(t \in Flying(n)))
    BY <2>1, FlyingOne
  <2>3. ~(t \in Flying(n)') /\ (t \in Flying(n) <=> v = n)
    BY <1>1, <1>2, <2>1 DEF Flying
  <2>4. Bit(t \in Flying(n)') - Bit(t \in Flying(n)) = 0 - Bit(v = n)
    BY <2>3 DEF Bit
  <2>5. QED BY <2>2, <2>4
<1>4. balance[n] \in Int /\ balance'[n] = balance[n] - Bit(v = n)
  <2>1. task[t] \in Task
    BY DEF TypeOK, TaskType
  <2>2. v \in Nodes
    BY <1>1, <2>1 DEF Task
  <2>3. QED BY <1>2, <2>2, OutcomeFacts
<1>5. Grows(Mail(n), Mail(n)', 0) /\ Grows(Reports(n), Reports(n)', 0) /\ Grows(Drained(n), Drained(n)', 0)
  BY <1>2, StillBooks
<1>6. PICK x \in {0, 1} : x = Bit(v = n)
  BY BitFacts
<1>7. balance'[n] = balance[n] + (0 + (0 - Bit(v = n)) + 0 + 0)
  BY <1>4, <1>6
<1>8. QED BY <1>2, <1>3, <1>4, <1>5, <1>7, OtherBooks

\* The steps of a supervised dispatch.
LEMMA PairTask ==
  ASSUME TypeOK, NEW n \in Nodes, Books(n), NEW t \in DOMAIN task, TaskStep(t)
  PROVE  Books(n)'
<1>1. ASSUME NEW p, Phase(t, p), p \in Unreported <=> task[t].phase \in Unreported,
             UNCHANGED <<pending, wout, dropped, caller, balance>>
      PROVE  Books(n)'
  <2>1. /\ \A u : u # t => ((u \in DOMAIN task' <=> u \in DOMAIN task) /\ (u \in DOMAIN task => task'[u] = task[u]))
        /\ t \in DOMAIN task' /\ task'[t].node = task[t].node /\ task'[t].phase = p
    BY <1>1, PhaseFacts
  <2>2. \A u : u \in Flying(n)' <=> u \in Flying(n)
    BY <1>1, <2>1 DEF Flying
  <2>3. Flying(n)' = Flying(n)
    BY <2>2
  <2>4. QED BY <1>1, <2>3, PairSameFlying
<1>2. ASSUME NEW ok \in BOOLEAN, Return(t, ok) PROVE Books(n)'
  <2>1. /\ Phase(t, "returned") /\ "returned" \in Unreported /\ task[t].phase \in Unreported
        /\ UNCHANGED <<pending, wout, dropped, caller, balance>>
    BY <1>2 DEF Return, Unreported, queueVars, workerVars
  <2>2. QED BY <1>1, <2>1
<1>3. CASE LateSuccess(t) \/ LateFailure(t)
  <2>1. /\ Phase(t, "finishing") /\ "finishing" \notin Unreported /\ task[t].phase \notin Unreported
        /\ UNCHANGED <<pending, wout, dropped, caller, balance>>
    BY <1>3 DEF LateSuccess, LateFailure, Unreported, queueVars, workerVars, ghostVars
  <2>2. QED BY <1>1, <2>1
<1>4. CASE TimeOut(t)
  <2>1. task[t] \in Task /\ task[t].phase = "running"
        /\ task' = [task EXCEPT ![t].phase = "timed_out", ![t].until = TimeoutCooldown]
    BY <1>4 DEF TypeOK, TaskType, TimeOut
  <2>2. /\ \A u : u # t => ((u \in DOMAIN task' <=> u \in DOMAIN task) /\ (u \in DOMAIN task => task'[u] = task[u]))
        /\ t \in DOMAIN task' /\ task'[t].node = task[t].node /\ task'[t].phase = "timed_out"
    BY <2>1 DEF Task
  <2>3. \A u : u \in Flying(n)' <=> u \in Flying(n)
    BY <2>1, <2>2 DEF Flying, Unreported
  <2>4. Flying(n)' = Flying(n)
    BY <2>3
  <2>5. UNCHANGED <<pending, wout, dropped, caller, balance>>
    BY <1>4 DEF TimeOut, workerVars, ghostVars
  <2>6. QED BY <2>4, <2>5, PairSameFlying
<1>5. CASE FinishDispatch(t)
  <2>1. /\ task[t].phase \notin Unreported /\ DOMAIN task' = DOMAIN task \ {t}
        /\ \A u \in DOMAIN task' : task'[u] = task[u]
    BY <1>5 DEF FinishDispatch, Without, Unreported
  <2>2. \A u : u \in Flying(n)' <=> u \in Flying(n)
    BY <2>1 DEF Flying
  <2>3. Flying(n)' = Flying(n)
    BY <2>2
  <2>4. UNCHANGED <<pending, wout, dropped, caller, balance>>
    BY <1>5 DEF FinishDispatch, ghostVars
  <2>5. QED BY <2>3, <2>4, PairSameFlying
<1>6. CASE EmitReturned(t) \/ EmitTimedOut(t)
  BY <1>6, PairReported
<1>7. QED BY <1>2, <1>3, <1>4, <1>5, <1>6 DEF TaskStep

LEMMA Negated ==
  ASSUME NEW m \in Nat PROVE 0 - m \in Int /\ m + (0 - m) = 0 /\ 0 + m = m
OBVIOUS

\* The close hands the mailbox over as it is.
LEMMA PairClose ==
  ASSUME TypeOK, NEW n \in Nodes, Books(n), cpc = "idle" => DOMAIN dropped = {}, Close
  PROVE  Books(n)'
<1>1. UNCHANGED <<task, wout, caller, balance>> /\ balance[n] \in Int
  BY DEF Close, workerVars, ghostVars, TypeOK, EventType
<1>2. CASE closed
  <2>1. UNCHANGED <<pending, dropped>>
    BY <1>2 DEF Close
  <2>2. QED BY <1>1, <2>1, PairStill
<1>3. CASE ~closed
  <2>1. DOMAIN pending' = {} /\ dropped' = pending /\ DOMAIN dropped = {}
    BY <1>3 DEF Close
  <2>2. Mail(n)' = {} /\ Drained(n)' = Mail(n) /\ Drained(n) = {}
    BY <2>1 DEF Mail, Drained
  <2>3. PICK m \in Nat : m = Cardinality(Mail(n))
    BY FS_CardinalityType DEF Books
  <2>4. Grows(Mail(n), Mail(n)', 0 - m) /\ Grows(Drained(n), Drained(n)', m)
    <3>1. IsFiniteSet({}) /\ Cardinality({}) = 0 /\ IsFiniteSet(Mail(n))
      BY FS_EmptySet DEF Books
    <3>2. 0 - m \in Int /\ m + (0 - m) = 0 /\ 0 + m = m
      BY Negated
    <3>3. Cardinality(Mail(n)') = 0 /\ Cardinality(Drained(n)) = 0 /\ Cardinality(Drained(n)') = m
      BY <2>2, <2>3, <3>1
    <3>4. Grows(Mail(n), Mail(n)', 0 - m)
      <4>1. IsFiniteSet(Mail(n)') /\ 0 = m + (0 - m) /\ 0 \in Nat
        BY <2>2, <3>1, <3>2
      <4>2. QED BY <2>3, <3>2, <3>3, <4>1 DEF Grows
    <3>5. Grows(Drained(n), Drained(n)', m)
      <4>1. IsFiniteSet(Drained(n)') /\ m = 0 + m /\ 0 \in Nat /\ m \in Int
        BY <2>2, <3>1, <3>2
      <4>2. QED BY <3>3, <4>1 DEF Grows
    <3>6. QED BY <3>4, <3>5
  <2>5. Grows(Flying(n), Flying(n)', 0) /\ Grows(Reports(n), Reports(n)', 0)
    BY <1>1, StillBooks
  <2>6. balance'[n] = balance[n] + ((0 - m) + 0 + 0 + m)
    BY <1>1
  <2>7. QED BY <1>1, <2>4, <2>5, <2>6, OtherBooks
<1>4. QED BY <1>2, <1>3

LEMMA PairEmitDropped ==
  ASSUME TypeOK, NEW n \in Nodes, Books(n), NEW k \in DOMAIN dropped, EmitDropped(k)
  PROVE  Books(n)'
<1>1. PICK v : v = dropped[k].node
  OBVIOUS
<1>2. /\ Outcome(v) /\ UNCHANGED <<pending, task, wout, caller>>
      /\ DOMAIN dropped' = DOMAIN dropped \ {k} /\ \A l \in DOMAIN dropped' : dropped'[l] = dropped[l]
  BY <1>1 DEF EmitDropped, Without, queueVars, workerVars
<1>3. Grows(Drained(n), Drained(n)', 0 - Bit(v = n))
  <2>1. \A l : l # k => (l \in Drained(n)' <=> l \in Drained(n))
    BY <1>2 DEF Drained
  <2>2. ~(k \in Drained(n)') /\ (k \in Drained(n) <=> v = n)
    BY <1>1, <1>2 DEF Drained
  <2>3. Grows(Drained(n), Drained(n)', Bit(k \in Drained(n)') - Bit(k \in Drained(n)))
    BY <2>1, GrowsOne DEF Books
  <2>4. Bit(k \in Drained(n)') - Bit(k \in Drained(n)) = 0 - Bit(v = n)
    BY <2>2 DEF Bit
  <2>5. QED BY <2>3, <2>4
<1>4. balance[n] \in Int /\ balance'[n] = balance[n] - Bit(v = n)
  <2>1. dropped[k] \in Job
    BY DEF TypeOK, CloserType
  <2>2. v \in Nodes
    BY <1>1, <2>1 DEF Job
  <2>3. QED BY <1>2, <2>2, OutcomeFacts
<1>5. Grows(Mail(n), Mail(n)', 0) /\ Grows(Flying(n), Flying(n)', 0) /\ Grows(Reports(n), Reports(n)', 0)
  BY <1>2, StillBooks
<1>6. PICK x \in {0, 1} : x = Bit(v = n)
  BY BitFacts
<1>7. balance'[n] = balance[n] + (0 + 0 + 0 + (0 - Bit(v = n)))
  BY <1>4, <1>6
<1>8. QED BY <1>2, <1>3, <1>4, <1>5, <1>7, OtherBooks

LEMMA PairTick ==
  ASSUME TypeOK, NEW n \in Nodes, Books(n), Tick
  PROVE  Books(n)'
<1>1. DOMAIN task' = DOMAIN task
  BY DEF Tick
<1>2. \A t \in DOMAIN task : task'[t].node = task[t].node /\ task'[t].phase = task[t].phase
  <2>1. SUFFICES ASSUME NEW t \in DOMAIN task PROVE task'[t].node = task[t].node /\ task'[t].phase = task[t].phase
    OBVIOUS
  <2>2. task'[t] = Aged(task[t])
    BY DEF Tick
  <2>3. QED BY <2>2 DEF Aged
<1>3. Flying(n)' = Flying(n)
  BY <1>1, <1>2 DEF Flying
<1>4. UNCHANGED <<pending, wout, dropped, caller, balance>>
  BY DEF Tick
<1>5. QED BY <1>3, <1>4, PairSameFlying

\* Every step keeps the books.
LEMMA BooksStep ==
  ASSUME IInv, PairInv, Next, NEW n \in Nodes
  PROVE  Books(n)'
<1>1. Books(n) /\ (cpc = "idle" => DOMAIN dropped = {}) /\ TypeOK
  BY DEF PairInv, IInv
<1>2. ASSUME NEW c \in Callers, CallerStep(c) \/ \E m \in Nodes : Call(c, m) PROVE Books(n)'
  <2>1. CASE EnqueueCoalesce(c) \/ EnqueueInsert(c)
    BY <1>1, <2>1, PairAccept
  <2>2. CASE ~(EnqueueCoalesce(c) \/ EnqueueInsert(c))
    <3>1. \/ \E m \in Nodes : Call(c, m)
          \/ EnqueueClosed(c) \/ EnqueueCooling(c) \/ EmitQueued(c) \/ EnqueueNotify(c)
          \/ EmitSkipQueued(c) \/ EmitSkipOutcome(c)
      BY <1>2, <2>2 DEF CallerStep
    <3>2. QED BY <1>1, <3>1, PairCaller
  <2>3. QED BY <2>1, <2>2
<1>3. CASE WorkerStep
  BY <1>1, <1>3, PairWorker
<1>4. ASSUME NEW t \in DOMAIN task, TaskStep(t) PROVE Books(n)'
  BY <1>1, <1>4, PairTask
<1>5. CASE Close
  BY <1>1, <1>5, PairClose
<1>6. CASE CloserStep
  <2>1. ASSUME NEW k \in DOMAIN dropped, EmitDropped(k) PROVE Books(n)'
    BY <1>1, <2>1, PairEmitDropped
  <2>2. CASE CloseNotify
    <3>1. UNCHANGED <<pending, task, wout, dropped, caller, balance>>
      BY <2>2 DEF CloseNotify, queueVars, ghostVars
    <3>2. QED BY <1>1, <3>1, PairStill
  <2>3. QED BY <1>6, <2>1, <2>2 DEF CloserStep
<1>7. CASE Tick
  BY <1>1, <1>7, PairTick
<1>8. QED BY <1>2, <1>3, <1>4, <1>5, <1>6, <1>7 DEF Next

\* Nothing drained is left when the closing thread is gone.
LEMMA DrainedStep ==
  ASSUME PairInv, Next
  PROVE  (cpc = "idle" => DOMAIN dropped = {})'
<1>1. ASSUME UNCHANGED <<cpc, dropped>> PROVE (cpc = "idle" => DOMAIN dropped = {})'
  BY <1>1 DEF PairInv
<1>2. ASSUME NEW c \in Callers, CallerStep(c) PROVE UNCHANGED <<cpc, dropped>>
  BY <1>2 DEF CallerStep, EnqueueClosed, EnqueueCooling, EnqueueCoalesce, EnqueueInsert, EmitQueued,
     EnqueueNotify, EmitSkipQueued, EmitSkipOutcome
<1>3. ASSUME NEW c \in Callers, NEW m \in Nodes, Call(c, m) PROVE UNCHANGED <<cpc, dropped>>
  BY <1>3 DEF Call
<1>4. CASE WorkerStep
  <2>1. ASSUME NEW i \in DOMAIN order, ScanDrop(i) \/ ScanSleep(i) PROVE UNCHANGED <<cpc, dropped>>
    BY <2>1 DEF ScanDrop, ScanSleep, threadVars
  <2>2. ASSUME NEW i \in DOMAIN order, ScanDispatch(i) PROVE UNCHANGED <<cpc, dropped>>
    BY <2>2 DEF ScanDispatch
  <2>3. SelectBegin => UNCHANGED <<cpc, dropped>>
    BY DEF SelectBegin, threadVars
  <2>4. ScanWait => UNCHANGED <<cpc, dropped>>
    BY DEF ScanWait, threadVars
  <2>5. EmitSkipped => UNCHANGED <<cpc, dropped>>
    BY DEF EmitSkipped, threadVars
  <2>6. Park => UNCHANGED <<cpc, dropped>>
    BY DEF Park, threadVars
  <2>7. WakeUp => UNCHANGED <<cpc, dropped>>
    BY DEF WakeUp, threadVars
  <2>8. Spawn => UNCHANGED <<cpc, dropped>>
    BY DEF Spawn
  <2>9. UNCHANGED <<cpc, dropped>>
    BY <1>4, <2>1, <2>2, <2>3, <2>4, <2>5, <2>6, <2>7, <2>8 DEF WorkerStep
  <2>10. QED BY <1>1, <2>9
<1>5. ASSUME NEW t \in DOMAIN task, TaskStep(t) PROVE UNCHANGED <<cpc, dropped>>
  BY <1>5 DEF TaskStep, Return, EmitReturned, TimeOut, EmitTimedOut, LateSuccess, LateFailure, FinishDispatch
<1>6. CASE Close
  BY <1>6 DEF Close
<1>7. CASE CloserStep
  BY <1>7 DEF CloserStep, EmitDropped, CloseNotify
<1>8. CASE Tick
  BY <1>1, <1>8 DEF Tick
<1>9. QED BY <1>1, <1>2, <1>3, <1>4, <1>5, <1>6, <1>7, <1>8 DEF Next

LEMMA PairInit == Init => PairInv
<1>1. SUFFICES ASSUME Init, NEW n \in Nodes PROVE Books(n)
  BY DEF PairInv, Init
<1>2. /\ Mail(n) = {} /\ Flying(n) = {} /\ Reports(n) = {} /\ Drained(n) = {}
      /\ Skipping(n) = {} /\ Displacing(n) = {} /\ Announcing(n) = {}
  <2>1. DOMAIN pending = {} /\ DOMAIN task = {} /\ DOMAIN wout = {} /\ DOMAIN dropped = {}
    <3>1. pending = [k \in {} |-> 0] /\ task = [c \in {} |-> 0] /\ wout = <<>> /\ dropped = [k \in {} |-> 0]
      BY <1>1 DEF Init
    <3>2. QED BY <3>1
  <2>2. Mail(n) = {} /\ Flying(n) = {} /\ Reports(n) = {} /\ Drained(n) = {}
    BY <2>1 DEF Mail, Flying, Reports, Drained
  <2>3. \A c \in Callers : caller[c].pc = "idle"
    <3>1. caller = [c \in Callers |-> Idle]
      BY <1>1 DEF Init
    <3>2. QED BY <3>1 DEF Idle
  <2>4. Skipping(n) = {} /\ Displacing(n) = {} /\ Announcing(n) = {}
    BY <2>3 DEF Skipping, Displacing, Announcing, Skips, Displaces, Announces
  <2>5. QED BY <2>2, <2>4
<1>3. IsFiniteSet({}) /\ Cardinality({}) = 0
  BY FS_EmptySet
<1>4. Owed(n) = Cardinality(Mail(n)) + Cardinality(Flying(n)) + Cardinality(Reports(n)) + Cardinality(Drained(n))
                  + Cardinality(Skipping(n)) + Cardinality(Displacing(n)) - Cardinality(Announcing(n))
  BY DEF Owed, Mail, Flying, Reports, Drained, Skipping, Displacing, Announcing, Skips, Displaces, Announces
<1>5. Owed(n) = 0 /\ balance[n] = 0
  <2>1. /\ Cardinality(Mail(n)) = 0 /\ Cardinality(Flying(n)) = 0 /\ Cardinality(Reports(n)) = 0
        /\ Cardinality(Drained(n)) = 0 /\ Cardinality(Skipping(n)) = 0 /\ Cardinality(Displacing(n)) = 0
        /\ Cardinality(Announcing(n)) = 0
    BY <1>2, <1>3
  <2>2. Owed(n) = 0
    BY <1>4, <2>1
  <2>3. balance = [m \in Nodes |-> 0]
    BY <1>1 DEF Init
  <2>4. QED BY <2>2, <2>3
<1>6. QED BY <1>2, <1>3, <1>5 DEF Books

LEMMA PairNext ==
  ASSUME IInv, PairInv, [Next]_vars
  PROVE  PairInv'
<1>1. CASE Next
  BY <1>1, BooksStep, DrainedStep DEF PairInv
<1>2. CASE UNCHANGED vars
  <2>1. UNCHANGED <<pending, task, wout, dropped, caller, balance, cpc>>
    BY <1>2 DEF vars, queueVars, workerVars, threadVars, ghostVars
  <2>2. \A n \in Nodes : Books(n)'
    BY <2>1, PairStill DEF PairInv, IInv
  <2>3. QED BY <2>1, <2>2 DEF PairInv
<1>3. QED BY <1>1, <1>2

\* Whatever coalesces, cools down, times out, hangs or is closed, the listeners
\* have counted for a node exactly what emit_queued has announced for it less
\* what it displaced and what emit has reported: none is lost, none is doubled.
THEOREM EventsPaired == Spec => []EventsPair
<1>1. IInv /\ PairInv /\ [Next]_vars => PairInv'
  BY PairNext
<1>2. PairInv => EventsPair
  BY DEF PairInv, Books, EventsPair
<1>3. QED BY Invariant, PairInit, <1>1, <1>2, PTL DEF Spec

-----------------------------------------------------------------------------
(***************************************************************************)
(* The promise of the mailbox.  A step that changes neither the waiting    *)
(* commands, the live calls, what has been carried out nor the cooldowns   *)
(* is a stutter; queueing, sending, carrying out and ending are the        *)
(* promise's own steps.                                                    *)
(***************************************************************************)

LEMMA WaitingKept ==
  ASSUME UNCHANGED pending PROVE Waiting' = Waiting
BY DEF Waiting

LEMMA LiveKept ==
  ASSUME SameTasks PROVE Live' = Live
BY DEF SameTasks, Live, LiveCall

LEMMA CoolingKept ==
  ASSUME UNCHANGED <<cooldown, hubCooldown>> PROVE Cooling' = Cooling
BY DEF Cooling, ActiveCooldown

\* What a client does not see.
LEMMA Unseen ==
  ASSUME SameTasks, UNCHANGED <<pending, lamp, cmd, closed, cooldown, hubCooldown>>
  PROVE  UNCHANGED Mailbox!state
BY WaitingKept, LiveKept, CoolingKept DEF Mailbox!state

\* A command is accepted, in a new slot or in that of an older one.
LEMMA AcceptMaps ==
  ASSUME IInv, SameTasks, NEW k \in Keys, NEW n \in Nodes, ~closed, ActiveCooldown(k) = 0,
         cmd' = cmd + 1,
         \/ pending' = With(pending, k, [node |-> n, cmd |-> cmd + 1])
         \/ k \in DOMAIN pending /\ pending' = [pending EXCEPT ![k] = [node |-> n, cmd |-> cmd + 1]],
         UNCHANGED <<lamp, closed, cooldown, hubCooldown>>
  PROVE  Mailbox!Next
<1>1. /\ DOMAIN pending' = DOMAIN pending \cup {k} /\ pending'[k].cmd = cmd + 1
      /\ \A l \in DOMAIN pending : l # k => pending'[l] = pending[l]
  BY DEF With
<1>2. Waiting' = [Waiting EXCEPT ![k] = cmd + 1]
  BY <1>1 DEF Waiting
<1>3. k \notin Cooling
  BY DEF Cooling
<1>4. Live' = Live /\ Cooling' = Cooling
  BY LiveKept, CoolingKept
<1>5. Mailbox!Accept(k)
  BY <1>2, <1>3, <1>4 DEF Mailbox!Accept
<1>6. QED BY <1>5 DEF Mailbox!Next

\* A slot leaves the mailbox.
LEMMA PopMaps ==
  ASSUME IInv, NEW i \in DOMAIN order, Pop(i)
  PROVE  /\ order[i] \in Keys /\ order[i] \in DOMAIN pending
         /\ Waiting[order[i]] = pending[order[i]].cmd /\ Waiting[order[i]] # 0
         /\ Waiting' = [Waiting EXCEPT ![order[i]] = 0]
<1> DEFINE k == order[i]
<1>1. k \in Keys /\ k \in DOMAIN pending
  BY ElementOfSeq, LenProperties DEF IInv, TypeOK, QueueType, MailboxConsistent
<1>2. pending[k].cmd \in Nat /\ lamp[k] \in Nat
  BY <1>1 DEF IInv, TypeOK, QueueType, Job, EventType
<1>3. pending[k].cmd # 0
  BY <1>1, <1>2 DEF IInv, CmdOrder
<1>4. DOMAIN pending' = DOMAIN pending \ {k} /\ \A l \in DOMAIN pending' : pending'[l] = pending[l]
  BY DEF Pop, Without
<1> HIDE DEF k
<1>5. Waiting[k] = pending[k].cmd
  BY <1>1 DEF Waiting
<1>6. Waiting' = [Waiting EXCEPT ![k] = 0]
  BY <1>1, <1>4 DEF Waiting
<1>7. QED BY <1>1, <1>3, <1>5, <1>6 DEF k

\* A key that cools down is dropped by the worker's scan.
LEMMA RefuseMaps ==
  ASSUME IInv, NEW i \in DOMAIN order, ScanDrop(i)
  PROVE  Mailbox!Next
<1> DEFINE k == order[i]
<1>1. Pop(i) /\ ActiveCooldown(k) > 0 /\ UNCHANGED <<inFlight, inFlightCount, cooldown, hubCooldown, closed, task, cmd, lamp>>
  BY DEF ScanDrop, threadVars, ghostVars
<1>2. SameTasks
  BY <1>1 DEF SameTasks
<1>3. Live' = Live /\ Cooling' = Cooling
  BY <1>1, <1>2, LiveKept, CoolingKept
<1>4. k \in Keys /\ Waiting[k] # 0 /\ Waiting' = [Waiting EXCEPT ![k] = 0]
  BY <1>1, PopMaps
<1>5. k \in Cooling
  BY <1>1, <1>4 DEF Cooling
<1>6. Mailbox!Refuse(k)
  BY <1>1, <1>3, <1>4, <1>5 DEF Mailbox!Refuse
<1>7. QED BY <1>4, <1>6 DEF Mailbox!Next

LEMMA SameCardinality == Mailbox!Cardinality(Live) = Cardinality(Live)
BY DEF Mailbox!Cardinality, Cardinality, Mailbox!IsFiniteSet, IsFiniteSet

\* There are no more live calls than commands in flight.
LEMMA LiveCount ==
  ASSUME IInv PROVE IsFiniteSet(Live) /\ Cardinality(Live) <= inFlightCount
<1> DEFINE f == [t \in DOMAIN task |-> LiveCall(t)]
<1>1. f \in Surjection(DOMAIN task, Live)
  BY DEF Surjection, Live
<1>2. IsFiniteSet(DOMAIN task) /\ inFlightCount = Cardinality(DOMAIN task)
  BY DEF IInv, TasksFinite, InFlightExact
<1> HIDE DEF f
<1>3. QED BY <1>1, <1>2, FS_Surjection

\* The candidate of the scan is given to the hub.
LEMMA SendMaps ==
  ASSUME IInv, NEW i \in DOMAIN order, ScanDispatch(i)
  PROVE  Mailbox!Next
<1> DEFINE k == order[i]
           c == pending[order[i]].cmd
<1>1. Pop(i) /\ ActiveCooldown(k) = 0 /\ UNCHANGED <<cooldown, hubCooldown, closed, cmd, lamp>>
  BY DEF ScanDispatch
<1>2. k \in Keys /\ Waiting[k] = c /\ Waiting[k] # 0 /\ Waiting' = [Waiting EXCEPT ![k] = 0]
  BY <1>1, PopMaps
<1>3. /\ DOMAIN task' = DOMAIN task \cup {c} /\ task'[c].key = k
      /\ \A t \in DOMAIN task : t # c => task'[t] = task[t]
  BY DEF ScanDispatch, With
<1>4. c \notin DOMAIN task
  BY <1>1, PopMaps DEF IInv, CmdOrder
<1>5. Elements(k) \cap inFlight = {}
  BY DEF ScanDispatch, ScanStopsAt, Stops, Conflicts
<1>6. Cardinality(Live) < MaxInFlight
  <2>1. inFlightCount < MaxInFlight
    BY DEF IInv, Budget, ScanDispatch
  <2>2. IsFiniteSet(DOMAIN task) /\ inFlightCount \in Nat
    BY DEF IInv, TasksFinite, TypeOK, QueueType
  <2>3. Cardinality(Live) \in Nat
    BY <2>2, LiveCount, FS_CardinalityType
  <2>4. MaxInFlight \in Nat
    BY PolicyAssumption
  <2>5. QED BY <2>1, <2>2, <2>3, <2>4, LiveCount
<1> HIDE DEF k, c
<1>7. Live' = Live \cup {[key |-> k, cmd |-> Waiting[k]]}
  BY <1>2, <1>3, <1>4 DEF Live, LiveCall
<1>8. \A f \in Live : Lamps[f.key] \cap Lamps[k] = {}
  <2>1. SUFFICES ASSUME NEW t \in DOMAIN task PROVE Lamps[task[t].key] \cap Lamps[k] = {}
    BY DEF Live, LiveCall
  <2>2. Elements(task[t].key) \subseteq inFlight /\ task[t].key \in Keys
    BY DEF IInv, InFlightExact, TypeOK, TaskType, Task
  <2>3. QED BY <1>2, <1>5, <2>2 DEF Lamps
<1>9. k \notin Cooling /\ Cooling' = Cooling
  BY <1>1, CoolingKept DEF Cooling, k
<1>10. Mailbox!Send(k)
  BY <1>1, <1>2, <1>6, <1>7, <1>8, <1>9, SameCardinality DEF Mailbox!Send
<1>11. QED BY <1>2, <1>10 DEF Mailbox!Next

\* The hub carries a command out, and a cooldown may end with it.
LEMMA CarryMaps ==
  ASSUME IInv, SameTasks, NEW t \in DOMAIN task, Carry(t, TRUE), Cooling' \subseteq Cooling,
         UNCHANGED <<pending, cmd, closed>>
  PROVE  Mailbox!Next
<1> DEFINE call == LiveCall(t)
<1>1. call \in Live /\ call.key = task[t].key /\ call.cmd = t
  BY DEF Live, LiveCall
<1>2. lamp' = [lamp EXCEPT ![task[t].key] = t]
  BY DEF Carry
<1>3. Waiting' = Waiting /\ Live' = Live
  BY WaitingKept, LiveKept
<1> HIDE DEF call
<1>4. Mailbox!Carry(call)
  BY <1>1, <1>2, <1>3 DEF Mailbox!Carry
<1>5. QED BY <1>1, <1>4 DEF Mailbox!Next

\* A call that takes too long makes its key or the whole hub cool down.
LEMMA ChillMaps ==
  ASSUME IInv, SameTasks, NEW t \in DOMAIN task, TimeOut(t)
  PROVE  Mailbox!Next
<1> DEFINE call == LiveCall(t)
<1>1. call \in Live /\ call.key = task[t].key
  BY DEF Live, LiveCall
<1>2. UNCHANGED <<pending, lamp, cmd, closed>>
  BY DEF TimeOut, ghostVars
<1>3. Waiting' = Waiting /\ Live' = Live
  BY <1>2, WaitingKept, LiveKept
<1>4. task[t].key \in Keys /\ cooldown \in [Keys -> Nat] /\ hubCooldown \in Nat
  BY DEF IInv, TypeOK, TaskType, Task, TimeType
<1>5. Cooling' \in {Cooling \cup {call.key}, Keys}
  <2>1. CASE TimeoutScope = "target"
    <3>1. cooldown' = [cooldown EXCEPT ![task[t].key] = TimeoutCooldown] /\ UNCHANGED hubCooldown
      BY <2>1 DEF TimeOut
    <3>2. Cooling' = Cooling \cup {task[t].key}
      BY <1>4, <3>1, PolicyAssumption DEF Cooling, ActiveCooldown
    <3>3. QED BY <1>1, <3>2
  <2>2. CASE TimeoutScope # "target"
    <3>1. hubCooldown' = TimeoutCooldown
      BY <2>2 DEF TimeOut
    <3>2. Cooling' = Keys
      BY <3>1, PolicyAssumption DEF Cooling, ActiveCooldown
    <3>3. QED BY <3>2
  <2>3. QED BY <2>1, <2>2
<1> HIDE DEF call
<1>6. Mailbox!Chill(call)
  BY <1>2, <1>3, <1>5 DEF Mailbox!Chill
<1>7. QED BY <1>1, <1>6 DEF Mailbox!Next

\* A timed-out call that succeeds after all may lift a cooldown.
LEMMA LateMaps ==
  ASSUME IInv, SameTasks, NEW t \in DOMAIN task, LateSuccess(t)
  PROVE  Mailbox!Next
<1>1. cooldown \in [Keys -> Nat] /\ hubCooldown \in Nat
  BY DEF IInv, TypeOK, TimeType
<1>2. Cooling' \subseteq Cooling
  <2>1. CASE TimeoutScope = "target"
    <3>1. /\ hubCooldown' = hubCooldown
          /\ cooldown' \in {cooldown, [cooldown EXCEPT ![task[t].key] = 0]}
      BY <2>1 DEF LateSuccess
    <3>2. QED BY <1>1, <3>1 DEF Cooling, ActiveCooldown
  <2>2. CASE TimeoutScope # "target"
    <3>1. hubCooldown' \in {hubCooldown, 0} /\ cooldown' = cooldown
      BY <2>2 DEF LateSuccess
    <3>2. QED BY <1>1, <3>1 DEF Cooling, ActiveCooldown
  <2>3. QED BY <2>1, <2>2
<1>3. Carry(t, TRUE) /\ UNCHANGED <<pending, cmd, closed>>
  BY DEF LateSuccess
<1>4. QED BY <1>2, <1>3, CarryMaps

\* A call is over.
LEMMA EndMaps ==
  ASSUME IInv, NEW t \in DOMAIN task, FinishDispatch(t)
  PROVE  Mailbox!Next
<1> DEFINE call == LiveCall(t)
<1>1. call \in Live
  BY DEF Live
<1>2. DOMAIN task' = DOMAIN task \ {t} /\ \A u \in DOMAIN task' : task'[u] = task[u]
  BY DEF FinishDispatch, Without
<1>3. Live' = Live \ {call}
  BY <1>2 DEF Live, LiveCall
<1>4. UNCHANGED <<pending, lamp, cmd, closed, cooldown, hubCooldown>>
  BY DEF FinishDispatch, ghostVars
<1>5. Waiting' = Waiting /\ Cooling' = Cooling
  BY <1>4, WaitingKept, CoolingKept
<1> HIDE DEF call
<1>6. Mailbox!End(call)
  BY <1>3, <1>4, <1>5 DEF Mailbox!End
<1>7. QED BY <1>1, <1>6 DEF Mailbox!Next

\* The dispatcher is closed for the first time.
LEMMA ShutMaps ==
  ASSUME SameTasks, Close, ~closed
  PROVE  Mailbox!Next
<1>1. /\ closed' = TRUE /\ pending' = [k \in {} |-> 0]
      /\ UNCHANGED <<lamp, cmd, cooldown, hubCooldown>>
  BY DEF Close, ghostVars
<1>2. Waiting' = [k \in Keys |-> 0]
  BY <1>1 DEF Waiting
<1>3. Live' = Live /\ Cooling' = Cooling
  BY <1>1, LiveKept, CoolingKept
<1>4. Mailbox!Shut
  BY <1>1, <1>2, <1>3 DEF Mailbox!Shut
<1>5. QED BY <1>4 DEF Mailbox!Next

\* Time only ends cooldowns.
LEMMA WarmMaps ==
  ASSUME IInv, SameTasks, Tick
  PROVE  Mailbox!Next
<1>1. cooldown \in [Keys -> Nat] /\ hubCooldown \in Nat
  BY DEF IInv, TypeOK, TimeType
<1>2. /\ cooldown' = [k \in Keys |-> Dec(cooldown[k])] /\ hubCooldown' = Dec(hubCooldown)
      /\ UNCHANGED <<pending, lamp, cmd, closed>>
  BY DEF Tick
<1>3. Cooling' \subseteq Cooling
  BY <1>1, <1>2 DEF Cooling, ActiveCooldown, Dec
<1>4. Waiting' = Waiting /\ Live' = Live
  BY <1>2, WaitingKept, LiveKept
<1>5. Mailbox!Warm
  BY <1>2, <1>3, <1>4 DEF Mailbox!Warm
<1>6. QED BY <1>5 DEF Mailbox!Next

\* Every step of the dispatcher is one of the promise or is not seen.
LEMMA NextMaps ==
  ASSUME IInv, Next
  PROVE  Mailbox!Next \/ UNCHANGED Mailbox!state
<1> DEFINE Goal == Mailbox!Next \/ UNCHANGED Mailbox!state
<1>a. ASSUME NEW i \in DOMAIN order, ScanDispatch(i) PROVE Goal
  BY <1>a, SendMaps
<1>b. ASSUME NEW t \in DOMAIN task, FinishDispatch(t) PROVE Goal
  BY <1>b, EndMaps
<1>c. SUFFICES ASSUME ~\E i \in DOMAIN order : ScanDispatch(i),
                      ~\E t \in DOMAIN task : FinishDispatch(t)
               PROVE  Goal
  BY <1>a, <1>b
<1>d. SameTasks
  BY <1>c, SameTasksSteps DEF IInv
<1>e. ASSUME UNCHANGED <<pending, lamp, cmd, closed, cooldown, hubCooldown>> PROVE Goal
  BY <1>d, <1>e, Unseen
<1> HIDE DEF Goal
<1>1. ASSUME NEW c \in Callers, CallerStep(c) PROVE Goal
  <2>1. CASE EnqueueCoalesce(c) \/ EnqueueInsert(c)
    <3>1. /\ caller[c].todo \in Seq(Keys) /\ caller[c].todo # <<>> /\ caller[c].node \in Nodes
      BY <2>1 DEF EnqueueCoalesce, EnqueueInsert, IInv, TypeOK, CallerType, Caller
    <3>2. Head(caller[c].todo) \in Keys
      BY <3>1, HeadTailProperties
    <3>3. Mailbox!Next
      BY <1>d, <2>1, <3>1, <3>2, AcceptMaps DEF EnqueueCoalesce, EnqueueInsert, ghostVars
    <3>4. QED BY <3>3 DEF Goal
  <2>2. CASE ~EnqueueCoalesce(c) /\ ~EnqueueInsert(c)
    BY <1>1, <1>e, <2>2 DEF CallerStep, EnqueueClosed, EnqueueCooling, EmitQueued,
       EnqueueNotify, EmitSkipQueued, EmitSkipOutcome, queueVars, ghostVars
  <2>3. QED BY <2>1, <2>2
<1>2. ASSUME NEW c \in Callers, NEW n \in Nodes, Call(c, n) PROVE Goal
  BY <1>2, <1>e DEF Call, queueVars, ghostVars
<1>3. CASE WorkerStep
  <2>1. ASSUME NEW i \in DOMAIN order, ScanDrop(i) PROVE Goal
    BY <2>1, RefuseMaps DEF Goal
  <2>2. ASSUME NEW i \in DOMAIN order, ScanSleep(i) PROVE Goal
    BY <1>e, <2>2 DEF ScanSleep, queueVars, threadVars, ghostVars
  <2>3. CASE SelectBegin \/ ScanWait \/ EmitSkipped \/ Park \/ WakeUp \/ Spawn
    BY <1>e, <2>3 DEF SelectBegin, ScanWait, EmitSkipped, Park, WakeUp, Spawn, queueVars, threadVars, ghostVars
  <2>4. QED BY <1>3, <1>c, <2>1, <2>2, <2>3 DEF WorkerStep
<1>4. ASSUME NEW t \in DOMAIN task, TaskStep(t) PROVE Goal
  <2>1. ASSUME NEW ok \in BOOLEAN, Return(t, ok) PROVE Goal
    <3>1. UNCHANGED <<pending, cmd, closed, cooldown, hubCooldown>> /\ Carry(t, ok)
      BY <2>1 DEF Return, queueVars
    <3>2. CASE ok
      <4>1. Carry(t, TRUE)
        BY <3>1, <3>2
      <4>2. Cooling' = Cooling
        BY <3>1, CoolingKept
      <4>3. QED BY <1>d, <3>1, <4>1, <4>2, CarryMaps DEF Goal
    <3>3. CASE ~ok
      BY <1>e, <3>1, <3>3 DEF Carry
    <3>4. QED BY <3>2, <3>3
  <2>2. CASE LateSuccess(t)
    BY <1>d, <2>2, LateMaps DEF Goal
  <2>3. CASE TimeOut(t)
    BY <1>d, <2>3, ChillMaps DEF Goal
  <2>4. CASE EmitReturned(t) \/ EmitTimedOut(t) \/ LateFailure(t)
    BY <1>e, <2>4 DEF EmitReturned, EmitTimedOut, LateFailure, queueVars, ghostVars
  <2>5. QED BY <1>4, <1>c, <2>1, <2>2, <2>3, <2>4 DEF TaskStep
<1>5. CASE Close
  <2>1. CASE closed
    <3>1. closed' = TRUE /\ UNCHANGED <<pending, lamp, cmd, cooldown, hubCooldown>>
      BY <1>5, <2>1 DEF Close, ghostVars
    <3>2. closed' = closed
      BY <2>1, <3>1 DEF IInv, TypeOK, QueueType
    <3>3. QED BY <1>e, <3>1, <3>2
  <2>2. CASE ~closed
    BY <1>d, <1>5, <2>2, ShutMaps DEF Goal
  <2>3. QED BY <2>1, <2>2
<1>6. CASE CloserStep
  BY <1>e, <1>6 DEF CloserStep, EmitDropped, CloseNotify, queueVars, ghostVars
<1>7. CASE Tick
  BY <1>d, <1>7, WarmMaps DEF Goal
<1>8. QED
  BY <1>1, <1>2, <1>3, <1>4, <1>5, <1>6, <1>7 DEF Next, Goal

LEMMA InitMaps == Init => Mailbox!Init
<1> SUFFICES ASSUME Init PROVE Mailbox!Init
  OBVIOUS
<1>1. DOMAIN pending = {} /\ DOMAIN task = {} /\ closed = FALSE /\ cmd = 0
  BY DEF Init
<1>2. lamp = [k \in Keys |-> 0] /\ cooldown = [k \in Keys |-> 0] /\ hubCooldown = 0
  BY DEF Init
<1>3. Waiting = [k \in Keys |-> 0] /\ Live = {}
  BY <1>1 DEF Waiting, Live
<1>4. Cooling = {}
  BY <1>2 DEF Cooling, ActiveCooldown
<1>5. QED BY <1>1, <1>2, <1>3, <1>4 DEF Mailbox!Init

\* Queue, scan, pacing, supervision and close implement MailboxPromise: of each
\* key the latest accepted command waits, until it is sent, on its own for each
\* lamp, or displaced; nothing is dropped but by a cooldown or the close.
THEOREM MailboxKept == Spec => KeepsMailbox
<1>1. IInv /\ [Next]_vars => [Mailbox!Next]_Mailbox!state
  <2>1. SUFFICES ASSUME IInv, [Next]_vars PROVE Mailbox!Next \/ UNCHANGED Mailbox!state
    OBVIOUS
  <2>2. CASE Next
    BY <2>1, <2>2, NextMaps
  <2>3. CASE UNCHANGED vars
    <3>1. SameTasks /\ UNCHANGED <<pending, lamp, cmd, closed, cooldown, hubCooldown>>
      BY <2>3 DEF vars, queueVars, threadVars, ghostVars, SameTasks
    <3>2. QED BY <3>1, Unseen
  <2>4. QED BY <2>1, <2>2, <2>3
<1>2. QED BY Invariant, InitMaps, <1>1, PTL DEF Spec, KeepsMailbox, Mailbox!Spec
=============================================================================
