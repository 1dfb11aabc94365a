------------------------- MODULE IntegrationDispatch -------------------------
(***************************************************************************)
(* The life of a dispatch that an asynchronous hub controller has accepted *)
(* but not carried out: the event stream of the controller daemon          *)
(* (rhythm-chipd/src/command_dispatch.rs), the thread that polls it        *)
(* (rhythm-matter/src/lifecycle.rs), the event loop that applies what it   *)
(* reads, and the tables of rhythm-os that match outcomes with receipts    *)
(* (commands.rs).                                                          *)
(*                                                                         *)
(* A receipt travels back through the hub dispatcher, an outcome through   *)
(* the event stream: either may be first.  The daemon may be restarted,    *)
(* which starts a new stream, and its ring of events may overflow before   *)
(* it is polled; the poller tells the event loop of both.                  *)
(*                                                                         *)
(* The model begins after the poller's first, immediate poll.  A batch of  *)
(* events goes to the channel in one step: the event loop is its only      *)
(* reader and may be arbitrarily late.  Command ids come from a counter,   *)
(* so no two calls share one, and a dispatch id stands for its call.       *)
(***************************************************************************)
EXTENDS Naturals, FiniteSets, Sequences, SequencesExt

CONSTANTS
  Calls,          \* hub calls; one dispatch each
  Commands,       \* the command ids of their endpoint plans
  CommandsOf,     \* call -> its command ids
  Report,         \* an event of the stream that is no command's outcome
  EventCapacity,  \* EVENT_CAPACITY
  EarlyCapacity,  \* EARLY_INTEGRATION_OUTCOME_CAPACITY
  MaxStreams,     \* bound on processes of the daemon
  MaxReports      \* bound on attribute reports

Streams == 1..MaxStreams

ASSUME CallAssumption ==
  /\ CommandsOf \in [Calls -> (SUBSET Commands) \ {{}}]
  /\ \A c, d \in Calls : c # d => CommandsOf[c] \cap CommandsOf[d] = {}
  /\ Report \notin Commands

ASSUME CapacityAssumption ==
  /\ EventCapacity \in Nat \ {0} /\ EarlyCapacity \in Nat \ {0}
  /\ MaxStreams \in Nat \ {0} /\ MaxReports \in Nat

VARIABLES
  (* the daemon's process: CommandDispatcher and ControllerEventBroker *)
  stream, open,        \* its stream id; the commands it still owes an outcome
  ring, nextSequence,  \* the events retained, the newest one being the last
  (* the poller and its channel to the event loop *)
  cursor, channel,
  (* the hub calls *)
  stage,               \* "idle", "receipt" (accepted, not yet registered), "done"
  receipt,             \* call -> the stream that accepted it
  (* AppState *)
  remaining,           \* pending_integration_dispatches: call -> ids; {}: absent
  owner,               \* pending_integration_commands: <<stream, id>> -> call
  early,               \* the keys of early_integration_outcomes
  (* observation only *)
  released,            \* call -> times its pending mark was given back
  told,                \* calls reported to clients as failed or indeterminate
  finished,            \* commands whose outcome the daemon has published
  passedOver,          \* calls whose outcome was thrown away unmatched
  reports

daemon == <<stream, open, ring, nextSequence, finished, reports>>
poller == <<cursor, channel>>
tables == <<remaining, owner, early>>
marks == <<released, told>>
vars == <<daemon, poller, stage, receipt, tables, marks, passedOver>>

Keys == Streams \X Commands

KeysOf(c) == {receipt[c]} \X CommandsOf[c]

Init ==
  /\ stream = 1 /\ open = {} /\ ring = <<>> /\ nextSequence = 1
  /\ cursor = [stream |-> 1, sequence |-> 0] /\ channel = <<>>
  /\ stage = [c \in Calls |-> "idle"] /\ receipt = [c \in Calls |-> 1]
  /\ remaining = [c \in Calls |-> {}] /\ owner = <<>> /\ early = {}
  /\ released = [c \in Calls |-> 0] /\ told = {}
  /\ finished = {} /\ passedOver = {} /\ reports = 0

\* The pending marks of the calls are cleared.
Release(cs) == released' = [c \in Calls |-> IF c \in cs THEN released[c] + 1 ELSE released[c]]

-----------------------------------------------------------------------------
(* The daemon.                                                              *)

Changed == cursor.stream # stream

\* Mutant: room is made one event late.
FullLate == Len(ring) > EventCapacity

\* The oldest event makes room for the next.
Full == Len(ring) >= EventCapacity

\* ControllerEventBroker::publish.  The poller does not find out about a lost
\* event of a stream that it has yet to see for the first time.
Publish(e) ==
  /\ ring' = IF Full THEN Append(Tail(ring), e) ELSE Append(ring, e)
  /\ nextSequence' = nextSequence + 1
  /\ passedOver' = passedOver \cup
       {c \in Calls : Full /\ Changed /\ Head(ring) \in CommandsOf[c]}

\* A lane is done with its command, or a newer plan has superseded it.
Finish(m) ==
  /\ m \in open
  /\ open' = open \ {m}
  /\ finished' = finished \cup {m}
  /\ Publish(m)
  /\ UNCHANGED <<stream, reports, poller, stage, receipt, tables, marks>>

\* An attribute report or the end of a subscription.
PublishReport ==
  /\ reports < MaxReports /\ reports' = reports + 1
  /\ Publish(Report)
  /\ UNCHANGED <<stream, open, finished, poller, stage, receipt, tables, marks>>

\* The daemon dies and is started again: a new broker, nothing accepted.
Restart ==
  /\ stream < MaxStreams /\ stream' = stream + 1
  /\ open' = {} /\ ring' = <<>> /\ nextSequence' = 1
  /\ UNCHANGED <<finished, reports, poller, stage, receipt, tables, marks, passedOver>>

-----------------------------------------------------------------------------
(* A hub call: submit_plans, and the outcome listener of the composite.     *)

\* The daemon accepts the plans; the receipt names its stream.
Accept(c) ==
  /\ stage[c] = "idle"
  /\ stage' = [stage EXCEPT ![c] = "receipt"]
  /\ receipt' = [receipt EXCEPT ![c] = stream]
  /\ open' = open \cup CommandsOf[c]
  /\ UNCHANGED <<stream, ring, nextSequence, finished, reports, poller, tables, marks, passedOver>>

\* The plans are rejected, or their receipt does not come in time: the call
\* has failed, whatever the daemon goes on to do.
CallFails(c) ==
  /\ stage[c] \in {"idle", "receipt"}
  /\ stage' = [stage EXCEPT ![c] = "done"]
  /\ told' = told \cup {c}
  /\ Release({c})
  /\ UNCHANGED <<daemon, poller, receipt, tables, passedOver>>

\* Mutant: the first early outcome completes the dispatch.
LeftAfterFirst(c) ==
  IF KeysOf(c) \cap early # {} THEN {} ELSE CommandsOf[c]

\* The commands of a receipt that have no early outcome.
Left(c) == {m \in CommandsOf[c] : <<receipt[c], m>> \notin early}

\* register_integration_dispatch and what the listener makes of its result.
Register(c) ==
  LET new == {receipt[c]} \X Left(c)
  IN  /\ stage[c] = "receipt"
      /\ stage' = [stage EXCEPT ![c] = "done"]
      /\ early' = early \ KeysOf(c)
      /\ remaining' = [remaining EXCEPT ![c] = Left(c)]
      /\ owner' = [k \in DOMAIN owner \cup new |-> IF k \in new THEN c ELSE owner[k]]
      /\ Release(IF Left(c) = {} THEN {c} ELSE {})
      /\ UNCHANGED <<daemon, poller, receipt, told, passedOver>>

-----------------------------------------------------------------------------
(* The poller.                                                              *)

Outcome(s, m) == [kind |-> "outcome", stream |-> s, command |-> m, gap |-> FALSE]
Reset(s, gap) == [kind |-> "reset", stream |-> s, command |-> Report, gap |-> gap]
Reported(s) == [kind |-> "report", stream |-> s, command |-> Report, gap |-> FALSE]

\* The hub event an event of stream s is translated to.
Translated(s, e) == IF e = Report THEN Reported(s) ELSE Outcome(s, e)

Oldest == nextSequence - Len(ring)

\* history_gap: events of the cursor's own stream have been overwritten.
Gap == ~Changed /\ cursor.sequence + 1 < Oldest

\* The retained events the cursor has not seen.
Unseen == IF Changed THEN ring
          ELSE LET skip == IF Gap THEN 0 ELSE cursor.sequence + 1 - Oldest
               IN  SubSeq(ring, skip + 1, Len(ring))

\* What the event loop is told before the events themselves.
Notice == IF Changed \/ Gap THEN <<Reset(stream, Gap)>> ELSE <<>>

\* Mutant: a poll without events is not looked at.
NewsOfEvents == ring # <<>> /\ (Changed \/ cursor.sequence + 1 < nextSequence)

\* A poll returns a stream or events the poller has not seen.
News == Changed \/ cursor.sequence + 1 < nextSequence

\* One round of start_controller_event_stream that finds something.
Poll ==
  /\ News
  /\ channel' = channel \o Notice \o [i \in DOMAIN Unseen |-> Translated(stream, Unseen[i])]
  /\ cursor' = [stream |-> stream, sequence |-> nextSequence - 1]
  /\ UNCHANGED <<daemon, stage, receipt, tables, marks, passedOver>>

-----------------------------------------------------------------------------
(* The event loop.                                                          *)

\* Mutant: any outcome ends the dispatch.
CompleteAtOnce(c, m) == TRUE

\* The outcome of m is the last one the dispatch waits for.
Complete(c, m) == remaining[c] = {m}

\* reconcile_integration_outcome of a registered command.
Reconcile(e) ==
  LET k == <<e.stream, e.command>>
      c == owner[k]
  IN  /\ k \in DOMAIN owner
      /\ owner' = [j \in DOMAIN owner \ {k} |-> owner[j]]
      /\ remaining' = [remaining EXCEPT ![c] = @ \ {e.command}]
      /\ Release(IF Complete(c, e.command) THEN {c} ELSE {})
      /\ UNCHANGED <<early, told, passedOver>>

\* The early outcomes once that of k has been kept: a full table forgets an
\* arbitrary one.
Kept(k) ==
  IF Cardinality(early) >= EarlyCapacity /\ k \notin early
  THEN {(early \ {j}) \cup {k} : j \in early}
  ELSE {early \cup {k}}

\* ... and of one whose receipt has not been registered.
Defer(e) ==
  LET k == <<e.stream, e.command>>
  IN  /\ k \notin DOMAIN owner
      /\ early' \in Kept(k)
      /\ passedOver' = passedOver \cup {c \in Calls : KeysOf(c) \cap (early \ early') # {}}
      /\ UNCHANGED <<remaining, owner, marks>>

\* Mutant: the command keys of a failed dispatch stay behind.
OwnersKept(hit) == owner

\* The command keys of the dispatches that are not failed.
OwnersWithout(hit) == [k \in {j \in DOMAIN owner : owner[j] \notin hit} |-> owner[k]]

\* Mutant: a reset fails the dispatches of the stream it announces.
HitCurrent(e) == {c \in Calls : remaining[c] # {} /\ (e.gap \/ receipt[c] = e.stream)}

\* The registered dispatches a reset fails.
Hit(e) == {c \in Calls : remaining[c] # {} /\ (e.gap \/ receipt[c] # e.stream)}

\* reset_integration_dispatches_for_hub and the failures told afterwards.
ApplyReset(e) ==
  /\ remaining' = [c \in Calls |-> IF c \in Hit(e) THEN {} ELSE remaining[c]]
  /\ owner' = OwnersWithout(Hit(e))
  /\ early' = {k \in early : ~e.gap /\ k[1] = e.stream}
  /\ told' = told \cup Hit(e)
  /\ Release(Hit(e))
  /\ passedOver' = passedOver \cup
       {c \in Calls : stage[c] = "receipt" /\ (e.gap \/ receipt[c] # e.stream)}

Apply ==
  LET e == Head(channel)
  IN  /\ channel # <<>>
      /\ channel' = Tail(channel)
      /\ \/ e.kind = "outcome" /\ Reconcile(e)
         \/ e.kind = "outcome" /\ Defer(e)
         \/ e.kind = "reset" /\ ApplyReset(e)
         \/ e.kind = "report" /\ UNCHANGED <<tables, marks, passedOver>>
      /\ UNCHANGED <<daemon, cursor, stage, receipt>>

-----------------------------------------------------------------------------

Next ==
  \/ \E m \in Commands : Finish(m)
  \/ PublishReport \/ Restart
  \/ \E c \in Calls : Accept(c) \/ CallFails(c) \/ Register(c)
  \/ Poll \/ Apply

Spec == Init /\ [][Next]_vars

(***************************************************************************)
(* The daemon ends every plan by the SDK's timeouts; the poller retries    *)
(* for ever; the event loop and the hub calls go on.                       *)
(***************************************************************************)
Fairness ==
  /\ WF_vars(Poll) /\ WF_vars(Apply)
  /\ \A m \in Commands : WF_vars(Finish(m))
  /\ \A c \in Calls : WF_vars(Register(c))

FairSpec == Spec /\ Fairness

-----------------------------------------------------------------------------
(* Properties.                                                              *)

Events == [kind : {"outcome", "reset", "report"}, stream : Streams, command : Commands \cup {Report},
           gap : BOOLEAN]

\* Every variable keeps its type, the ring and the early outcomes their bounds.
TypeOK ==
  /\ stream \in Streams /\ open \subseteq Commands
  /\ ring \in Seq(Commands \cup {Report}) /\ Len(ring) <= EventCapacity
  /\ nextSequence \in Nat \ {0}
  /\ cursor \in [stream : Streams, sequence : Nat] /\ channel \in Seq(Events)
  /\ stage \in [Calls -> {"idle", "receipt", "done"}] /\ receipt \in [Calls -> Streams]
  /\ remaining \in [Calls -> SUBSET Commands]
  /\ DOMAIN owner \subseteq Keys /\ owner \in [DOMAIN owner -> Calls]
  /\ early \subseteq Keys /\ Cardinality(early) <= EarlyCapacity
  /\ released \in [Calls -> Nat] /\ told \subseteq Calls
  /\ finished \subseteq Commands /\ passedOver \subseteq Calls /\ reports \in 0..MaxReports

\* The three tables agree: a command key is held exactly for the ids a
\* dispatch waits for, and leads to it; no awaited id has an early outcome
\* (register_integration_dispatch, reconcile_integration_outcome).
TablesAgree ==
  /\ \A k \in Keys : k \in DOMAIN owner <=> \E c \in Calls : k \in {receipt[c]} \X remaining[c]
  /\ \A k \in DOMAIN owner : k \in {receipt[owner[k]]} \X remaining[owner[k]]
  /\ DOMAIN owner \cap early = {}

\* The mark of a call is given back exactly once: when it has failed or been
\* registered, and no longer waits; a reset or a late outcome never gives it
\* back again (clear_node_dispatch_pending).
ReleasedOnce ==
  \A c \in Calls : released[c] = IF stage[c] = "done" /\ remaining[c] = {} THEN 1 ELSE 0

\* A mark is not given back before the lights have answered: every command
\* of the call has ended, or the client has been told of a failure
\* (install_dispatch_outcome_listener).
HeldUntilResolved ==
  \A c \in Calls : released[c] > 0 => c \in told \/ CommandsOf[c] \subseteq finished

\* The marks of the calls are right: given back once, and not too early.
MarksRight == ReleasedOnce /\ HeldUntilResolved

\* Something still to come will take m from the dispatch of c: its outcome,
\* or the reset of its stream.
Awaited(c, m) ==
  \/ receipt[c] = stream /\ m \in open
  \/ receipt[c] = stream /\ m \in ToSet(Unseen)
  \/ Outcome(receipt[c], m) \in ToSet(channel)
  \/ Changed /\ receipt[c] # stream
  \/ Gap
  \/ \E e \in ToSet(channel) : e.kind = "reset" /\ (e.gap \/ receipt[c] # e.stream)

\* No dispatch waits for an outcome that can no longer come, unless its
\* outcome or its reset was used up before its receipt was registered
\* (reset_integration_dispatches_for_hub, EARLY_INTEGRATION_OUTCOME_CAPACITY).
NoneStranded ==
  \A c \in Calls \ passedOver : \A m \in remaining[c] : Awaited(c, m)

\* Every accepted call is settled in the end, across restarts of the daemon
\* and gaps in its history, with the same exception.
Settled ==
  \A c \in Calls : (stage[c] = "receipt") ~> (released[c] = 1 \/ c \in passedOver)

\* How a client sees a call: the end of its pending mark is an answer or, if
\* it was told so, a failure of the call.
Phase == [c \in Calls |-> IF released[c] > 0 THEN IF c \in told THEN "failed" ELSE "answered"
                          ELSE IF stage[c] = "idle" THEN "idle" ELSE "accepted"]

Promise == INSTANCE DispatchPromise WITH phase <- Phase, ended <- finished

\* The daemon's ring, the poller and the three tables, with their resets,
\* gaps and early outcomes, implement the promise: a call is settled once, its
\* answer never comes before its last outcome nor after its failure
\* (install_dispatch_outcome_listener, reconcile_integration_outcome,
\* reset_integration_dispatches_for_hub).
KeepsPromise == Promise!Spec
=============================================================================
