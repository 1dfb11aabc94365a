# A TLA+ verification of Rhythm OS

Rhythm OS runs circadian lighting on a small appliance (a Raspberry Pi Zero W
image, a Home Assistant add-on, or a plain server). This directory holds TLA+
models of the parts whose correctness depends on interleavings, crashes and
timing, the TLC configurations that check them, and TLAPS proofs.

## 1. Inventory

| Component | State | Operations | What is hard |
|---|---|---|---|
| Hub command dispatcher (`rhythm-core/src/composite_controller.rs`) | per hub: FIFO of keys, latest command per key, in-flight elements, cooldowns, token bucket, a worker task, supervised calls | `turn_on`/`turn_off` enqueue and coalesce, the worker selects, calls return, time out or complete late, `close` | many calling threads, a worker woken through `Notify`, calls that outlive their timeout, events emitted outside the lock |
| A/B slot boot and image update (`S41bootstate`, `rhythm-launch`, `self_update.rs`, `bootstate.rs`, `rhythm-linux-appliance`) | two root filesystem slots, `cmdline.txt`, two copies of the bootstate, a mirror on `/data`, `config.txt` and its migration marker, a same-boot latch | `start`, `success`, `fail`, the update thread, the success marker, `init`'s respawn | power loss between any two durable operations, torn files on VFAT, a step of several failing under `set -e`, scripts racing each other |
| Matter command dispatcher of the chip daemon (`rhythm-chipd` `command_dispatch.rs`, `service.rs`) | endpoint slots, ready queue, lanes, reachability evidence, a work budget with recovery tickets | submit, admission pass, lanes, subscriptions, attribute reports, decommissioning | two mutexes, a thread per lane, permits and lanes freed at different moments, late evidence |
| Pending-dispatch and integration-dispatch tracking (`rhythm-os` `commands.rs`, `lifecycle.rs`, `event_loop.rs`) | per node a count of dispatches under way, receipts, early outcomes, stream generations | register, reconcile, reset of a stream | outcomes before receipts, resets during registration, bounded caches |
| In-place binary update (`self_update.rs` from 3100) | installed files and those set aside, the pending-update marker with its start-attempt counter | stage and commit, startup gate, verify, roll back | the server under judgement keeps the counter; several files replaced one by one; power loss in between |
| Update scheduling (`auto_update.rs`, `ota_history.rs`) | last check, deferral, repair budget | check, skip, apply | clock changes, a rolled-back version |
| Room state machine and engine (`rhythm-core` `room.rs`, `primitives.rs`) | mode, overrides per room | button, motion, tick | long sequences of legal events |
| Command layer, event loop, periodic ticks (`commands.rs`, `handlers.rs`, `event_loop.rs`, `periodic.rs`) | shared state behind one mutex, work queues, motion timers owned by the event loop | application commands, hub events, ticks | state read under the lock and used after it; threads that carry out decisions late |
| Topology transaction (`topology.rs`, `topology_transaction.rs`, `room_sync.rs`) | topology tree, snapshot | copy, edit, commit, rollback | concurrent edits, failing persistence |
| Storage (`storage.rs`) | configuration files and backups | load, migrate, save | crash between files |
| Authentication, remote access, Wi-Fi change, activity outbox, device health, support-bundle jobs | sessions, tunnels, trial networks, queues, job tables | see the source | timeouts, retries, bounds |
| Integrations: Hue, Home Assistant, Matter, BLE, Monster | transport sessions, event streams, pools | connect, subscribe, send | reconnects, duplicate events |
| App, SDK, admin, tools | | | clients; outside the appliance |

How they interact: the engine and the command layer call the composite
controller, which routes a topology node to a native target of one hub and
enqueues there; the dispatcher's queued and outcome events reach listeners that
keep the app's "pending" flags. On the appliance, `init` runs `S41bootstate
start`, then respawns `rhythm-launch`, which runs the server and calls
`S41bootstate fail` when it exits; the server calls `S41bootstate success` once
it is healthy, and its update thread writes the other slot, the bootstate and
`cmdline.txt`. All of these share the boot partition and nothing else. Matter
commands go one hop further: the Matter hub's dispatcher hands endpoint plans to
the chip daemon, a process of its own, whose dispatcher answers them through an
event stream.

The hazards, each at its line and with the properties that cover it, are in
`PROJECT.json`.

## 2. Plan

Done: `HubDispatch`, `IntegrationDispatch`, `ChipDispatch`, `MotionTimers`,
`BootSlots` and `BinaryUpdate` with their proofs; `PendingDispatch`, composed with
the second.

| Module | Extends or refines |
|---|---|
| `HubDispatch` | implements `MailboxPromise` |
| `ChipDispatch` | |
| `IntegrationDispatch` | implements `DispatchPromise`; takes over where `ChipDispatch` publishes |
| `PendingDispatch` | extends `IntegrationDispatch`; the mailbox of `HubDispatch` reduced to slots and their events |
| `BootSlots`, `BinaryUpdate`, `MotionTimers` | |

Next, in this order:

1. The composite controller with re-registration of a hub, as two dispatchers
   that each keep `MailboxPromise`.
2. The motion seeds of a start, a changed timeout and the persistence of room
   state in `MotionTimers`.
3. The topology transaction, Wi-Fi change, remote access, the BLE pool, Hue's
   event stream, the host recorder's ring, the activity outbox, device health, the
   SDK's realtime ordering.

## 3. HubDispatch and MailboxPromise

Every critical section of the queue mutex is one action. The worker's scan of
the FIFO (`select_next`) is the exception: it takes one step per dropped key and
keeps the lock in between, so that no recursion is needed; `LockFree` guards
every other critical section. What the code does outside the mutex (emitting
events, the `notify_one` of `enqueue` and `close`, spawning) is an action of its
own; the `notify_one` after `finish_dispatch` and after `clear_timeout_cooldown` is
joined to the critical section before it (`FinishDispatch`, `LateSuccess`): until it
comes the worker sleeps on as before, and the task is bound to send it.

| State | Code |
|---|---|
| `order`, `pending`, `inFlight`, `inFlightCount`, `cooldown`, `hubCooldown`, `tokens`, `sinceRefill`, `closed` | `DispatchQueue` |
| `permit`, `wpc`, `wout`, `sleepLeft` | `tokio::sync::Notify` and `run_dispatch_worker` |
| `task` | one `supervise_dispatch` per command: selected, running, returned, timed out, zombie, finishing |
| `caller` | a thread inside `enqueue_action` and the unit of its device list it has reached |
| `cpc`, `dropped` | the thread inside `close` and the jobs it drained |
| `balance`, `lamp`, `load` | observation only: what listeners have counted, the last command carried out per key, the hub's own leaky bucket |

A call of `turn_on` and one of `turn_off` are not told apart, only their order:
a command is the number it got when the mailbox accepted it. Time is relative: a
deadline is the number of ticks left, a timer may be noticed late, and two
instants are equal exactly when the same positive number of ticks is left of
both (this is what `clear_timeout_cooldown` compares). Labels of distinct
targets are taken to be distinct.

| Run | Instance | Shows |
|---|---|---|
| `hub_overlap` | 2 threads, 3 nodes with overlapping unsplit device lists, two of them on one list; 2 in flight, timeouts, `close` any time | types; FIFO and map agree; queued events and outcomes pair per node through coalescing, cooldown drops and close; no two live calls share a light; a zombie's cooldown stands; no lost wakeup; the refinement of `MailboxPromise` |
| `hub_paced` | token bucket with unequal costs, split list and group, hub-wide cooldown | the hub's leaky bucket never overflows; under fairness everything queued is resolved and reported |

Bounds: `MaxCalls` calls (two or three; the configuration files say which), one
tick of timeout and two of cooldown (one in `hub_paced`). Three commands are enough for one
in flight, one queued and one that coalesces or arrives during the cooldown; two
threads are enough for every pair of critical sections; a cooldown longer than
the timeout lets a second call time out inside the first one's cooldown. What
these bounds could hide of the proved properties is covered by the proofs, which
have none of them.

Fairness (`hub_paced`): each calling thread, the worker, each supervised task, the
closing thread and time go on. The OS and tokio schedule them; a transport call
ends because "the wait is bounded by the transport's own timeouts". Nothing
forces a call or a close, and `Settles` says nothing of a command that costs
more than the bucket holds: splitting device lists is what excludes it, and the
mutant without splitting violates the property.

`MailboxPromise` is what the module's comment promises the callers: of each key only
the latest command waits; it is given to the hub when no call that shares a lamp
with it is under way, zombies included, and fewer than `max_in_flight` are; it is
displaced by a later one, or dropped by a cooldown or the close, and by nothing
else; a cooldown begins only with a call that took too long. FIFO, scan, wakeups,
pacing and events are not seen in it. `Waiting`, `Live` and `Cooling` map the
dispatcher's state to its own, `KeepsMailbox` is the refinement. That the commands
of a key are carried out in order (`LampInOrder`) follows from it, since only
waiting commands are sent, and is a theorem of its own.

A cooldown is told from another by its deadline alone (`StillApplied`). With one
key per call this is enough (`ZombieHoldsCooldown`); under
`HubDispatchTimeoutScope::Hub` with several calls in flight, two that time out at
the same instant share it, and the late success of one lifts the cooldown the
other relies on. No policy the code ships combines the two, so the property is
stated for the target scope.

## 4. BootSlots

Every run of a script, and the update thread, is a *plan*: the sequence of
durable operations it decides on when it loads the bootstate (once, as the
scripts do). Each operation is one step, a power loss may come between any two,
and an operation may fail: under `set -e` the rest of the plan is dropped, except
that nothing about the UART migration is ever fatal, and an update that cannot
switch `cmdline.txt` writes an idle bootstate back. The migration's own failures are
noticed in part only: a failed copy or replacement of `config.txt` gives the rest up
(`GivenUp`), but `atomic_write_text` is called where `set -e` is off and returns the
status of its last sync, so a marker or a count that could not be written is taken
for written (`UartMarkLost`, `UartRebootFails`) and the migration goes on. `start`, `success`, `fail` and
the update run concurrently where the code lets them: a success script outlives
the server that started it.

| State | Code |
|---|---|
| `primary`, `backup`, `mirror` | `rhythm-bootstate.env`, its `.bak` on the boot partition and the copy on `/data` (of which only the rolled-back version is read) |
| `cmdline`, `image` | the slot `cmdline.txt` names; release in each slot and whether it is whole |
| `config`, `uartPending`, `uartReboots` | `config.txt`, the migration marker, the reboot counter on `/data` |
| `running`, `latch`, `srv`, `plan` | the booted slot, `/run/rhythm-rollback-required`, the server under `rhythm-launch`, the plans |
| `proven`, `uartOwed`, `unmarked`, `tears`, `faults` | observation only: the slots proven healthy, the slot owed its `config.txt` back, whether the last marker could not be written, faults so far |

| Run | Shows |
|---|---|
| `boot_way_back` | with up to three faults, one of which may tear a file: the next boot finds a proven slot, or a candidate on trial whose bootstate names a proven slot to return to (`WayBack`), which a readable bootstate copy says; `cmdline.txt` names a whole image; a rolled-back candidate's `config.txt` change is undone, except where the undoing itself failed or the change has no marker; once faults stop, a candidate that never becomes healthy is no longer the slot to boot, and the server comes up again and again, also if the boot partition silently drops writes |
| `boot_reapply` | (violation) a second update while the first is armed or on trial overwrites a slot that must stay bootable |
| `boot_stuck` | (violation) a rollback that fails at its last mirror write never reboots and is never tried again |

Bounds: three releases, one of which never becomes healthy; three faults (an
update, its trial and its rollback can each be hit; four in `boot_reapply`, one in `boot_stuck`), one
torn file (two losses could tear both copies: the backup is written first even
when it is the only readable one), two migration reboots as
`BLUETOOTH_UART_MAX_REBOOTS`. `Migrating` names the releases whose script has the
UART migration at all; the oldest has not, so that a rollback may end in an image
that could not repair `config.txt` itself. `ApplyWhilePending` is off where an update is only
asked for when nothing is left to be decided; `boot_reapply` shows what happens
otherwise.

`UartGivenBack` does not hold of a migration whose marker could not be written: the
script reports "failed to record the pending Bluetooth UART migration" in a branch
that a failed write never reaches, replaces `config.txt` all the same, and a rollback
finds nothing to undo. The property excepts exactly that (`unmarked`), and the
hazards name it. A marker of an earlier candidate that the failed write leaves
behind is read as what it is, another's.

Fairness (`boot_way_back`, `boot_stuck`): scripts run to their end, `init` respawns
`rhythm-launch`, the success marker acts on a healthy server and lets one that
stays unhealthy exit. Nothing forces an update or the exit of a healthy server.

Simplifications: replacing `cmdline.txt` is taken to be atomic, also in a power loss,
which the script says FAT cannot guarantee (it keeps a `.bak` that nobody reads); a torn bootstate file is unreadable, never empty (an empty one
would be taken for a legacy file); the forced reboot of a stalled update is a
`PowerLoss`; the Hue restore and the BLE scrub of a rollback may fail but their
effects are left out; the in-place binary update does not change a slot's
release.

## 5. ChipDispatch

A lane is the thread of its command, as `spawn_lane` makes one per plan. The
dispatcher's mutex (`lock`) is held across the iterations of a submission and of
an admission pass; the work budget has a mutex of its own, so permits may be
dropped and tickets drawn between two iterations. Every other critical section
is one action. Publishing an outcome only appends to the event broker, so it is
joined to the step before or after it. `try_acquire` draws a missing ticket and
then tests the budget under two acquisitions of the budget's mutex; they are one
step, since nothing that may come between changes what the test finds or could
not have come before both.

| State | Code |
|---|---|
| `slots`, `activeIds`, `ready`, `activeLanes`, `health` | `DispatchState`; an absent slot is an empty one |
| `queue`, `inFlight`, `recoveryInFlight` | `WorkBudgetState`; a ticket is named by its owner, a slot or a subscriber |
| `pc`, `left`, `todo`, `gone`, `sel` | threads inside `submit`, `start_ready_lanes`, `run_lane`, `subscribe_with_budget`, `record_reports` |
| `lane`, `sub` | plan, permit and start of a lane; targets and start of a subscription |
| `outcomes`, `best` | observation only: outcomes published, the latest evidence reported |

| Run | Instance | Shows |
|---|---|---|
| `chip_lanes` | 2 commands for 2 endpoints, a subscription to both, attribute reports, two instants, budget 2 | permits, lanes and tickets are exact; each command is answered once; when all threads rest nothing is left waiting; the evidence that arose last decides, whatever order it is reported in |
| `chip_live` | 2 commands, a subscription, two instants, cooling that ends | every command is answered, every subscription gets its turn |

Bounds: a budget of two is the smallest with a share for responsive endpoints
and one for recovery, and makes both run out; with two commands and a
subscription that takes the recovery permit, one command runs and one waits behind
it, one waits for the permit and is superseded, or two endpoints compete. With two
instants evidence of different ages is reported in either order and cooling ends.
The back-off is one tick, then two, for the doubling from 5 to 300 seconds.

Fairness (`chip_live`): every thread goes on. The mutexes are held for bounded
work; a plan or subscription ends by the SDK's own timeouts, as `run_lane`'s
comment says. Time, reports and new work are not forced. The instance has no
reporters: an endless alternation of reports and re-initialisations could keep
the mutex from a waiting lane for ever, which neither the code nor
`std::sync::Mutex` excludes.

Admission is not strictly first come, first served: an endpoint without a permit
is moved behind those the pass has not looked at, and stays there if the pass
then admits one of them. `Answered` says that it gets its turn all the same.

Simplifications: command ids are fresh, so the refusal of an id that is still
active never applies; a plan's steps are one step that succeeds, fails to
connect or fails otherwise; the steps of decommissioning and re-initialisation
other than the reset of evidence are left out.

## 6. IntegrationDispatch and DispatchPromise

What becomes of a dispatch that the chip daemon has accepted but not carried out.
Its receipt travels back through the hub dispatcher, its outcomes through the
daemon's event stream, the poller and the event loop; either may be first.

| State | Code |
|---|---|
| `stream`, `open`, `ring`, `nextSequence` | the daemon's process: commands it owes an outcome, `ControllerEventBroker` |
| `cursor`, `channel` | `start_controller_event_stream`, its channel to the event loop |
| `stage`, `receipt` | a hub call: idle, accepted with a receipt, over |
| `remaining`, `owner`, `early` | `pending_integration_dispatches`, `pending_integration_commands`, `early_integration_outcomes` |
| `released`, `told`, `finished`, `passedOver` | observation only: marks given back, failures reported, outcomes published, calls whose outcome or reset was used up before they were registered |

| Action | Code |
|---|---|
| `Finish`, `PublishReport`, `Restart` | `publish` by a lane or a report; the daemon is started again with a new stream |
| `Accept`, `CallFails`, `Register` | `submit_plans`, its errors and timeouts, `register_integration_dispatch` under the outcome listener |
| `Poll` | one poll that returns something: reset notice, gap notice, events |
| `Apply` | the event loop: `reconcile_integration_outcome`, the early-outcome table, `reset_integration_dispatches_for_hub` |

`clear_node_dispatch_pending` takes the state's lock once more after the tables have
been updated; `Register`, `Apply` join the two, for nothing reads the tables and the
count together.

`DispatchPromise` is what a client may rely on: a call is settled at most once, as
answered only when all its commands have ended, or as failed at any time. `Phase`
maps the tables to it: a call is settled when its mark has been given back, and
failed if the client was told so. `KeepsPromise` is the refinement.

`integ_streams` checks the tables against each other, that a mark is given back
exactly once and not early, that no registered dispatch waits for something that
can no longer come (`NoneStranded`), that every accepted call is settled
(`Settled`), and the refinement. Both of the last two except a call in
`passedOver`: its outcome left the early table or the ring, or the reset of its
stream was applied, before the receipt was registered. The code has no timeout for
such a dispatch; its mark stays until the next reset. The hazards name this.

Bounds: a room of two commands and a lamp of one let outcomes of one call be split
between early and late, and one call push another's outcome out; a ring of two
and an early table of one overflow at once (2048 each in the code);
three streams allow a reset during and after a registration; one report fills the
ring with what is not an outcome.

Fairness: the daemon ends every plan by the SDK's timeouts, the poller retries for
ever, the event loop reads on, and a receipt that has arrived is registered.
Restarts, reports, new calls and failures are not forced.

## 7. PendingDispatch

Extends `IntegrationDispatch` by the pending marks behind the app's spinner: work
items mark their room before they are sent (`MarkItem`, `SendItem`, `DropItem`),
the single command worker takes them and enqueues at the hub's mailbox, and the
queued listener clears the mark of a superseded node, looks for a user's mark and
sets its own, each under its own acquisition of the state's mutex. A running slot
goes through the steps of `IntegrationDispatch`, and what these give back is taken
from the node's count.

`pend_leak` (violation) has one item, one tick, one call: the mailbox releases its
mutex before its queued event, so the outcome can clear a mark that is not there
yet and the listener sets it afterwards for good. The comment it contradicts says
that inline execution keeps mark and clear strictly ordered. Nothing else is
checked of this module; its marks are only as good as that order.

## 8. BinaryUpdate

The startup gate, the verification thread and the updater are threads, each at a
*place*: the job it does, its next durable operation, and the target its loop has
come to. `Onward` says where it goes after the operation, `FailOnward` where it
goes when the operation fails. The server under judgement runs the gate itself;
the supervisor restarts it at most `StartLimit` times.

| State | Code |
|---|---|
| `dest`, `backup` | the installed files and their `.old` |
| `marker`, `record` | the pending-update marker with its attempts; the rollback record |
| `running`, `up`, `at`, `starts` | the process, how far it has come, where its threads are, systemd's counter |
| `updates`, `prev`, `proven`, `unarmed`, `slips`, `broken` | observation only |

| Action | Code |
|---|---|
| `Start`, `Gate`, `RollbackBlocked` | the supervisor; `startup_update_health_check`; the compatibility scrub that fails |
| `Grace`, `Settle`, `Crash`, `PowerLoss` | the end of the grace period and of the first minute; a bad build dies |
| `Apply` | `apply_payload_blocking` from the staged payload on |
| `Exec`, `OpFails` | the next operation of a thread, or its failure and what the code makes of it |

`bin_probation` shows that an unproven build can be undone, that no file is lost
while an update is pending, that a reported rollback and a failed installation put
every file back, also when interrupted and begun again, and that a build that dies
is left within the supervisor's limit. The exceptions are what the code itself
gives up: a marker that could not be written or an update begun in the server's
first minute, whose verification thread takes any marker for its own (`unarmed`);
a file that could not be set aside or put back (`broken`); an attempt that could
not be counted (`slips`); a power loss while no server binary is in place
(`NoServer`), for which there is nobody to run the gate.

One exception was found by trying to prove `UndoneWhole`. Nothing removes a `.old`
file that an update has left behind: a verification that lost power while it
discarded the backups of an update whose marker could not be written leaves one,
and the commit removes it only when it reaches that target. If power is lost before
that, the rollback takes the old file for a backup of the present update and
installs it. An update that begins with such a file is therefore `broken`.

Bounds: three files, one of which the first installation lacks; two updates, the
second to a build that dies; two failed operations and five losses; three attempts
and five starts as in the code: three attempts, the rollback and the old build are
five. Which builds are good, and every bound, is a constant of the proofs.
Fairness: threads go on, the supervisor restarts, a good build survives its grace
period and a bad one does not. A marker is written whole or not at all. Failures of
`create_dir_all` and of removals whose result the code ignores are not among the
faults.

## 9. MotionTimers

The event loop owns four tables of timers and never waits for a light; what has to
be sent is left to threads, a bag of records that say what a thread is for and how
far it is.

| State | Code |
|---|---|
| `source`, `owned`, `requested`, `warned`, `sinceCheck` | `MotionTimerState` and `last_motion_check` |
| `clears`, `breaker`, `enabled`, `scene`, `bound`, `idle`, `dimmed` | shared state: `pending_motion_clear`, `light_breaker_enabled`, motion activation, rooms owned by a home scene, rooms whose profile still names one (`mood_scene_id` and its palette span), idle modes, `Room.warning_active` |
| `lights`, `threads` | what was sent last; threads under way |
| `moving`, `litBy`, `reentered`, `late`, `tripped` | observation only: the pairs of a sensor that sees motion and a room it watches; who decided last that a room be lit; rooms that Mood has entered under an admitted thread; rooms whose threads overtook one another or that lost events to the breaker |

| Action | Code |
|---|---|
| `MotionStarts`, `MotionStops`, `Press` | `handle_hub_event` |
| `Request`, `SetEnabled`, `SetBreaker`, `ApplyScene` | `do_node_preferences_set`, `do_light_breaker_set`, `do_home_scene_apply` |
| `TakeClears`, `BreakerClears`, `Check`, `Tick` | `run_event_loop`, `check_motion_timers` |
| `Admit`, `Send` | `run_motion_action_if_allowed`, `run_button_ingress_action` and what they send |
| `SetMode`, `SendMood` | the two halves of `do_node_preferences_set` with an explicit state, of a request or of a restored mode default: the state and the clear of the timers, then what is sent |
| `EnterMood` | Mood of a room still bound to a scene: `active_whole_home_scene_owner` holds again |
| `Keep` | a press that leaves the lights as they are |
| `Adapt` | the periodic tick |

A timeout may be any number of checks; the rooms are finitely many and one of them
has the longest timeout (`MotionAssumption`), as in any home that can be
configured. `Unfinished` counts the threads of the bag, copies included.

A room that times out is restored to its mode's default: standby or hard off, active,
mood, or, where none is set, an `OffPress`. Any of them may be what a restore finds
(`SetMode` chooses; the code reads it when the thread is spawned). A press is `pressOn`
or `pressOff`, which send, or `pressKeep`: Stop, which plans nothing
(`ManualActionPlan::Noop`), or a brightness button in a room of a scene, which changes
the scene and not who owns the room. All of them drop the room's timers first.
RhythmOn and RhythmOff plan nothing either, but reach the event loop only as service
events without a hub and are dropped there.

`motion`: the tables agree; no source is active whose sensor has seen the motion
stop; a room is never switched off by motion unwarned nor left overdue; no motion
or contact thread touches a room of a home scene, however late it is; and in a room
whose decisions were carried out one at a time the lights agree with the timers. A
room in `late` was decided about before an older decision was done, one in `tripped`
lost events or timers to the open breaker: the code takes no order between the
threads of a room, so there lights and timers may part until the next press.

Two properties have exceptions, each because the code does what they say otherwise:

- `SceneUndisturbed`, rooms in `reentered`. A scene takes the arbitration lock for
  writing, so that it waits for admitted motion threads; Mood, requested by the app
  or restored as a default, brings the scene of a bound room back without it. A
  motion thread admitted before then sends in a room the scene owns, and its "on"
  ends the mood. Without the exception TLC finds this in nine states: scene, off,
  motion, admission of its thread, Mood, "on". Mood restored by a motion thread is
  itself allowed to send the scene it has brought back.
- `RoomAgrees`. An active or mood default leaves on, without a timer, the lights that
  motion has lit: from then on the mode has decided it (`litBy` is `"mode"`), which
  is what the default asks for. A press without effect takes the timers of a room
  away and leaves its lights and its warning dim, which the periodic tick then
  passes over (`"left"`), as after the breaker in `motion_dim`.

`motion_dim` (violation): the breaker opened during a warning forgets the timers
but not the room's warning flag; once it is closed the room stays dim.

Bounds: one room, since rooms share nothing but the arbitration lock, which a
scene takes for all; one sensor, which with the threads it starts, late clears and a
check makes every interleaving of one room's handlers happen (that one sensor holds
up what another has released is a matter of `HasActive` and `Elapsed` alone; the
proofs cover any number of sensors and of rooms per sensor); a timeout of three
checks, a warning of two, a check at most two late (`CadenceAssumption`: a check is
never later than the warning lasts); two unfinished threads when an event comes; one
switch (two in `motion_dim`); presses that switch on and that keep, a contact that
switches off, requests of off and of Mood. Safety only: nothing here needs fairness.

Simplifications: a home scene's paced output counts as done when it is committed;
what the loop believes of a room's power is right or unknown. `SetBreaker` leaves out
that dispatches still queued at the hub are invalidated. Actions bound to a button
other than the lighting ones, which do not drop timers, scenes of a single target
and the deletion of a scene (both change `bound`), external authority, the seeds of a
start, a changed timeout, failed thread creation and the persistence of room state
are out.

## 10. Proofs

`HubDispatchProofs` proves, for every set of callers and nodes, every routing
and every policy that satisfies the named assumptions of `HubDispatch`, the
inductive invariant

    IInv == TypeOK /\ MailboxConsistent /\ InFlightExact /\ Budget /\ TasksFinite /\ CmdOrder

`InFlightExact` alone is not inductive: a dispatch keeps the budget only because
the selection found room when it began (`Budget`) and nobody else can start one
while the worker holds the lock; counting needs a finite set of tasks. That
commands reach the hub in order needs `CmdOrder`: of one key, carried out is
older than in flight is older than queued. A popped key has no live call, zombies
included, which is `InFlightExact` again. From `IInv` follow `TypeCorrect`,
`MailboxSafe`, `Exclusion` and the action property `DeliveredInOrder`.

Four more invariants are proved relative to `IInv`. `WakesUp`
needs `WakeInv`, which covers the worker from the moment it has decided to wait:
until it is parked, a notification leaves a permit. `CooldownStands` is inductive
because no other live call has the same key. `Paced` needs `PaceInv`: the hub's
load plus the tokens as they would be after a refill never exceed the capacity,
so that a tick, which drains one and fills the other at the same rate, and a
dispatch, which moves cost from one to the other, both keep it. `EventsPaired`
needs `PairInv`: of each node seven finite sets are counted (slots in the mailbox,
dispatches that have not reported, reports of the worker, drained slots, callers
about to announce a command, to report a displaced one or to skip one), and before
the close nothing is drained. Every step adds to each set at most one element or
takes at most one away, so that a sum of seven differences remains (`Grows`); only
the close moves a whole set, the mailbox, to the drained slots. `MailboxKept` is the
refinement of `MailboxPromise`, from `IInv` alone: `NextMaps` takes the scan's
dispatch and drop, the two ways to enqueue, the end, the timeout and the late
success of a call, the close and the tick to steps of the promise (`SendMaps`,
`RefuseMaps`, `AcceptMaps`, ...), and everything else to a stutter (`Unseen`). That a
command sent is alone with its lamps needs `InFlightExact`, that the hub has room for
it `Budget`, and that its slot is not empty `MailboxConsistent` and `CmdOrder`.

`IntegrationDispatchProofs` proves, for all calls, commands and capacities under
`CallAssumption` and `CapacityAssumption`, the inductive invariant

    IInv == TypeOK /\ IsFiniteSet(early) /\ Evidence /\ Accounted /\ TablesAgree /\ ReleasedOnce

`Evidence` says that an outcome in the ring, the channel or the early table is of a
command that has ended; `Accounted`, that a command a registered call no longer
waits for has ended or the client was told of a failure, and that calls which are
not registered wait for nothing. Without them an early outcome could complete a
dispatch whose lights have not answered. Finiteness of `early` is what bounds it.
From `IInv` follow `TypeCorrect`, `TablesCorrect` and `MarksCorrect`; `PromiseKept` is the refinement of `DispatchPromise`: `Accept`,
`CallFails`, `Register`, `Finish` and `Apply` map to steps of the promise, or to
stutters, by the phases they leave alone (`PhaseKept`).

`IntegrationDeliveryProofs` adds a second invariant, relative to the first, for
`NothingStranded`:

    DInv == Behind /\ Delivery

`Delivery` follows every command that a call waits for, *or will wait for once its
receipt is registered*, through the daemon's open commands, its ring, the channel
and the resets under way; without the second half `Register` would not keep it.
`Behind` says that neither the poller nor a receipt is ahead of the daemon: that
is why a gap is noticed and why a restart makes every older receipt's stream
differ from the new one. The position of an event in the ring gives its number
(`UnseenIsUnread`), and a publication that pushes an unread event out of the ring
either makes a gap or is recorded in `passedOver`.

`ChipDispatchProofs` proves, for every set of endpoints, threads and subscriptions
and every budget under `BoundsAssumption`, an inductive invariant of twelve parts:

| Part | Needed because |
|---|---|
| `SharedTypes`, `ThreadTypes`, `PcTypes` | the types, and which places a thread of each kind can be at |
| `LockInv` | the mutex is held exactly across a submission's and an admission pass's iterations; what the pass has counted (`left`, a free lane) stays true meanwhile |
| `LaneInv` | between admission and its first step a lane belongs to the pass that has admitted it, and to no other |
| `WaitInv` | a command waits in one slot, or with the submitter that superseded it, and has no lane |
| `OneLanePerEndpoint`, `TicketsOwned`, `AnsweredOnce` | the properties themselves, which these parts make inductive together |
| `PermitInv` | the permits by kind, so that releasing one kind does not hide a shortage of the other |
| `EvidenceInv` | the health record and the latest evidence agree, and only a proof or a failure has an instant |
| `ProgressInv` | while endpoints are queued some thread is active; an endpoint that a lone pass has put back waits for the recovery permit behind another's ticket, so the pass ends by admitting somebody |

From it follow `TypeCorrect`, `BudgetIsExact`, `LanesAreExclusive`,
`EachAnsweredOnce`, `LatestEvidenceWins` and, by `ProgressInv`, `AdmissionsAreKept`.

`MotionTimersProofs` proves, for every home, all timeouts, and every warning time
that is at least as long as a check may be late,

    IInv == Types /\ TimerInv /\ SceneInv
    TimerInv == TimersAgree /\ NotTracked /\ InTime /\ WarnedInTime

`InTime` and `WarnedInTime` measure a countdown against the age of the last check
instead of the check's bound, which is what survives a tick; `NotTracked` keeps a
room that motion must leave alone out of the tables, or in the queue of clears.
`SceneInv` says that a room of a scene is idle and not dimmed, and that no thread of
motion or of a contact is past its admission there, other than the restore that has
brought the scene back, unless the room is in `reentered`. From it follow `TimersCorrect`, `CountdownsEnd` and the action
properties `ScenesStand` and `OffAfterWarning`. `LightsFollowTimers` needs a second
invariant: in an orderly room the threads under way are one copy each, at most two
that do not disturb each other, and what lights, flags and tables will be when
they are done is what the timers expect; what a restore will be is open until it has
found its mode. A room of a scene was not lit by motion, or a mood that will light it
anew is under way (`SceneLit`, `MoodDue`): the scene's clear of the timers would
otherwise leave motion's lights without one. `TypeCorrect` needs a third, for its bound
on the number of threads:

    CountInv == IsFiniteSet(Copies(threads)) /\ Unfinished + Budget <= MaxThreads + 1 + 2 * Cardinality(Rooms)

`Budget` is what the rooms may still cost: two threads for a room that motion owns,
a warning and the switching off, and one once it has been warned. A check moves
from `Budget` to `Unfinished`; what enlarges `Budget` waits for a free thread. The
threads are counted as a set of numbered copies, which is what lets the library's
facts about cardinality be used of a bag.

`BootSlotsProofs` proves `TypeCorrect` of every specification that satisfies the
named assumptions, and `WayBackKept` and `CmdlineAlwaysBootable` for all releases,
any number of power losses and failed operations, and any number of migration
reboots, under two conditions: `~ApplyWhilePending`, because `boot_reapply` shows
that the way back is lost otherwise, and `MaxTears <= 1`, because two losses could
tear both copies. The type invariant carries what the plans are (`Planned`): an
operation has the argument it works on, and what is left of a plan still writes
the backup before the primary copy and gives up the UART operations together, by
`RollbackFacts`, `StartFacts`, `SuccessFacts` and `UpdateFacts` for a fresh plan and
`Dropped` for its remainder. The way back needs

    WInv == DiskInv /\ TearInv /\ LatchInv /\ ScriptInv /\ SuccessInv /\ UpdateInv

| Part | Needed because |
|---|---|
| `DiskInv` | `WayBack` speaks of the copy that is loaded, but a tear makes the other one count: a slot that is not proven is booted only as the candidate of *every* readable copy, and every copy with a candidate names the other slot |
| `TearInv` | while the primary copy is being replaced, the backup that would be loaded instead is already a trial under way, with a proven slot to return to |
| `LatchInv` | a candidate whose primary copy is lost is on its way to a rollback and cannot be accepted |
| `ScriptInv`, `SuccessInv`, `UpdateInv` | what each operation still to come will write, given the ones before it: an idle state only after `cmdline.txt` points at a proven slot, a success only when both slots are proven and no update runs, the switch to the new slot only after its image is whole and both copies name it |
| `Lives` | which scripts and threads may run beside each other, proved inductive on its own |

The parts are proved step by step, one lemma per kind of operation (`WroteBackup`,
`WrotePrimary`, `Latched`, `PointedBack`, `Switched`, `Erased`, ...), per fault
(`WayOpFails`, `WayPowerLoss`) and per new plan (`WayPowerOn`, `WayFailBegin`,
`WayMarkSuccess`, `WayBeginUpdate`).

`ConfigGivenBack` holds under the same two conditions and needs a further invariant,
relative to these,

    UInv == VerInv /\ OwedInv /\ UartInv /\ SameInv

| Part | Needed because |
|---|---|
| `VerInv` | a copy that puts a slot on trial, when that slot is the one to boot or running, names the release in it: a migration of one release is not taken for another's |
| `OwedInv` | while `config.txt` is owed (by a change that was marked) the candidate is the one to boot, the marker is its own, and whichever copy is left to load has it on trial, so that its own next run of a script finds the debt |
| `UartInv` | in what `start` and `fail` still have to do, nothing lets go of the candidate before `config.txt` is given back, and the marker is written before `config.txt` is |
| `SameInv` | an update switches to a slot whose image and both copies are of one release |

`BinaryUpdateProofs` proves, for every size of the bundle, every choice of good
builds, any number of updates, failed operations and losses of power, and any
limits on attempts and starts, the inductive invariant

    IInv == TInv /\ (~broken => Sound)
    TInv == TypeOK /\ PlaceInv
    Sound == MarkInv /\ ArmInv /\ ServerInv /\ FileInv /\ CommitInv /\ RollbackInv

| Part | Needed because |
|---|---|
| `PlaceInv` | which thread may stand where, and when: the gate before the server serves, the verification in its grace period; an attempt is counted only while one is left, which bounds the counter |
| `MarkInv` | a marker, and every thread that has read one, speaks of the latest update and of the files it found |
| `ArmInv` | between which operations there is a marker: a rollback must not lose it, a commit must not begin with another's |
| `ServerInv` | the installed server is the old one, the new one or none, and who has served through a grace period is the one installed |
| `FileInv` | what a loss of power leaves: each file is `Kept`, `Aside` or `Replaced`; with the old server in place all files are kept, since the server is replaced first and put back last |
| `CommitInv`, `RollbackInv` | the loops: the shapes of the files below, at and above the target a commit, its undoing or a rollback has come to |

`FileInv` is what makes an interrupted rollback come out right when it is begun
again by either server: the new one starts it over, and the old one runs it only
when no file is left to put back. All of it speaks of a build that is not proven
(`Doubtful`); the verification, which destroys the backups, comes after that. The
proof has one lemma per operation and per fault. From `IInv` follow `TypeCorrect`,
`WayBackStays`, `NothingIsLost` and `UndoneAsAWhole`.

`SeqLemmas` holds what the models' operators on sequences return, by position and
as sets of elements.

Every invariant and every safety property of the passing runs is a theorem. Only
model-checked: the liveness properties `Settles`, `Settled`, `Answered`,
`Subscribed`, `BadCandidateDisarmed`, `ServesAgain` and `BadBuildLeft`, since
liveness under fairness and `ENABLED` are out of the prover's reach; the four
violations; and `PendingDispatch`, whose only property is one of them. Induction
over data and `RECURSIVE` operators are out of its reach too; no module here needs
them.

## 11. Not modelled

Of the dispatcher: re-registration of a controller, which closes one dispatcher
while its calls in flight go on beside the new one's, and the query methods. Of
the update: the feed, scheduling, download and staging. Of the chip daemon: its
device store and commissioning. Of the event loop: connection events, room
syncs, seeds and persistence. The curves, colour and solar position are
floating-point and out of TLC's reach. Everything else in the table of section 1
that has no module: most of the command layer and its handlers are sequential
transformations of one shared state under one mutex, whose hazards are in the
parts above. `PROJECT.json` gives the reason for each.
