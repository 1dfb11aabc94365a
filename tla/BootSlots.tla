------------------------------ MODULE BootSlots ------------------------------
(***************************************************************************)
(* The appliance's A/B root filesystem slots: the image update of          *)
(* rhythm-server (self_update.rs), the boot script S41bootstate with its   *)
(* start, success and fail entry points, and rhythm-launch, which runs the *)
(* server and asks for a rollback when it exits.                           *)
(*                                                                         *)
(* Every script run, and the update thread, is a plan: the sequence of     *)
(* durable operations it has decided on, each one step.  A plan is fixed   *)
(* when the bootstate is loaded, exactly as the scripts load it once; so   *)
(* whatever another process writes in between is overwritten, and a power  *)
(* loss may strike between any two operations.                             *)
(*                                                                         *)
(* The boot partition is VFAT.  A power loss during the replacement of a   *)
(* bootstate file may leave that file unreadable (its hash does not match  *)
(* or it is gone); the replacement of cmdline.txt is taken to be atomic.   *)
(***************************************************************************)
EXTENDS Naturals, FiniteSets, Sequences, SequencesExt

CONSTANTS
  Versions,           \* releases of the image
  Good,               \* the releases whose server becomes healthy
  Factory,            \* the release of the factory image
  Migrating,          \* the releases whose boot script migrates config.txt
  None,               \* an empty bootstate field
  Bad,                \* an unreadable bootstate file
  ApplyWhilePending,  \* an update may be asked for while an earlier one is
                      \* waiting for its reboot or for its proof
  MaxMigrationReboots,\* BLUETOOTH_UART_MAX_REBOOTS
  MaxTears,           \* bound on files torn by power losses
  MaxFaults           \* bound on power losses and failed operations

ASSUME ReleaseAssumption ==
  /\ Factory \in Good
  /\ Good \subseteq Versions
  /\ Migrating \subseteq Versions
  /\ None \notin Versions \cup {"a", "b"}

ASSUME BoundAssumption ==
  /\ ApplyWhilePending \in BOOLEAN
  /\ MaxMigrationReboots \in Nat
  /\ MaxTears \in Nat
  /\ MaxFaults \in Nat

Slots == {"a", "b"}

Inactive(s) == IF s = "a" THEN "b" ELSE "a"

Procs == {"boot", "success", "fail", "update"}

VARIABLES
  (* the boot partition and /data *)
  primary, backup,   \* the two copies of the bootstate file
  mirror,            \* LAST_ROLLBACK_VERSION of the copy on /data
  cmdline,           \* the slot cmdline.txt names
  image,             \* slot -> [ver, whole], the root filesystem in it
  config,            \* config.txt: "legacy", "fixed" or "missing"
  uartPending,       \* the candidate that migrated config.txt, or None
  uartReboots,       \* migration reboots recorded on /data
  (* the running system *)
  running,           \* the slot booted from, or "off"
  latch,             \* /run/rhythm-rollback-required exists
  srv,               \* "off", "up", "exited" or "failing"
  plan,              \* process -> the operations it has still to do
  (* observation only *)
  proven,            \* slots whose image was healthy when it last had to be
  uartOwed,          \* the slot on trial that changed config.txt and has
                     \* neither been accepted nor given it back, or None
  unmarked,          \* the last write of the migration's marker failed
  tears, faults

disk == <<primary, backup, mirror, cmdline, image, config, uartPending, uartReboots>>
system == <<running, latch, srv, plan>>
ghost == <<proven, uartOwed, unmarked, tears, faults>>
vars == <<disk, system, ghost>>

-----------------------------------------------------------------------------
(* The bootstate.  Fields nothing decides on (active slot, versions for     *)
(* reporting, time stamps) are left out.                                    *)

State(status, lastGood, pending, ver, rolled) ==
  [status |-> status, lastGood |-> lastGood, pending |-> pending, ver |-> ver, rolled |-> rolled]

Statuses == {"idle", "pending", "booting", "rollback_required"}

BootState == [status : Statuses, lastGood : Slots \cup {None}, pending : Slots \cup {None},
              ver : Versions \cup {None}, rolled : Versions \cup {None}]

Candidate == [slot : Slots, ver : Versions \cup {None}]

ASSUME FileAssumption == Bad \notin BootState

\* load_state: the primary copy, else the backup, else the defaults.
Loaded == IF primary # Bad THEN primary
          ELSE IF backup # Bad THEN backup
          ELSE State("idle", None, None, None, None)

MigrateOps == {"uart_mark", "uart_config", "uart_reboot"}

UartOps == MigrateOps \cup {"uart_restore", "uart_commit"}

\* The boot script comes with the image: an older release's knows nothing of
\* the UART migration.
Uart(s, ops) == IF image[s].ver \in Migrating THEN ops ELSE <<>>

\* One operation of a plan: write st, or point at slot, or mark candidate.
Op(op, st, slot) == [op |-> op, st |-> st, slot |-> slot]
Do(op) == Op(op, None, None)

\* write_with_backup and write_state: the backup copy first.
WriteBoth(st) == <<Op("backup", st, None), Op("primary", st, None)>>

\* write_state; mirror_state.
SaveState(st) == WriteBoth(st) \o <<Op("mirror", st, None)>>

\* Mutant: the boot configuration is given back after the switch.
RollbackPlanRestoresLast(s, st) ==
  IF st.lastGood \in {None, s} THEN <<>>
  ELSE <<Do("latch")>>
       \o SaveState([st EXCEPT !.status = "rollback_required"])
       \o <<Do("hue"), Do("scrub"), Op("cmdline", None, st.lastGood)>>
       \o Uart(s, <<Op("uart_restore", [slot |-> s, ver |-> st.ver], None), Do("uart_commit")>>)
       \o SaveState(State("idle", st.lastGood, None, None, st.ver))
       \o <<Do("reboot")>>

\* Mutant: a rollback that has been armed once is not tried again.
RollbackPlanOnce(s, st) ==
  IF st.lastGood \in {None, s} \/ st.status = "rollback_required" THEN <<>>
  ELSE <<Do("latch")>>
       \o SaveState([st EXCEPT !.status = "rollback_required"])
       \o <<Do("hue"), Op("cmdline", None, st.lastGood)>>
       \o SaveState(State("idle", st.lastGood, None, None, st.ver)) \o <<Do("reboot")>>

\* rollback_pending_boot.
RollbackPlan(s, st) ==
  IF st.lastGood \in {None, s} THEN <<>>
  ELSE <<Do("latch")>>
       \o SaveState([st EXCEPT !.status = "rollback_required"])
       \o <<Do("hue"), Do("scrub")>>
       \o Uart(s, <<Op("uart_restore", [slot |-> s, ver |-> st.ver], None), Do("uart_commit")>>)
       \o <<Op("cmdline", None, st.lastGood)>>
       \o SaveState(State("idle", st.lastGood, None, None, st.ver))
       \o <<Do("reboot")>>

\* migrate_bluetooth_uart and the reboot after it, when config.txt asks for
\* them; the candidate is recorded first when the slot is on probation.
MigratePlan(s, st) ==
  IF config = "fixed" THEN <<>>
  ELSE Uart(s, (IF st.pending = s THEN <<Op("uart_mark", [slot |-> s, ver |-> st.ver], None)>> ELSE <<>>)
               \o <<Do("uart_config"), Do("uart_reboot")>>)

\* This boot is the second one of a candidate, or a rollback is owed.
TrialFailed(s, st) == st.pending = s /\ st.status \in {"booting", "rollback_required"}

\* S41bootstate start.
StartPlan(s, st) ==
  IF TrialFailed(s, st)
  THEN RollbackPlan(s, st)
  ELSE MigratePlan(s, st)
       \o IF st.pending = s
          THEN SaveState([st EXCEPT !.status = "booting",
                                    !.lastGood = IF @ = None THEN s ELSE @])
          ELSE SaveState(State("idle", s, None, None, st.rolled)) \o Uart(s, <<Do("uart_commit")>>)

\* Mutant: every boot starts the count of migration reboots afresh.
RebootsAfresh(s, st) == 0

\* The count of migration reboots after start: cleared once config.txt needs
\* no migration.
RebootsLeft(s, st) ==
  IF config = "fixed" /\ ~TrialFailed(s, st) /\ image[s].ver \in Migrating THEN 0 ELSE uartReboots

\* S41bootstate success, once it has accepted the candidate.
SuccessPlan(s, st) ==
  SaveState(State("idle", s, None, None, st.rolled)) \o Uart(s, <<Do("uart_commit")>>)

\* Mutant: cmdline.txt is switched before the marker is durable.
UpdatePlanSwitchesFirst(s, v) ==
  <<Op("erase", None, Inactive(s)), Op("flash", [slot |-> Inactive(s), ver |-> v], None),
    Op("cmdline", None, Inactive(s))>>
  \o WriteBoth(State("pending", s, Inactive(s), v, None))
  \o <<Do("reboot")>>

\* apply_appliance_image_blocking and the restart after it.
UpdatePlan(s, v) ==
  <<Op("erase", None, Inactive(s)), Op("flash", [slot |-> Inactive(s), ver |-> v], None)>>
  \o WriteBoth(State("pending", s, Inactive(s), v, None))
  \o <<Op("cmdline", None, Inactive(s)), Do("reboot")>>

NoPlans == [p \in Procs |-> <<>>]

FactoryState == State("idle", "a", None, None, None)

\* A fresh card: post-image.sh writes no backup copy.
Init ==
  /\ primary = FactoryState /\ backup = Bad /\ mirror = None
  /\ cmdline = "a"
  /\ image = [s \in Slots |-> [ver |-> Factory, whole |-> s = "a"]]
  /\ config \in {"legacy", "fixed"}
  /\ uartPending = None /\ uartReboots = 0
  /\ running = "off" /\ latch = FALSE /\ srv = "off" /\ plan = NoPlans
  /\ proven = {"a"} /\ uartOwed = None /\ unmarked = FALSE /\ tears = 0 /\ faults = 0

-----------------------------------------------------------------------------
(* Booting, and the life of the server under rhythm-launch.                 *)

\* Firmware and kernel boot the slot of cmdline.txt; S41bootstate start.
PowerOn ==
  /\ running = "off"
  /\ image[cmdline].whole
  /\ running' = cmdline
  /\ plan' = [plan EXCEPT !["boot"] = StartPlan(cmdline, Loaded)]
  /\ uartReboots' = RebootsLeft(cmdline, Loaded)
  /\ UNCHANGED <<primary, backup, mirror, cmdline, image, config, uartPending, latch, srv, ghost>>

\* init runs rhythm-launch once rcS is done, whatever S41bootstate returned.
Launch ==
  /\ running # "off" /\ srv = "off"
  /\ plan["boot"] = <<>>
  /\ srv' = "up"
  /\ UNCHANGED <<disk, running, latch, plan, ghost>>

Healthy == image[running].ver \in Good

\* boot_success_health is ready: S41bootstate success takes the candidate.
MarkSuccess ==
  LET st == Loaded
  IN /\ srv = "up" /\ Healthy
     /\ plan["success"] = <<>>
     /\ ~latch /\ st.status # "rollback_required"
     /\ st.pending = running
     /\ st.ver \in {None, image[running].ver}
     /\ plan' = [plan EXCEPT !["success"] = SuccessPlan(running, st)]
     /\ proven' = proven \cup {running}
     /\ uartOwed' = None
     /\ UNCHANGED <<disk, running, latch, srv, unmarked, tears, faults>>

\* It refuses: the server exits so that the supervisor requests a rollback.
RefuseSuccess ==
  LET st == Loaded
  IN /\ srv = "up" /\ Healthy
     /\ plan["success"] = <<>>
     /\ \/ latch \/ st.status = "rollback_required"
        \/ st.pending = running /\ st.ver \notin {None, image[running].ver}
     /\ srv' = "exited"
     /\ plan' = [plan EXCEPT !["update"] = <<>>]
     /\ UNCHANGED <<disk, running, latch, ghost>>

\* The server exits: a crash, a restart, or a health check that timed out.
\* Its update thread dies with it; a success script it has started does not.
ServerExit ==
  /\ srv = "up"
  /\ srv' = "exited"
  /\ plan' = [plan EXCEPT !["update"] = <<>>]
  /\ UNCHANGED <<disk, running, latch, ghost>>

\* rhythm-launch: S41bootstate fail.
FailBegin ==
  /\ srv = "exited"
  /\ srv' = "failing"
  /\ plan' = [plan EXCEPT !["fail"] =
       IF Loaded.pending = running THEN RollbackPlan(running, Loaded) ELSE <<>>]
  /\ UNCHANGED <<disk, running, latch, ghost>>

\* rhythm-launch has exited and init starts it again.
Respawn ==
  /\ srv = "failing"
  /\ plan["fail"] = <<>>
  /\ srv' = "up"
  /\ UNCHANGED <<disk, running, latch, plan, ghost>>

\* Nothing of an earlier update is left to be decided.
Settled == Loaded.pending = None /\ cmdline = running

\* begin_operation hands out one lease, kept until the restart.
BeginUpdate(v) ==
  /\ srv = "up"
  /\ plan["update"] = <<>>
  /\ v # image[running].ver
  /\ ApplyWhilePending \/ Settled
  /\ plan' = [plan EXCEPT !["update"] = UpdatePlan(running, v)]
  /\ UNCHANGED <<disk, running, latch, srv, ghost>>

\* attempt_update skips the version this appliance has just rolled back;
\* POST /api/ota/update does not.
AutoUpdate(v) == mirror # v /\ BeginUpdate(v)
ManualUpdate(v) == BeginUpdate(v)

-----------------------------------------------------------------------------
(* The operations of a plan.                                                *)

Up(p, op) == plan[p] # <<>> /\ Head(plan[p]).op = op
Done(p) == plan' = [plan EXCEPT ![p] = Tail(@)]

WriteBackup(p) ==
  /\ Up(p, "backup")
  /\ backup' = Head(plan[p]).st
  /\ Done(p)
  /\ UNCHANGED <<primary, mirror, cmdline, image, config, uartPending, uartReboots,
                 running, latch, srv, ghost>>

WritePrimary(p) ==
  /\ Up(p, "primary")
  /\ primary' = Head(plan[p]).st
  /\ Done(p)
  /\ UNCHANGED <<backup, mirror, cmdline, image, config, uartPending, uartReboots,
                 running, latch, srv, ghost>>

\* mirror_state copies the primary file, whoever wrote it last.
Mirror(p) ==
  /\ Up(p, "mirror")
  /\ mirror' = Loaded.rolled
  /\ Done(p)
  /\ UNCHANGED <<primary, backup, cmdline, image, config, uartPending, uartReboots,
                 running, latch, srv, ghost>>

Latch(p) ==
  /\ Up(p, "latch")
  /\ latch' = TRUE
  /\ Done(p)
  /\ UNCHANGED <<disk, running, srv, ghost>>

\* restore_hue_before_rollback, scrub_local_ble_rollback_state: what they do
\* to the bridge and to /data is not modelled, that they may fail is.
Prepare(p) ==
  /\ Up(p, "hue") \/ Up(p, "scrub")
  /\ Done(p)
  /\ UNCHANGED <<disk, running, latch, srv, ghost>>

\* restore_bluetooth_uart_before_rollback undoes this candidate's change.
UartRestore(p) ==
  /\ Up(p, "uart_restore")
  /\ IF uartPending = Head(plan[p]).st
     THEN config' = "legacy" /\ uartReboots' = 0 /\ uartOwed' = None
     ELSE UNCHANGED <<config, uartReboots, uartOwed>>
  /\ Done(p)
  /\ UNCHANGED <<primary, backup, mirror, cmdline, image, uartPending, running, latch, srv,
                 proven, unmarked, tears, faults>>

\* commit_bluetooth_uart_migration: forget the marker.
UartCommit(p) ==
  /\ Up(p, "uart_commit")
  /\ uartPending' = None
  /\ Done(p)
  /\ UNCHANGED <<primary, backup, mirror, cmdline, image, config, uartReboots,
                 running, latch, srv, ghost>>

\* rewrite_cmdline_slot, rewrite_cmdline_file.
RewriteCmdline(p) ==
  /\ Up(p, "cmdline")
  /\ cmdline' = Head(plan[p]).slot
  /\ Done(p)
  /\ UNCHANGED <<primary, backup, mirror, image, config, uartPending, uartReboots,
                 running, latch, srv, ghost>>

\* stream_image_artifact_to_device starts to overwrite the slot ...
Erase(p) ==
  /\ Up(p, "erase")
  /\ image' = [image EXCEPT ![Head(plan[p]).slot].whole = FALSE]
  /\ proven' = proven \ {Head(plan[p]).slot}
  /\ Done(p)
  /\ UNCHANGED <<primary, backup, mirror, cmdline, config, uartPending, uartReboots,
                 running, latch, srv, uartOwed, unmarked, tears, faults>>

\* ... and has written, verified and customized all of it.
Flash(p) ==
  /\ Up(p, "flash")
  /\ image' = [image EXCEPT ![Head(plan[p]).st.slot] = [ver |-> Head(plan[p]).st.ver, whole |-> TRUE]]
  /\ Done(p)
  /\ UNCHANGED <<primary, backup, mirror, cmdline, config, uartPending, uartReboots,
                 running, latch, srv, ghost>>

\* migrate_bluetooth_uart keeps a copy of config.txt, writes the marker ...
UartMark(p) ==
  /\ Up(p, "uart_mark")
  /\ uartPending' = Head(plan[p]).st /\ unmarked' = FALSE
  /\ Done(p)
  /\ UNCHANGED <<primary, backup, mirror, cmdline, image, config, uartReboots,
                 running, latch, srv, proven, uartOwed, tears, faults>>

\* ... and replaces config.txt.
UartConfig(p) ==
  /\ Up(p, "uart_config")
  /\ config' = "fixed"
  /\ uartOwed' = IF Loaded.pending = running /\ ~unmarked THEN running ELSE uartOwed
  /\ Done(p)
  /\ UNCHANGED <<primary, backup, mirror, cmdline, image, uartPending, uartReboots,
                 running, latch, srv, proven, unmarked, tears, faults>>

\* The machine goes down: processes and /run are gone.
GoDown ==
  /\ running' = "off" /\ latch' = FALSE /\ srv' = "off" /\ plan' = NoPlans

\* Mutant: no limit on migration reboots.
MayRebootAlways == TRUE

MayReboot == uartReboots < MaxMigrationReboots

\* record_bluetooth_uart_reboot and force_reboot_cleanly.  The boot
\* partition may silently fail to keep the rewritten config.txt.
UartReboot(p) ==
  /\ Up(p, "uart_reboot")
  /\ IF MayReboot
     THEN /\ GoDown
          /\ uartReboots' = uartReboots + 1
          /\ config' \in {"fixed", "legacy"}
     ELSE Done(p) /\ UNCHANGED <<running, latch, srv, uartReboots, config>>
  /\ UNCHANGED <<primary, backup, mirror, cmdline, image, uartPending, ghost>>

Reboot(p) ==
  /\ Up(p, "reboot")
  /\ GoDown
  /\ UNCHANGED <<disk, ghost>>

Exec(p) ==
  \/ WriteBackup(p) \/ WritePrimary(p) \/ Mirror(p) \/ Latch(p) \/ Prepare(p)
  \/ UartRestore(p) \/ UartCommit(p) \/ RewriteCmdline(p) \/ Erase(p) \/ Flash(p)
  \/ UartMark(p) \/ UartConfig(p) \/ UartReboot(p) \/ Reboot(p)

-----------------------------------------------------------------------------
(* Faults.                                                                  *)

Fault == faults < MaxFaults /\ faults' = faults + 1

Tolerated(o) == o.op \in UartOps

\* How many operations a failed one on the UART configuration gives up: itself
\* and the rest of the migration, or of its undoing.  What fails noticeably
\* before the marker is written is the copy of config.txt.
GivenUp(o) == CASE o.op = "uart_mark" -> 3
                [] o.op \in {"uart_config", "uart_restore"} -> 2
                [] OTHER -> 1

\* Mutant: an image whose checksum does not match is switched to all the same.
AfterFailureGoesOn(p) == Tail(plan[p])

\* What is left to do after the next operation of p has failed: the scripts
\* run under set -e and stop, but never because of the UART migration; an
\* update that cannot switch cmdline.txt takes its marker back.
AfterFailure(p) ==
  IF Tolerated(Head(plan[p]))
  THEN SubSeq(plan[p], GivenUp(Head(plan[p])) + 1, Len(plan[p]))
  ELSE IF p = "update" /\ Head(plan[p]).op = "cmdline"
  THEN WriteBoth(State("idle", running, None, None, None))
  ELSE <<>>

Fallible ==
  {"backup", "primary", "mirror", "hue", "scrub", "cmdline", "flash"} \cup (UartOps \ {"uart_reboot"})

\* An operation fails, and the failure is noticed.
OpFails(p) ==
  /\ Fault
  /\ plan[p] # <<>> /\ Head(plan[p]).op \in Fallible
  /\ plan' = [q \in Procs |->
       IF q = p THEN AfterFailure(p)
       ELSE IF q = "update" /\ p = "success" /\ ~Tolerated(Head(plan[p])) THEN <<>>
       ELSE plan[q]]
  /\ srv' = IF p = "success" /\ srv = "up" /\ ~Tolerated(Head(plan[p])) THEN "exited" ELSE srv
  /\ uartOwed' = IF Head(plan[p]).op = "uart_restore" THEN None ELSE uartOwed
  /\ UNCHANGED <<disk, running, latch, proven, unmarked, tears>>

\* atomic_write_text of the marker fails.  Its caller tests the result, which
\* switches set -e off, and the result is that of the last sync: nobody
\* notices, the old marker stays or an unreadable one is there, and the
\* migration goes on.
UartMarkLost(p) ==
  /\ Fault
  /\ Up(p, "uart_mark")
  /\ uartPending' \in {uartPending, None}
  /\ unmarked' = TRUE /\ uartOwed' = IF uartPending' = uartPending THEN uartOwed ELSE None
  /\ Done(p)
  /\ UNCHANGED <<primary, backup, mirror, cmdline, image, config, uartReboots,
                 running, latch, srv, proven, tears>>

\* The same with the count of reboots: the old one stays, or one that reads
\* as none, and the machine goes down; or it is the reboot that fails.
UartRebootFails(p) ==
  /\ Fault
  /\ Up(p, "uart_reboot") /\ MayReboot
  /\ \/ GoDown /\ uartReboots' \in {uartReboots, 0} /\ config' \in {"fixed", "legacy"}
     \/ Done(p) /\ uartReboots' = uartReboots + 1 /\ UNCHANGED <<running, latch, srv, config>>
  /\ UNCHANGED <<primary, backup, mirror, cmdline, image, uartPending, proven, uartOwed, unmarked, tears>>

\* The files whose replacement is under way.
Exposed == {Head(plan[p]).op : p \in {q \in Procs : plan[q] # <<>>}}

\* config.txt is being replaced, by the migration or by its undoing.
ConfigExposed == \E p \in Procs :
  \/ Up(p, "uart_config")
  \/ Up(p, "uart_restore") /\ uartPending = Head(plan[p]).st

\* Power is lost; of the bootstate files being replaced one may be torn, and
\* config.txt may be lost.
PowerLoss ==
  /\ running # "off"
  /\ Fault
  /\ GoDown
  /\ \E torn \in {{}} \cup {{f} : f \in Exposed \cap {"backup", "primary"}} :
       /\ tears + Cardinality(torn) <= MaxTears
       /\ tears' = tears + Cardinality(torn)
       /\ backup' = IF "backup" \in torn THEN Bad ELSE backup
       /\ primary' = IF "primary" \in torn THEN Bad ELSE primary
  /\ config' \in {config} \cup (IF ConfigExposed THEN {"missing"} ELSE {})
  /\ UNCHANGED <<mirror, cmdline, image, uartPending, uartReboots, proven, uartOwed,
                 unmarked>>

Next ==
  \/ PowerOn \/ Launch \/ MarkSuccess \/ RefuseSuccess \/ ServerExit \/ FailBegin \/ Respawn
  \/ \E v \in Versions : AutoUpdate(v) \/ ManualUpdate(v)
  \/ \E p \in Procs : Exec(p) \/ OpFails(p) \/ UartMarkLost(p) \/ UartRebootFails(p)
  \/ PowerLoss

(***************************************************************************)
(* Scripts and threads run to their end; init respawns; the marker thread  *)
(* makes a server that never becomes healthy exit.  Faults are finitely    *)
(* many.  Nothing forces an update, nor the exit of a healthy server.      *)
(***************************************************************************)
Fairness ==
  /\ WF_vars(PowerOn) /\ WF_vars(Launch) /\ WF_vars(FailBegin) /\ WF_vars(Respawn)
  /\ WF_vars(MarkSuccess) /\ WF_vars(RefuseSuccess)
  /\ WF_vars(ServerExit /\ ~Healthy)
  /\ \A p \in Procs : WF_vars(Exec(p))

Spec == Init /\ [][Next]_vars

FairSpec == Spec /\ Fairness

-----------------------------------------------------------------------------
(* Properties.                                                              *)

Ops == {"backup", "primary", "mirror", "latch", "hue", "scrub", "cmdline", "erase", "flash",
        "reboot"} \cup UartOps

\* Every variable keeps its type.
TypeOK ==
  /\ primary \in BootState \cup {Bad} /\ backup \in BootState \cup {Bad}
  /\ mirror \in Versions \cup {None}
  /\ cmdline \in Slots
  /\ image \in [Slots -> [ver : Versions, whole : BOOLEAN]]
  /\ config \in {"legacy", "fixed", "missing"}
  /\ uartPending \in Candidate \cup {None}
  /\ uartReboots \in 0..MaxMigrationReboots
  /\ running \in Slots \cup {"off"} /\ latch \in BOOLEAN
  /\ srv \in {"off", "up", "exited", "failing"}
  /\ DOMAIN plan = Procs
  /\ \A p \in Procs : \A i \in DOMAIN plan[p] : plan[p][i].op \in Ops
  /\ proven \subseteq Slots /\ uartOwed \in Slots \cup {None} /\ unmarked \in BOOLEAN

\* At least one copy of the bootstate is readable.
OneCopyReadable == primary # Bad \/ backup # Bad

\* The way back is always on disk: a bootstate copy is readable, and the slot
\* the machine boots next is proven, or the bootstate names it as the candidate on trial and names a
\* proven slot to return to.  Any power loss, failed write or server exit
\* may come between two operations.
WayBack ==
  /\ OneCopyReadable
  /\ \/ cmdline \in proven
     \/ Loaded.pending = cmdline /\ Loaded.lastGood \in proven

\* cmdline.txt never names a slot whose image is only partly written.
CmdlineBootable == image[cmdline].whole

\* The boot configuration a candidate has changed is given back before the
\* machine is pointed away from it, across any number of boots and failures,
\* unless the candidate was accepted, the giving back itself failed, or the
\* marker could not be written, which migrate_bluetooth_uart does not notice.
UartGivenBack == uartOwed # None => cmdline = uartOwed

\* A candidate whose server never becomes healthy does not stay the slot to
\* boot: after finitely many faults the machine is pointed at a proven one.
BadCandidateDisarmed ==
  (running # "off" /\ ~Healthy) ~> (cmdline \in proven)

\* What the image documentation says: a trial boot whose server exits before
\* it is marked healthy rolls back, so a bad candidate is left for good.
BadCandidateLeft ==
  (running # "off" /\ ~Healthy) ~> (running # "off" /\ Healthy)

\* However the boot partition behaves, the appliance gets to run its server
\* again and again.
ServesAgain == []<>(srv = "up")
=============================================================================
