---------------------------- MODULE BinaryUpdate -----------------------------
(***************************************************************************)
(* The in-place update of the server's bundle of binaries (rhythm-server   *)
(* self_update.rs, main.rs): files are set aside and replaced one by one   *)
(* under a pending-update marker, the next starts of the server count      *)
(* against the marker, and either the new build is verified after a grace  *)
(* period or the files set aside are put back.                             *)
(*                                                                         *)
(* The startup gate, the verification thread and the updater are threads   *)
(* that stand before their next durable operation: power may be lost, or   *)
(* the process may die, between any two.  Renames take effect in order.    *)
(* The gate is part of the server binary: with no server binary there is   *)
(* nobody to consult the marker.  Targets are their positions in the       *)
(* bundle; the server comes first.                                         *)
(*                                                                         *)
(* The supervisor (systemd) starts the server again when it has exited,    *)
(* but no more than StartLimit times within its interval.                  *)
(***************************************************************************)
EXTENDS Naturals

CONSTANTS
  Size,              \* the number of install targets of a bundle
  Fresh,             \* the targets that the first installation lacks
  MaxUpdates,        \* bound on updates; version n + 1 comes with update n
  Good,              \* the versions whose server survives its grace period
  MaxAttempts,       \* MAX_PENDING_START_ATTEMPTS
  StartLimit,        \* StartLimitBurst
  MaxFaults,         \* bound on failed operations
  MaxLosses          \* bound on losses of power

Targets == 1..Size
Server == 1
Versions == 1..(MaxUpdates + 1)
None == 0
Files == [Targets -> {None} \cup Versions]

ASSUME BundleAssumption == Size \in Nat \ {0} /\ Fresh \subseteq Targets \ {Server}

ASSUME BuildAssumption ==
  /\ MaxUpdates \in Nat /\ MaxFaults \in Nat /\ MaxLosses \in Nat
  /\ 1 \in Good /\ Good \subseteq Versions
  /\ MaxAttempts \in Nat \ {0} /\ StartLimit \in Nat

Threads == {"startup", "verify", "update"}

VARIABLES
  (* the file system *)
  dest, backup,  \* target -> the version installed; the one set aside (.old)
  marker,        \* the pending-update marker, or NoMarker
  record,        \* the version of the last rollback recorded, or None
  (* the server and its supervisor *)
  running,       \* the version that runs, or None
  up,            \* "off", "gate", "serving", "graced" or "settled"
  at,            \* thread -> the place it has reached
  starts,        \* starts within the supervisor's interval
  (* observation only *)
  updates,       \* updates begun
  prev,          \* the files before the latest update
  proven,        \* versions that have served through a grace period
  unarmed,       \* the latest update has no marker, or not for itself alone
  slips,         \* start attempts that did not count
  broken,        \* files could not be put back, or were not meant to be
  faults, losses

disk == <<dest, backup, marker, record>>
process == <<running, up, at, starts>>
ghost == <<updates, prev, proven, unarmed, slips, broken>>
vars == <<disk, process, ghost, faults, losses>>

NoMarker == [attempts |-> 0, ver |-> None, found |-> {}]
Armed == marker # NoMarker

\* A place in the code: the job, its next operation, the target of a loop, and
\* the targets that existed before, as the job knows them.
Place(job, op, n, found) == [job |-> job, op |-> op, n |-> n, found |-> found]

Rest == Place("none", "none", 0, {})

To(q, op, n) == [q EXCEPT !.op = op, !.n = n]

Idle == [p \in Threads |-> Rest]

Init ==
  /\ dest = [t \in Targets |-> IF t \in Fresh THEN None ELSE 1]
  /\ backup = [t \in Targets |-> None]
  /\ marker = NoMarker /\ record = None
  /\ running = 1 /\ up = "settled" /\ at = Idle /\ starts = 0
  /\ updates = 0 /\ prev = dest /\ proven = {1}
  /\ unarmed = FALSE /\ slips = 0 /\ broken = FALSE
  /\ faults = 0 /\ losses = 0

\* The files that the latest update found: previously_existed.
Found == {t \in Targets : prev[t] # None}

-----------------------------------------------------------------------------
(* The process.                                                             *)

GoDown ==
  /\ running' = None /\ up' = "off" /\ at' = Idle

\* The supervisor starts the server again.
Start ==
  /\ up = "off"
  /\ dest[Server] # None
  /\ starts < StartLimit /\ starts' = starts + 1
  /\ running' = dest[Server] /\ up' = "gate"
  /\ UNCHANGED <<disk, at, ghost, faults, losses>>

\* Mutant: one attempt more.
ExhaustedLate == marker.attempts > MaxAttempts

\* The attempt that begins is one too many.
Exhausted == marker.attempts + 1 > MaxAttempts

\* roll_back_pending_update begins with the last target of the marker.
Rollback == Place("rollback", "drop", Size, marker.found)

\* Mutant: a build that has already served once is not counted again.
GateBeginsCountedOnce ==
  IF Armed /\ Exhausted THEN Rollback
  ELSE Place("start", IF Armed /\ marker.attempts = 0 THEN "count" ELSE "serve", 0, {})

\* startup_update_health_check.
GateBegins ==
  IF Armed /\ Exhausted THEN Rollback
  ELSE Place("start", IF Armed THEN "count" ELSE "serve", 0, {})

Gate ==
  /\ up = "gate" /\ at["startup"] = Rest
  /\ at' = [at EXCEPT !["startup"] = GateBegins]
  /\ UNCHANGED <<disk, running, up, starts, ghost, faults, losses>>

\* The compatibility scrub before a rollback fails: nothing is put back.
RollbackBlocked ==
  /\ up = "gate" /\ at["startup"] = Rest
  /\ Armed /\ Exhausted
  /\ faults < MaxFaults /\ faults' = faults + 1
  /\ slips' = slips + 1
  /\ GoDown
  /\ UNCHANGED <<disk, starts, updates, prev, proven, unarmed, broken, losses>>

\* mark_update_verified.
VerifyBegins == IF Armed THEN Place("verify", "discard", 1, marker.found) ELSE Rest

\* The process is alive when the grace period ends.
Healthy == up = "serving" /\ running \in Good

Grace ==
  /\ Healthy
  /\ up' = "graced"
  /\ at' = [at EXCEPT !["verify"] = VerifyBegins]
  /\ proven' = proven \cup {running}
  /\ UNCHANGED <<disk, running, starts, updates, prev, unarmed, slips, broken, faults, losses>>

\* A minute has passed since the start.
Settle ==
  /\ up = "graced" /\ at["verify"] = Rest
  /\ up' = "settled" /\ starts' = 0
  /\ UNCHANGED <<disk, running, at, ghost, faults, losses>>

\* A build that is no good does not survive its grace period.
Crash ==
  /\ up = "serving" /\ running \notin Good
  /\ GoDown
  /\ UNCHANGED <<disk, starts, ghost, faults, losses>>

\* Power is lost; the supervisor begins anew.
PowerLoss ==
  /\ up # "off"
  /\ losses < MaxLosses /\ losses' = losses + 1
  /\ GoDown
  /\ starts' = 0
  /\ UNCHANGED <<disk, ghost, faults>>

-----------------------------------------------------------------------------
(* apply_payload_blocking: the payload has been downloaded and staged.      *)

\* Mutant: the marker is armed once the files are in place.
CommitBeginsUnarmed == Place("commit", "backup", 1, {t \in Targets : dest[t] # None})

\* The marker is written before the first file is set aside.
CommitBegins == Place("commit", "arm", 0, {t \in Targets : dest[t] # None})

\* In the first minute of a server its verification thread, which takes any
\* marker for its own, may yet come; and a file that an earlier update set
\* aside and nobody removed is taken for a backup of this one.
Apply ==
  /\ up \in {"serving", "graced", "settled"}
  /\ at["update"] = Rest
  /\ updates < MaxUpdates /\ updates' = updates + 1
  /\ prev' = dest /\ slips' = 0
  /\ unarmed' = (up # "settled")
  /\ broken' = (broken \/ up # "settled" \/ \E t \in Targets : backup[t] # None)
  /\ at' = [at EXCEPT !["update"] = CommitBegins]
  /\ UNCHANGED <<disk, running, up, starts, proven, faults, losses>>

-----------------------------------------------------------------------------
(* The operations.                                                          *)

Target == updates + 1

\* Where a thread goes after its operation: commit_staged_targets between the
\* two writes of the marker.
CommitOnward(q) ==
  CASE q.op = "arm" -> To(q, "backup", 1)
    [] q.op = "backup" -> To(q, "install", q.n)
    [] q.op = "install" -> IF q.n < Size THEN To(q, "backup", q.n + 1) ELSE To(q, "rearm", 0)
    [] OTHER -> To(q, "restart", 0)

\* rollback_applied_targets and the marker taken back; roll_back_pending_update,
\* its record, and the exit of main.
BackOnward(q) ==
  CASE q.op = "drop" -> To(q, "restore", q.n)
    [] q.op = "restore" /\ q.n > 1 -> To(q, "drop", q.n - 1)
    [] q.op = "restore" /\ q.n = 1 -> To(q, IF q.job = "undo" THEN "disarm" ELSE "record", 0)
    [] q.op = "record" -> To(q, "disarm", 0)
    [] OTHER -> IF q.job = "undo" THEN Rest ELSE To(q, "exit", 0)

\* mark_update_verified; with no marker the files set aside are removed.
DiscardOnward(q) ==
  CASE q.op = "discard" /\ q.n < Size -> To(q, "discard", q.n + 1)
    [] q.op = "discard" /\ q.n = Size -> To(q, IF q.job = "verify" THEN "disarm" ELSE "restart", 0)
    [] q.op = "disarm" -> IF q.job = "verify" THEN To(q, "forget", 0) ELSE To(q, "discard", 1)
    [] OTHER -> Rest

Onward(q) ==
  CASE q.job = "commit" -> CommitOnward(q)
    [] q.job \in {"undo", "rollback"} -> BackOnward(q)
    [] q.job \in {"verify", "giveup"} -> DiscardOnward(q)
    [] OTHER -> IF q.op = "count" THEN To(q, "serve", 0) ELSE Rest

\* Mutant: a file is removed before its backup is looked for.
PassedOverNever(q) == FALSE

\* Mutant: a file that came with the update is left.
PassedOverFresh(q) == q.job = "rollback" /\ backup[q.n] = None

\* A rollback leaves a file with no backup: it has been put back before.
PassedOver(q) == q.job = "rollback" /\ q.n \in q.found /\ backup[q.n] = None

\* The operation at q finds a file to set aside or to put back.
Moves(q) ==
  CASE q.op = "backup" -> q.n \in q.found
    [] q.op = "restore" -> q.n \in q.found /\ backup[q.n] # None
    [] OTHER -> FALSE

Files1(q) ==
  CASE q.op = "backup" /\ Moves(q) ->
         /\ backup' = [backup EXCEPT ![q.n] = dest[q.n]]
         /\ dest' = [dest EXCEPT ![q.n] = None]
    [] q.op = "install" -> dest' = [dest EXCEPT ![q.n] = Target] /\ UNCHANGED backup
    [] q.op = "drop" /\ ~PassedOver(q) -> dest' = [dest EXCEPT ![q.n] = None] /\ UNCHANGED backup
    [] q.op = "restore" /\ Moves(q) ->
         /\ dest' = [dest EXCEPT ![q.n] = backup[q.n]]
         /\ backup' = [backup EXCEPT ![q.n] = None]
    [] q.op = "discard" /\ q.n \in q.found -> backup' = [backup EXCEPT ![q.n] = None] /\ UNCHANGED dest
    [] OTHER -> UNCHANGED <<dest, backup>>

Records1(q) ==
  /\ marker' = CASE q.op \in {"arm", "rearm"} -> [attempts |-> 0, ver |-> Target, found |-> q.found]
                 [] q.op = "count" -> [marker EXCEPT !.attempts = @ + 1]
                 [] q.op = "disarm" -> NoMarker
                 [] OTHER -> marker
  /\ record' = CASE q.op = "record" -> marker.ver
                 [] q.op = "forget" -> None
                 [] OTHER -> record

\* The next operation of thread p.
Exec(p) ==
  LET q == at[p]
  IN  /\ q # Rest
      /\ Files1(q) /\ Records1(q)
      /\ IF q.op \in {"exit", "restart"} THEN GoDown
         ELSE /\ at' = [at EXCEPT ![p] = Onward(q)]
              /\ up' = IF q.op = "serve" THEN "serving" ELSE up
              /\ UNCHANGED running
      /\ UNCHANGED <<starts, ghost, faults, losses>>

Fallible == {"arm", "rearm", "backup", "install", "count", "restore"}

\* A backup that fails ends the commit with no file put back; one that cannot
\* be installed is undone with those before it; with no marker there is no
\* way back and what was set aside is removed; errors of a restore are logged.
FailOnward(q) ==
  CASE q.op = "backup" -> Place("undo", "disarm", 0, q.found)
    [] q.op = "install" -> Place("undo", "restore", q.n, q.found)
    [] q.op = "rearm" -> Place("giveup", "disarm", 0, q.found)
    [] OTHER -> Onward(q)

\* The next operation of p fails.
OpFails(p) ==
  LET q == at[p]
  IN  /\ faults < MaxFaults /\ faults' = faults + 1
      /\ q.op \in Fallible /\ (q.op \in {"backup", "restore"} => Moves(q))
      /\ at' = [at EXCEPT ![p] = FailOnward(q)]
      /\ unarmed' = (unarmed \/ q.op \in {"arm", "rearm", "backup"})
      /\ slips' = IF q.op = "count" THEN slips + 1 ELSE slips
      /\ broken' = (broken \/ q.op \in {"backup", "restore"})
      /\ UNCHANGED <<disk, running, up, starts, updates, prev, proven, losses>>

Next ==
  \/ Start \/ Gate \/ RollbackBlocked \/ Grace \/ Settle \/ Crash \/ PowerLoss \/ Apply
  \/ \E p \in Threads : Exec(p) \/ OpFails(p)

Spec == Init /\ [][Next]_vars

(***************************************************************************)
(* Threads go on, the supervisor restarts, a good build survives and a bad *)
(* one dies.  Nothing forces an update.                                    *)
(***************************************************************************)
Fairness ==
  /\ WF_vars(Start) /\ WF_vars(Gate) /\ WF_vars(Grace) /\ WF_vars(Settle) /\ WF_vars(Crash)
  /\ \A p \in Threads : WF_vars(Exec(p))

FairSpec == Spec /\ Fairness

-----------------------------------------------------------------------------
(* Properties.                                                              *)

Jobs == {"none", "start", "commit", "undo", "giveup", "rollback", "verify"}

Ops == {"none", "arm", "backup", "install", "rearm", "restart", "drop", "restore", "disarm",
        "discard", "count", "serve", "record", "forget", "exit"}

Places == [job : Jobs, op : Ops, n : {0} \cup Targets, found : SUBSET Targets]

\* Every variable keeps its type.
TypeOK ==
  /\ dest \in Files /\ backup \in Files /\ prev \in Files
  /\ marker \in [attempts : 0..MaxAttempts, ver : {None} \cup Versions, found : SUBSET Targets]
  /\ record \in {None} \cup Versions /\ running \in {None} \cup Versions
  /\ up \in {"off", "gate", "serving", "graced", "settled"}
  /\ at \in [Threads -> Places]
  /\ starts \in 0..StartLimit /\ updates \in 0..MaxUpdates
  /\ proven \subseteq Versions /\ unarmed \in BOOLEAN /\ broken \in BOOLEAN
  /\ slips \in 0..MaxFaults /\ faults \in 0..MaxFaults /\ losses \in 0..MaxLosses

\* An installed server that has never served through its grace period can be
\* undone: the marker is there and the binary set aside is a proven one,
\* unless the marker could not be written, a file could not be set aside or
\* the old server was in its first minute (write_pending_update_marker).
WayBack ==
  dest[Server] \notin proven \cup {None} /\ ~unarmed /\ ~broken => Armed /\ backup[Server] \in proven

\* While an update is pending, every file it found is still there, installed
\* or set aside, through any failure or loss of power, until a build of the
\* bundle has proved itself (commit_staged_targets, roll_back_pending_update).
NothingLost ==
  Armed /\ ~broken /\ marker.ver \notin proven =>
    \A t \in Found : prev[t] \in {dest[t], backup[t]}

\* A rollback about to be recorded has put every file back, except for an
\* update that was being verified when power was lost: some of its backups
\* are gone (mark_update_verified_at).
RollbackWhole ==
  (\E p \in Threads : at[p].op = "record") /\ ~broken
  /\ marker.ver \notin proven
    => \A t \in Targets : dest[t] = prev[t]

\* A commit that fails to install a file has put every file back.
FailureUndone ==
  at["update"].job = "undo" /\ at["update"].op = "disarm" /\ ~broken => \A t \in Targets : dest[t] = prev[t]

\* An update is undone as a whole or not at all: by a rollback, also one that
\* was interrupted and begun again by the restored server, and by a commit
\* that fails half-way (record_bundle_rollback_at, commit_staged_targets).
UndoneWhole == RollbackWhole /\ FailureUndone

\* A power loss has come between setting the server aside and installing the
\* new one: there is nothing to start.
NoServer == up = "off" /\ dest[Server] = None

GivenUp == up = "off" /\ starts = StartLimit

\* A build that cannot survive is replaced by one that does, within the
\* starts the supervisor allows, unless an attempt did not count or no server
\* is left (MAX_PENDING_START_ATTEMPTS, StartLimitBurst).
BadBuildLeft ==
  (up = "serving" /\ running \notin Good /\ Armed) ~>
    \/ up = "graced"
    \/ NoServer \/ broken
    \/ GivenUp /\ slips > 0
=============================================================================
