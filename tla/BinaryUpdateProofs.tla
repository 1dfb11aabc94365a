------------------------- MODULE BinaryUpdateProofs -------------------------
(***************************************************************************)
(* The inductive invariant IInv of BinaryUpdate and what follows from it,  *)
(* for every size of the bundle, every bound, and whichever builds are     *)
(* good.                                                                   *)
(*                                                                         *)
(* Of a file that an update has reached IInv says which of three shapes it *)
(* has: as it was, set aside, or replaced.  The loops of the commit, of    *)
(* its undoing and of a rollback are described by the shapes on either     *)
(* side of the target they have come to.  What a loss of power leaves is   *)
(* weaker: any shape for any file, but with the server as it was every     *)
(* file is as it was, because the server is the first to be replaced and   *)
(* the last to be put back.                                                *)
(***************************************************************************)
EXTENDS BinaryUpdate, TLAPS

(***************************************************************************)
(* Where a thread may stand.                                               *)
(***************************************************************************)
OnStart(q) == q.job = "start" /\ q.op \in {"count", "serve"}

OnRollback(q) ==
  /\ q.job = "rollback"
  /\ q.op \in {"record", "disarm", "exit"} \/ (q.op \in {"drop", "restore"} /\ q.n \in Targets)

OnVerify(q) ==
  /\ q.job = "verify"
  /\ q.op \in {"disarm", "forget"} \/ (q.op = "discard" /\ q.n \in Targets)

OnCommit(q) ==
  /\ q.job = "commit"
  /\ q.op \in {"arm", "rearm", "restart"} \/ (q.op \in {"backup", "install"} /\ q.n \in Targets)

OnUndo(q) ==
  /\ q.job = "undo"
  /\ q.op = "disarm" \/ (q.op \in {"drop", "restore"} /\ q.n \in Targets)

OnGiveUp(q) ==
  /\ q.job = "giveup"
  /\ q.op \in {"disarm", "restart"} \/ (q.op = "discard" /\ q.n \in Targets)

Placed(p, q) ==
  CASE p = "startup" -> OnStart(q) \/ OnRollback(q)
    [] p = "verify" -> OnVerify(q)
    [] OTHER -> OnCommit(q) \/ OnUndo(q) \/ OnGiveUp(q)

(***************************************************************************)
(* The threads are where they may be, at a time when they may: the gate    *)
(* before the server serves, the verification in its grace period.  An     *)
(* attempt is counted only if one is left.                                 *)
(***************************************************************************)
PlaceInv ==
  /\ \A p \in Threads : at[p] = Rest \/ Placed(p, at[p])
  /\ at["startup"] # Rest => up = "gate"
  /\ at["verify"] # Rest => up = "graced"
  /\ at["update"] # Rest => up \in {"serving", "graced", "settled"}
  /\ at["startup"].op = "count" => ~Exhausted
  /\ slips <= faults

TInv == TypeOK /\ PlaceInv

-----------------------------------------------------------------------------
(* The files of an update.                                                  *)

\* Target t is as the update found it, set aside, or replaced.
Kept(t) == dest[t] = prev[t] /\ backup[t] = None
Aside(t) == dest[t] = None /\ backup[t] = prev[t]
Replaced(t) == dest[t] = Target /\ backup[t] = prev[t]

Shape(t) == Kept(t) \/ Aside(t) \/ Replaced(t)

AllKept == \A t \in Targets : Kept(t)

Doubtful == Target \notin proven

\* A marker speaks of the latest update, and so does whoever has read it.
MarkInv ==
  /\ Armed => marker.ver = Target /\ marker.found = Found
  /\ \A p \in Threads : at[p].job \in {"commit", "undo", "giveup", "rollback", "verify"} => at[p].found = Found

\* When there is a marker, and when there is none.
ArmInv ==
  /\ at["startup"].job = "rollback" /\ at["startup"].op # "exit" => Armed
  /\ at["startup"].op = "count" => Armed
  /\ at["verify"].op \in {"discard", "disarm"} => Armed
  /\ up = "graced" /\ at["verify"].op \notin {"discard", "disarm"} => ~Armed
  /\ at["update"] # Rest => up = "settled"
  /\ up = "settled" /\ at["update"] = Rest => ~Armed
  /\ at["update"].op = "arm" => ~Armed
  /\ at["update"] # Rest /\ at["update"].op # "arm" /\ ~unarmed => Armed
  /\ at["update"].job = "giveup" /\ at["update"].op # "disarm" => ~Armed

\* The server is the old one, the new one, or between the two; who has served
\* through a grace period is the one that is installed.
ServerInv ==
  /\ prev[Server] \in proven
  /\ dest[Server] \in {None, prev[Server], Target}
  /\ backup[Server] \in {None, prev[Server]}
  /\ up \in {"serving", "graced"} => running = dest[Server]
  /\ up = "gate" /\ at["startup"].job # "rollback" => running = dest[Server]
  /\ up = "graced" => dest[Server] \in proven
  /\ up = "settled" /\ at["update"] = Rest => dest[Server] \in proven

\* What power loss leaves: with a marker every file can be put back, and the
\* server is put back last.
FileInv ==
  /\ Doubtful /\ Armed => (\A t \in Targets : Shape(t)) /\ (Kept(Server) => AllKept)
  /\ Doubtful /\ ~Armed /\ ~unarmed => AllKept

\* How far the updater has come.
CommitInv ==
  LET q == at["update"]
  IN  /\ q.job = "commit" /\ q.op = "arm" => AllKept
      /\ q.job = "commit" /\ q.op = "backup" =>
           \A t \in Targets : IF t < q.n THEN Replaced(t) ELSE Kept(t)
      /\ q.job \in {"commit", "undo"} /\ q.op \in {"install", "restore"} =>
           \A t \in Targets : IF t < q.n THEN Replaced(t) ELSE IF t = q.n THEN Aside(t) ELSE Kept(t)
      /\ q.job = "commit" /\ q.op \in {"rearm", "restart"} => \A t \in Targets : Replaced(t)
      /\ q.job = "undo" /\ q.op = "drop" =>
           \A t \in Targets : IF t <= q.n THEN Replaced(t) ELSE Kept(t)
      /\ q.job = "undo" /\ q.op = "disarm" => AllKept
      /\ q.job = "giveup" => unarmed

\* How far a rollback has come.
RollbackInv ==
  LET q == at["startup"]
  IN  q.job = "rollback" /\ Doubtful =>
        /\ q.op \in {"drop", "restore"} => \A t \in Targets : t > q.n => Kept(t)
        /\ q.op = "restore" => Aside(q.n) \/ Kept(q.n)
        /\ q.op \in {"record", "disarm"} => AllKept

Sound == MarkInv /\ ArmInv /\ ServerInv /\ FileInv /\ CommitInv /\ RollbackInv

(***************************************************************************)
(* The inductive invariant.                                                *)
(***************************************************************************)
IInv == TInv /\ (~broken => Sound)

-----------------------------------------------------------------------------
(* Where the threads go.                                                    *)

CommitWent(q, r) ==
  /\ r.job = "commit" /\ r.found = q.found
  /\ \/ q.op = "arm" /\ r.op = "backup" /\ r.n = 1
     \/ q.op = "backup" /\ r.op = "install" /\ r.n = q.n
     \/ q.op = "install" /\ q.n < Size /\ r.op = "backup" /\ r.n = q.n + 1
     \/ q.op = "install" /\ q.n = Size /\ r.op = "rearm"
     \/ q.op = "rearm" /\ r.op = "restart"

UndoWent(q, r) ==
  \/ q.op = "disarm" /\ r = Rest
  \/ /\ r.job = "undo" /\ r.found = q.found
     /\ \/ q.op = "drop" /\ r.op = "restore" /\ r.n = q.n
        \/ q.op = "restore" /\ q.n > 1 /\ r.op = "drop" /\ r.n = q.n - 1
        \/ q.op = "restore" /\ q.n = 1 /\ r.op = "disarm"

GiveUpWent(q, r) ==
  /\ r.job = "giveup" /\ r.found = q.found
  /\ \/ q.op = "disarm" /\ r.op = "discard" /\ r.n = 1
     \/ q.op = "discard" /\ q.n < Size /\ r.op = "discard" /\ r.n = q.n + 1
     \/ q.op = "discard" /\ q.n = Size /\ r.op = "restart"

RollbackWent(q, r) ==
  /\ r.job = "rollback" /\ r.found = q.found
  /\ \/ q.op = "drop" /\ r.op = "restore" /\ r.n = q.n
     \/ q.op = "restore" /\ q.n > 1 /\ r.op = "drop" /\ r.n = q.n - 1
     \/ q.op = "restore" /\ q.n = 1 /\ r.op = "record"
     \/ q.op = "record" /\ r.op = "disarm"
     \/ q.op = "disarm" /\ r.op = "exit"

VerifyWent(q, r) ==
  \/ q.op = "forget" /\ r = Rest
  \/ /\ r.job = "verify" /\ r.found = q.found
     /\ \/ q.op = "discard" /\ q.n < Size /\ r.op = "discard" /\ r.n = q.n + 1
        \/ q.op = "discard" /\ q.n = Size /\ r.op = "disarm"
        \/ q.op = "disarm" /\ r.op = "forget"

StartWent(q, r) ==
  \/ q.op = "serve" /\ r = Rest
  \/ q.op = "count" /\ r.job = "start" /\ r.op = "serve"

Went(q, r) ==
  CASE q.job = "commit" -> CommitWent(q, r)
    [] q.job = "undo" -> UndoWent(q, r)
    [] q.job = "giveup" -> GiveUpWent(q, r)
    [] q.job = "rollback" -> RollbackWent(q, r)
    [] q.job = "verify" -> VerifyWent(q, r)
    [] OTHER -> StartWent(q, r)

\* A place of a thread and what is left of it after a change of operation.
LEMMA ToFacts ==
  ASSUME NEW q \in Places, NEW op \in Ops, NEW n \in {0} \cup Targets, NEW r, r = To(q, op, n)
  PROVE  r \in Places /\ r.job = q.job /\ r.op = op /\ r.n = n /\ r.found = q.found
<1>1. PICK a, c : q.job = a /\ q.found = c /\ q \in Places
  OBVIOUS
<1>2. r = [q EXCEPT !.op = op, !.n = n]
  BY DEF To
<1>3. QED BY <1>1, <1>2 DEF Places

LEMMA PlaceFacts ==
  ASSUME NEW job \in Jobs, NEW op \in Ops, NEW n \in {0} \cup Targets, NEW found \in SUBSET Targets,
         NEW r, r = Place(job, op, n, found)
  PROVE  r \in Places /\ r.job = job /\ r.op = op /\ r.n = n /\ r.found = found
BY DEF Place, Places

LEMMA RestFacts == Rest \in Places /\ Rest.job = "none" /\ Rest.op = "none"
<1>1. "none" \in Jobs /\ "none" \in Ops /\ 0 \in {0} \cup Targets /\ {} \in SUBSET Targets
  BY DEF Jobs, Ops
<1>2. QED BY <1>1, PlaceFacts DEF Rest

\* The threads go where the code goes on.
LEMMA CommitGoes ==
  ASSUME NEW q \in Places, OnCommit(q), q.op # "restart"
  PROVE  Onward(q) \in Places /\ CommitWent(q, Onward(q)) /\ OnCommit(Onward(q))
<1>0. PICK r : r = CommitOnward(q) /\ r = Onward(q)
  BY DEF Onward, OnCommit
<1>1. Size \in Nat /\ Targets = 1..Size /\ 1 \in Targets
  BY BundleAssumption DEF Targets
<1>2. CASE q.op = "arm"
  <2>1. r = To(q, "backup", 1) /\ "backup" \in Ops
    BY <1>0, <1>2 DEF CommitOnward, Ops
  <2>2. QED BY <1>0, <1>1, <1>2, <2>1, ToFacts DEF CommitWent, OnCommit
<1>3. CASE q.op = "backup"
  <2>1. r = To(q, "install", q.n) /\ "install" \in Ops /\ q.n \in Targets
    BY <1>0, <1>3 DEF CommitOnward, Ops, OnCommit
  <2>2. QED BY <1>0, <1>1, <1>3, <2>1, ToFacts DEF CommitWent, OnCommit
<1>4. CASE q.op = "install" /\ q.n < Size
  <2>1. r = To(q, "backup", q.n + 1) /\ "backup" \in Ops /\ q.n + 1 \in Targets
    BY <1>0, <1>1, <1>4 DEF CommitOnward, Ops, OnCommit
  <2>2. QED BY <1>0, <1>1, <1>4, <2>1, ToFacts DEF CommitWent, OnCommit
<1>5. CASE q.op = "install" /\ ~(q.n < Size)
  <2>1. r = To(q, "rearm", 0) /\ "rearm" \in Ops /\ q.n = Size
    BY <1>0, <1>1, <1>5 DEF CommitOnward, Ops, OnCommit
  <2>2. QED BY <1>0, <1>1, <1>5, <2>1, ToFacts DEF CommitWent, OnCommit
<1>6. CASE q.op = "rearm"
  <2>1. r = To(q, "restart", 0) /\ "restart" \in Ops
    BY <1>0, <1>6 DEF CommitOnward, Ops
  <2>2. QED BY <1>0, <1>1, <1>6, <2>1, ToFacts DEF CommitWent, OnCommit
<1>7. QED BY <1>2, <1>3, <1>4, <1>5, <1>6 DEF OnCommit

LEMMA BackGoes ==
  ASSUME NEW q \in Places, OnUndo(q) \/ OnRollback(q), q.op # "exit"
  PROVE  /\ Onward(q) \in Places
         /\ OnUndo(q) => UndoWent(q, Onward(q)) /\ (Onward(q) = Rest \/ OnUndo(Onward(q)))
         /\ OnRollback(q) => RollbackWent(q, Onward(q)) /\ OnRollback(Onward(q))
<1>0. PICK r : r = BackOnward(q) /\ r = Onward(q)
  BY DEF Onward, OnUndo, OnRollback
<1>1. Size \in Nat /\ Targets = 1..Size /\ 1 \in Targets
  BY BundleAssumption DEF Targets
<1>2. CASE q.op = "drop"
  <2>1. r = To(q, "restore", q.n) /\ "restore" \in Ops /\ q.n \in Targets
    BY <1>0, <1>2 DEF BackOnward, Ops, OnUndo, OnRollback
  <2>2. QED BY <1>0, <1>1, <1>2, <2>1, ToFacts DEF UndoWent, RollbackWent, OnUndo, OnRollback
<1>3. CASE q.op = "restore" /\ q.n > 1
  <2>1. r = To(q, "drop", q.n - 1) /\ "drop" \in Ops /\ q.n - 1 \in Targets
    BY <1>0, <1>1, <1>3 DEF BackOnward, Ops, OnUndo, OnRollback
  <2>2. QED BY <1>0, <1>1, <1>3, <2>1, ToFacts DEF UndoWent, RollbackWent, OnUndo, OnRollback
<1>4. CASE q.op = "restore" /\ ~(q.n > 1) /\ q.job = "undo"
  <2>1. r = To(q, "disarm", 0) /\ "disarm" \in Ops /\ q.n = 1
    BY <1>0, <1>1, <1>4 DEF BackOnward, Ops, OnUndo, OnRollback
  <2>2. QED BY <1>0, <1>1, <1>4, <2>1, ToFacts DEF UndoWent, OnUndo, OnRollback
<1>5. CASE q.op = "restore" /\ ~(q.n > 1) /\ q.job # "undo"
  <2>1. r = To(q, "record", 0) /\ "record" \in Ops /\ q.n = 1
    BY <1>0, <1>1, <1>5 DEF BackOnward, Ops, OnUndo, OnRollback
  <2>2. QED BY <1>0, <1>1, <1>5, <2>1, ToFacts DEF RollbackWent, OnUndo, OnRollback
<1>6. CASE q.op = "record"
  <2>1. r = To(q, "disarm", 0) /\ "disarm" \in Ops
    BY <1>0, <1>6 DEF BackOnward, Ops
  <2>2. QED BY <1>0, <1>1, <1>6, <2>1, ToFacts DEF RollbackWent, OnUndo, OnRollback
<1>7. CASE q.op = "disarm" /\ q.job = "undo"
  <2>1. r = Rest
    BY <1>0, <1>7 DEF BackOnward
  <2>2. QED BY <1>0, <1>7, <2>1, RestFacts DEF UndoWent, OnUndo, OnRollback
<1>8. CASE q.op = "disarm" /\ q.job # "undo"
  <2>1. r = To(q, "exit", 0) /\ "exit" \in Ops
    BY <1>0, <1>8 DEF BackOnward, Ops
  <2>2. QED BY <1>0, <1>1, <1>8, <2>1, ToFacts DEF RollbackWent, OnUndo, OnRollback
<1>9. QED BY <1>2, <1>3, <1>4, <1>5, <1>6, <1>7, <1>8 DEF OnUndo, OnRollback

LEMMA DiscardGoes ==
  ASSUME NEW q \in Places, OnVerify(q) \/ OnGiveUp(q), q.op # "restart"
  PROVE  /\ Onward(q) \in Places
         /\ OnGiveUp(q) => GiveUpWent(q, Onward(q)) /\ OnGiveUp(Onward(q))
         /\ OnVerify(q) => VerifyWent(q, Onward(q)) /\ (Onward(q) = Rest \/ OnVerify(Onward(q)))
<1>0. PICK r : r = DiscardOnward(q) /\ r = Onward(q)
  BY DEF Onward, OnVerify, OnGiveUp
<1>1. Size \in Nat /\ Targets = 1..Size /\ 1 \in Targets
  BY BundleAssumption DEF Targets
<1>2. CASE q.op = "discard" /\ q.n < Size
  <2>1. q.n \in Targets
    BY <1>2 DEF OnVerify, OnGiveUp
  <2>2. q.n + 1 \in Targets
    BY <1>1, <1>2, <2>1
  <2>3. r = To(q, "discard", q.n + 1) /\ "discard" \in Ops
    BY <1>0, <1>1, <1>2, <2>1 DEF DiscardOnward, Ops
  <2>4. QED BY <1>0, <1>1, <1>2, <2>1, <2>2, <2>3, ToFacts DEF VerifyWent, GiveUpWent, OnVerify, OnGiveUp
<1>3. CASE q.op = "discard" /\ ~(q.n < Size) /\ q.job = "verify"
  <2>1. r = To(q, "disarm", 0) /\ "disarm" \in Ops /\ q.n = Size
    BY <1>0, <1>1, <1>3 DEF DiscardOnward, Ops, OnVerify, OnGiveUp
  <2>2. QED BY <1>0, <1>1, <1>3, <2>1, ToFacts DEF VerifyWent, OnVerify, OnGiveUp
<1>4. CASE q.op = "discard" /\ ~(q.n < Size) /\ q.job # "verify"
  <2>1. r = To(q, "restart", 0) /\ "restart" \in Ops /\ q.n = Size
    BY <1>0, <1>1, <1>4 DEF DiscardOnward, Ops, OnVerify, OnGiveUp
  <2>2. QED BY <1>0, <1>1, <1>4, <2>1, ToFacts DEF GiveUpWent, OnVerify, OnGiveUp
<1>5. CASE q.op = "disarm" /\ q.job = "verify"
  <2>1. r = To(q, "forget", 0) /\ "forget" \in Ops
    BY <1>0, <1>5 DEF DiscardOnward, Ops
  <2>2. QED BY <1>0, <1>1, <1>5, <2>1, ToFacts DEF VerifyWent, OnVerify, OnGiveUp
<1>6. CASE q.op = "disarm" /\ q.job # "verify"
  <2>1. r = To(q, "discard", 1) /\ "discard" \in Ops
    BY <1>0, <1>6 DEF DiscardOnward, Ops
  <2>2. QED BY <1>0, <1>1, <1>6, <2>1, ToFacts DEF GiveUpWent, OnVerify, OnGiveUp
<1>7. CASE q.op = "forget"
  <2>1. r = Rest /\ q.job = "verify"
    BY <1>0, <1>7 DEF DiscardOnward, OnVerify, OnGiveUp
  <2>2. QED BY <1>0, <1>7, <2>1, RestFacts DEF VerifyWent, OnVerify, OnGiveUp
<1>8. QED BY <1>2, <1>3, <1>4, <1>5, <1>6, <1>7 DEF OnVerify, OnGiveUp

LEMMA StartGoes ==
  ASSUME NEW q \in Places, OnStart(q)
  PROVE  /\ Onward(q) \in Places /\ StartWent(q, Onward(q))
         /\ Onward(q) = Rest \/ OnStart(Onward(q))
<1>1. 0 \in {0} \cup Targets /\ "serve" \in Ops
  BY DEF Ops
<1>2. CASE q.op = "count"
  <2>1. Onward(q) = To(q, "serve", 0)
    BY <1>2 DEF Onward, OnStart
  <2>2. QED BY <1>1, <1>2, <2>1, ToFacts DEF StartWent, OnStart
<1>3. CASE q.op = "serve"
  <2>1. Onward(q) = Rest
    BY <1>3 DEF Onward, OnStart
  <2>2. QED BY <1>3, <2>1, RestFacts DEF StartWent
<1>4. QED BY <1>2, <1>3 DEF OnStart

LEMMA Goes ==
  ASSUME NEW p \in Threads, NEW q \in Places, Placed(p, q), q.op \notin {"exit", "restart"}
  PROVE  /\ Onward(q) \in Places /\ Went(q, Onward(q))
         /\ Onward(q) = Rest \/ Placed(p, Onward(q))
<1>1. CASE OnCommit(q)
  <2>1. q.job = "commit" /\ p = "update"
    BY <1>1 DEF OnCommit, Placed, OnStart, OnRollback, OnVerify, Threads
  <2>2. QED BY <1>1, <2>1, CommitGoes DEF Went, Placed
<1>2. CASE OnUndo(q)
  <2>1. q.job = "undo" /\ p = "update"
    BY <1>2 DEF OnUndo, Placed, OnStart, OnRollback, OnVerify, Threads
  <2>2. QED BY <1>2, <2>1, BackGoes DEF Went, Placed
<1>3. CASE OnGiveUp(q)
  <2>1. q.job = "giveup" /\ p = "update"
    BY <1>3 DEF OnGiveUp, Placed, OnStart, OnRollback, OnVerify, Threads
  <2>2. QED BY <1>3, <2>1, DiscardGoes DEF Went, Placed
<1>4. CASE OnRollback(q)
  <2>1. q.job = "rollback" /\ p = "startup"
    BY <1>4 DEF OnRollback, Placed, OnVerify, OnCommit, OnUndo, OnGiveUp, Threads
  <2>2. QED BY <1>4, <2>1, BackGoes DEF Went, Placed
<1>5. CASE OnVerify(q)
  <2>1. q.job = "verify" /\ p = "verify"
    BY <1>5 DEF OnVerify, Placed, OnStart, OnRollback, OnCommit, OnUndo, OnGiveUp, Threads
  <2>2. QED BY <1>5, <2>1, DiscardGoes DEF Went, Placed
<1>6. CASE OnStart(q)
  <2>1. q.job = "start" /\ p = "startup"
    BY <1>6 DEF OnStart, Placed, OnVerify, OnCommit, OnUndo, OnGiveUp, Threads
  <2>2. QED BY <1>6, <2>1, StartGoes DEF Went, Placed
<1>7. QED BY <1>1, <1>2, <1>3, <1>4, <1>5, <1>6 DEF Placed

-----------------------------------------------------------------------------
(* What an operation does to the files.                                     *)

Loops == {"backup", "install", "drop", "restore", "discard"}

SameFile(t) == dest'[t] = dest[t] /\ backup'[t] = backup[t]

Effect(q) ==
  /\ dest' \in Files /\ backup' \in Files
  /\ q.op \notin Loops => dest' = dest /\ backup' = backup
  /\ \A t \in Targets : t # q.n => SameFile(t)
  /\ q.op = "backup" =>
       IF q.n \in q.found THEN dest'[q.n] = None /\ backup'[q.n] = dest[q.n] ELSE SameFile(q.n)
  /\ q.op = "install" => dest'[q.n] = Target /\ backup'[q.n] = backup[q.n]
  /\ q.op = "drop" => IF PassedOver(q) THEN SameFile(q.n) ELSE dest'[q.n] = None /\ backup'[q.n] = backup[q.n]
  /\ q.op = "restore" =>
       IF q.n \in q.found /\ backup[q.n] # None THEN dest'[q.n] = backup[q.n] /\ backup'[q.n] = None
       ELSE SameFile(q.n)
  /\ q.op = "discard" => dest'[q.n] = dest[q.n] /\ backup'[q.n] \in {None, backup[q.n]}

\* A version can be told from none; the one that comes is one of them.
LEMMA VersionFacts ==
  ASSUME TypeOK
  PROVE  Target \in Versions /\ Target \in Nat /\ None \notin Versions /\ Server \in Targets
BY BuildAssumption, BundleAssumption DEF TypeOK, Target, Versions, None, Server, Targets

LEMMA EffectSame ==
  ASSUME TypeOK, NEW q \in Places, dest' = dest, backup' = backup,
         q.op \notin {"install", "backup", "restore"},
         q.op = "drop" => PassedOver(q)
  PROVE  Effect(q)
BY DEF Effect, SameFile, TypeOK, Files

LEMMA EffectOf ==
  ASSUME TypeOK, NEW q \in Places, Files1(q), q.op \in Loops => q.n \in Targets
  PROVE  Effect(q)
<1>1. dest \in Files /\ backup \in Files /\ Target \in {None} \cup Versions /\ None \in {None} \cup Versions
  BY VersionFacts DEF TypeOK
<1>2. CASE q.op = "backup" /\ q.n \in q.found
  <2>1. /\ backup' = [backup EXCEPT ![q.n] = dest[q.n]] /\ dest' = [dest EXCEPT ![q.n] = None]
        /\ q.n \in Targets
    BY <1>2 DEF Files1, Moves, Loops
  <2>2. dest' \in Files /\ backup' \in Files
    BY <1>1, <2>1 DEF Files
  <2>3. /\ \A t \in Targets : t # q.n => SameFile(t)
        /\ dest'[q.n] = None /\ backup'[q.n] = dest[q.n]
    BY <1>1, <2>1 DEF Files, SameFile
  <2>4. QED BY <1>2, <2>2, <2>3 DEF Effect, Loops
<1>3. CASE q.op = "install"
  <2>1. dest' = [dest EXCEPT ![q.n] = Target] /\ backup' = backup /\ q.n \in Targets
    BY <1>3 DEF Files1, Loops
  <2>2. dest' \in Files /\ backup' \in Files
    BY <1>1, <2>1 DEF Files
  <2>3. (\A t \in Targets : t # q.n => SameFile(t)) /\ dest'[q.n] = Target
    BY <1>1, <2>1 DEF Files, SameFile
  <2>4. QED BY <1>3, <2>1, <2>2, <2>3 DEF Effect, Loops
<1>4. CASE q.op = "drop" /\ ~PassedOver(q)
  <2>1. dest' = [dest EXCEPT ![q.n] = None] /\ backup' = backup /\ q.n \in Targets
    BY <1>4 DEF Files1, Loops
  <2>2. dest' \in Files /\ backup' \in Files
    BY <1>1, <2>1 DEF Files
  <2>3. (\A t \in Targets : t # q.n => SameFile(t)) /\ dest'[q.n] = None
    BY <1>1, <2>1 DEF Files, SameFile
  <2>4. QED BY <1>4, <2>1, <2>2, <2>3 DEF Effect, Loops
<1>5. CASE q.op = "restore" /\ q.n \in q.found /\ backup[q.n] # None
  <2>1. /\ dest' = [dest EXCEPT ![q.n] = backup[q.n]] /\ backup' = [backup EXCEPT ![q.n] = None]
        /\ q.n \in Targets
    BY <1>5 DEF Files1, Moves, Loops
  <2>2. dest' \in Files /\ backup' \in Files
    BY <1>1, <2>1 DEF Files
  <2>3. /\ \A t \in Targets : t # q.n => SameFile(t)
        /\ dest'[q.n] = backup[q.n] /\ backup'[q.n] = None
    BY <1>1, <2>1 DEF Files, SameFile
  <2>4. QED BY <1>5, <2>2, <2>3 DEF Effect, Loops
<1>6. CASE q.op = "discard" /\ q.n \in q.found
  <2>1. backup' = [backup EXCEPT ![q.n] = None] /\ dest' = dest /\ q.n \in Targets
    BY <1>6 DEF Files1, Loops
  <2>2. dest' \in Files /\ backup' \in Files
    BY <1>1, <2>1 DEF Files
  <2>3. (\A t \in Targets : t # q.n => SameFile(t)) /\ backup'[q.n] = None
    BY <1>1, <2>1 DEF Files, SameFile
  <2>4. QED BY <1>6, <2>1, <2>2, <2>3 DEF Effect, Loops
<1>7. CASE /\ ~(q.op = "backup" /\ q.n \in q.found) /\ q.op # "install"
           /\ ~(q.op = "drop" /\ ~PassedOver(q))
           /\ ~(q.op = "restore" /\ q.n \in q.found /\ backup[q.n] # None)
           /\ ~(q.op = "discard" /\ q.n \in q.found)
  <2>1. dest' = dest /\ backup' = backup
    BY <1>7 DEF Files1, Moves
  <2>2. QED BY <1>1, <1>7, <2>1 DEF Effect, SameFile
<1>8. QED BY <1>2, <1>3, <1>4, <1>5, <1>6, <1>7

\* What a step of a thread that goes on changes.
Ran(p, q, r) ==
  /\ q = at[p] /\ q \in Places /\ Placed(p, q) /\ q # Rest
  /\ r = at'[p] /\ r \in Places
  /\ at' = [at EXCEPT ![p] = r]
  /\ \A s \in Threads : s # p => at'[s] = at[s]

LEMMA PlacedFacts ==
  ASSUME NEW p \in Threads, NEW q \in Places, Placed(p, q)
  PROVE  /\ q # Rest /\ q.op # "none" /\ q.job # "none"
         /\ q.op \in Loops => q.n \in Targets
         /\ p = "update" => OnCommit(q) \/ OnUndo(q) \/ OnGiveUp(q)
         /\ p = "startup" => OnStart(q) \/ OnRollback(q)
         /\ p = "verify" => OnVerify(q)
<1>1. p \in {"startup", "verify", "update"}
  BY DEF Threads
<1>2. CASE p = "startup"
  <2>1. OnStart(q) \/ OnRollback(q)
    BY <1>2 DEF Placed
  <2>2. QED BY <1>2, <2>1, RestFacts DEF OnStart, OnRollback, Loops
<1>3. CASE p = "verify"
  <2>1. OnVerify(q)
    BY <1>3 DEF Placed
  <2>2. QED BY <1>3, <2>1, RestFacts DEF OnVerify, Loops
<1>4. CASE p = "update"
  <2>1. OnCommit(q) \/ OnUndo(q) \/ OnGiveUp(q)
    BY <1>4 DEF Placed
  <2>2. QED BY <1>4, <2>1, RestFacts DEF OnCommit, OnUndo, OnGiveUp, Loops
<1>5. QED BY <1>1, <1>2, <1>3, <1>4

LEMMA ExecFacts ==
  ASSUME TInv, NEW p \in Threads, Exec(p), NEW q, q = at[p]
  PROVE  /\ q \in Places /\ Placed(p, q) /\ Effect(q) /\ Records1(q)
         /\ q.op \in {"exit", "restart"} => GoDown
         /\ q.op \notin {"exit", "restart"} =>
              /\ Ran(p, q, Onward(q)) /\ Went(q, Onward(q))
              /\ Onward(q) = Rest \/ Placed(p, Onward(q))
              /\ up' = (IF q.op = "serve" THEN "serving" ELSE up) /\ running' = running
         /\ UNCHANGED <<starts, updates, prev, proven, unarmed, slips, broken, faults, losses>>
<1>1. q \in Places /\ Placed(p, q) /\ q # Rest /\ at \in [Threads -> Places]
  BY DEF Exec, TInv, PlaceInv, TypeOK
<1>2. Effect(q)
  <2>1. Files1(q) /\ (q.op \in Loops => q.n \in Targets)
    BY <1>1, PlacedFacts DEF Exec
  <2>2. QED BY <1>1, <2>1, EffectOf DEF TInv
<1>3. Records1(q) /\ UNCHANGED <<starts, updates, prev, proven, unarmed, slips, broken, faults, losses>>
  BY DEF Exec, ghost
<1>4. q.op \in {"exit", "restart"} => GoDown
  BY DEF Exec
<1>5. ASSUME q.op \notin {"exit", "restart"}
      PROVE  /\ at' = [at EXCEPT ![p] = Onward(q)]
             /\ up' = (IF q.op = "serve" THEN "serving" ELSE up) /\ running' = running
  BY <1>5 DEF Exec
<1>6. ASSUME q.op \notin {"exit", "restart"}
      PROVE  /\ Onward(q) \in Places /\ Went(q, Onward(q))
             /\ Onward(q) = Rest \/ Placed(p, Onward(q))
  BY <1>1, <1>6, Goes
<1>7. ASSUME q.op \notin {"exit", "restart"} PROVE Ran(p, q, Onward(q))
  <2>1. PICK r : r = Onward(q) /\ r \in Places
    BY <1>6, <1>7
  <2>2. at'[p] = r /\ \A s \in Threads : s # p => at'[s] = at[s]
    BY <1>1, <1>5, <1>7, <2>1
  <2>3. QED BY <1>1, <1>5, <1>7, <2>1, <2>2 DEF Ran
<1>8. QED BY <1>1, <1>2, <1>3, <1>4, <1>5, <1>6, <1>7

LEMMA FailFacts ==
  ASSUME TInv, NEW p \in Threads, OpFails(p), NEW q, q = at[p]
  PROVE  /\ q \in Places /\ Placed(p, q) /\ q.op \in Fallible
         /\ Ran(p, q, FailOnward(q)) /\ Placed(p, FailOnward(q))
         /\ q.op = "backup" => FailOnward(q) = Place("undo", "disarm", 0, q.found)
         /\ q.op = "install" => FailOnward(q) = Place("undo", "restore", q.n, q.found)
         /\ q.op = "rearm" => FailOnward(q) = Place("giveup", "disarm", 0, q.found)
         /\ q.op \in {"arm", "count", "restore"} => FailOnward(q) = Onward(q) /\ Went(q, Onward(q))
         /\ faults' = faults + 1 /\ faults < MaxFaults
         /\ unarmed' = (unarmed \/ q.op \in {"arm", "rearm", "backup"})
         /\ slips' = (IF q.op = "count" THEN slips + 1 ELSE slips)
         /\ broken' = (broken \/ q.op \in {"backup", "restore"})
         /\ UNCHANGED <<dest, backup, marker, record, running, up, starts, updates, prev, proven, losses>>
<1>1. q \in Places /\ at \in [Threads -> Places] /\ q.op \in Fallible
  BY DEF OpFails, TInv, TypeOK
<1>2. q # Rest
  BY <1>1, RestFacts DEF Fallible
<1>3. Placed(p, q)
  BY <1>2 DEF TInv, PlaceInv
<1>4. /\ at' = [at EXCEPT ![p] = FailOnward(q)]
      /\ faults' = faults + 1 /\ faults < MaxFaults
      /\ unarmed' = (unarmed \/ q.op \in {"arm", "rearm", "backup"})
      /\ slips' = (IF q.op = "count" THEN slips + 1 ELSE slips)
      /\ broken' = (broken \/ q.op \in {"backup", "restore"})
      /\ UNCHANGED <<dest, backup, marker, record, running, up, starts, updates, prev, proven, losses>>
  BY DEF OpFails, disk
<1>5. /\ q.op = "backup" => FailOnward(q) = Place("undo", "disarm", 0, q.found)
      /\ q.op = "install" => FailOnward(q) = Place("undo", "restore", q.n, q.found)
      /\ q.op = "rearm" => FailOnward(q) = Place("giveup", "disarm", 0, q.found)
      /\ q.op \in {"arm", "count", "restore"} => FailOnward(q) = Onward(q)
  BY DEF FailOnward
<1>6. /\ q.found \in SUBSET Targets /\ 0 \in {0} \cup Targets
      /\ {"undo", "giveup"} \subseteq Jobs /\ {"disarm", "restore"} \subseteq Ops
      /\ q.op = "install" => q.n \in Targets
      /\ q.op \in {"backup", "install", "rearm"} => p = "update"
      /\ q.op \notin {"exit", "restart", "serve", "disarm"}
  <2>1. q.op \in {"backup", "install", "rearm"} => p = "update"
    BY <1>1, <1>3, PlacedFacts DEF Threads, OnStart, OnRollback, OnVerify
  <2>2. q.op = "install" => q.n \in Targets
    BY <1>1, <1>3, PlacedFacts DEF Loops
  <2>3. QED BY <1>1, <2>1, <2>2 DEF Fallible, Places, Jobs, Ops
<1>7. FailOnward(q) \in Places /\ Placed(p, FailOnward(q))
  <2>1. CASE q.op = "backup"
    <3>1. FailOnward(q) \in Places /\ OnUndo(FailOnward(q))
      BY <1>5, <1>6, <2>1, PlaceFacts DEF OnUndo
    <3>2. QED BY <1>6, <2>1, <3>1 DEF Placed
  <2>2. CASE q.op = "install"
    <3>0. PICK r : r = FailOnward(q)
      OBVIOUS
    <3>1. r \in Places /\ r.job = "undo" /\ r.op = "restore" /\ r.n = q.n
      <4>1. "undo" \in Jobs /\ "restore" \in Ops
        BY DEF Jobs, Ops
      <4>2. PICK n, c : n = q.n /\ c = q.found
        OBVIOUS
      <4>3. n \in {0} \cup Targets /\ c \in SUBSET Targets
        BY <1>6, <2>2, <4>2
      <4>4. r = Place("undo", "restore", n, c)
        BY <1>5, <2>2, <3>0, <4>2
      <4>5. r \in Places /\ r.job = "undo" /\ r.op = "restore" /\ r.n = n
        BY <4>1, <4>3, <4>4 DEF Place, Places
      <4>6. QED BY <4>2, <4>5
    <3>2. QED BY <1>6, <2>2, <3>0, <3>1 DEF Placed, OnUndo
  <2>3. CASE q.op = "rearm"
    <3>1. FailOnward(q) \in Places /\ OnGiveUp(FailOnward(q))
      BY <1>5, <1>6, <2>3, PlaceFacts DEF OnGiveUp
    <3>2. QED BY <1>6, <2>3, <3>1 DEF Placed
  <2>4. CASE q.op \in {"arm", "count", "restore"}
    <3>1. Onward(q) \in Places /\ Went(q, Onward(q)) /\ (Onward(q) = Rest \/ Placed(p, Onward(q)))
      BY <1>1, <1>3, <2>4, Goes
    <3>2. Onward(q) # Rest
      <4>1. q.job \in {"commit", "undo", "rollback", "start"}
        BY <1>1, <1>3, <2>4, PlacedFacts DEF Threads, OnStart, OnRollback, OnVerify, OnCommit, OnUndo, OnGiveUp
      <4>2. QED BY <2>4, <3>1, <4>1, RestFacts DEF Went, CommitWent, UndoWent, RollbackWent, StartWent
    <3>3. QED BY <1>5, <2>4, <3>1, <3>2
  <2>5. QED BY <1>1, <2>1, <2>2, <2>3, <2>4 DEF Fallible
<1>8. q.op \in {"arm", "count", "restore"} => Went(q, Onward(q))
  BY <1>1, <1>3, Goes
<1>9. Ran(p, q, FailOnward(q))
  <2>1. PICK r : r = FailOnward(q) /\ r \in Places
    BY <1>7
  <2>2. at'[p] = r /\ \A s \in Threads : s # p => at'[s] = at[s]
    BY <1>1, <1>4, <2>1
  <2>3. QED BY <1>1, <1>2, <1>3, <1>4, <2>1, <2>2 DEF Ran
<1>10. QED BY <1>1, <1>3, <1>4, <1>5, <1>7, <1>8, <1>9

-----------------------------------------------------------------------------
(* The types.                                                               *)

IdlePlaced(a) ==
  /\ a \in [Threads -> Places]
  /\ \A p \in Threads : a[p] = Rest

LEMMA DownFacts ==
  ASSUME GoDown
  PROVE  IdlePlaced(at') /\ up' = "off" /\ running' = None
BY RestFacts DEF GoDown, Idle, IdlePlaced

LEMMA DownPlaced ==
  ASSUME GoDown, slips' <= faults'
  PROVE  PlaceInv'
<1>1. /\ at'["startup"] = Rest /\ at'["verify"] = Rest /\ at'["update"] = Rest /\ Rest.op # "count"
      /\ \A p \in Threads : at'[p] = Rest
  BY DownFacts, RestFacts DEF IdlePlaced, Threads
<1>2. QED BY <1>1 DEF PlaceInv

\* One thread moves while the process stays in its phase or begins to serve.
LEMMA RanPlaced ==
  ASSUME TInv, NEW p \in Threads, NEW q, NEW r, at' \in [Threads -> Places], r = at'[p], r \in Places,
         \A s \in Threads : s # p => at'[s] = at[s],
         r = Rest \/ Placed(p, r),
         r # Rest /\ p = "startup" => up' = "gate",
         r # Rest /\ p = "verify" => up' = "graced",
         r # Rest /\ p = "update" => up' \in {"serving", "graced", "settled"},
         \A s \in Threads : s # p /\ at[s] # Rest => up' = up,
         p = "startup" /\ r.op = "count" => ~Exhausted',
         p # "startup" => at["startup"] = Rest,
         slips' <= faults'
  PROVE  PlaceInv'
<1>1. \A s \in Threads : at'[s] = Rest \/ Placed(s, at'[s])
  BY DEF TInv, PlaceInv
<1>2. at'["startup"] # Rest => up' = "gate"
  BY DEF TInv, PlaceInv, Threads
<1>3. at'["verify"] # Rest => up' = "graced"
  BY DEF TInv, PlaceInv, Threads
<1>4. at'["update"] # Rest => up' \in {"serving", "graced", "settled"}
  BY DEF TInv, PlaceInv, Threads
<1>5. at'["startup"].op = "count" => ~Exhausted'
  <2>1. CASE p = "startup"
    BY <2>1
  <2>2. CASE p # "startup"
    BY <2>2, RestFacts DEF Threads
  <2>3. QED BY <2>1, <2>2
<1>6. QED BY <1>1, <1>2, <1>3, <1>4, <1>5 DEF PlaceInv

\* While one thread runs, the gate or the verification or the updater, the
\* phase says which others are at rest.
LEMMA PhaseFacts ==
  ASSUME TInv
  PROVE  /\ up \in {"off", "serving", "graced", "settled"} => at["startup"] = Rest
         /\ up \in {"off", "gate", "serving", "settled"} => at["verify"] = Rest
         /\ up \in {"off", "gate"} => at["update"] = Rest
BY DEF TInv, PlaceInv

LEMMA InitType ==
  ASSUME Init PROVE TInv
<1>1. 1 \in Versions /\ None \in {None} \cup Versions /\ 0 \in Nat
  BY BuildAssumption DEF Versions
<1>2. dest \in Files /\ backup \in Files /\ prev \in Files
  BY <1>1 DEF Init, Files
<1>3. at \in [Threads -> Places] /\ \A p \in Threads : at[p] = Rest
  BY RestFacts DEF Init, Idle
<1>4. marker \in [attempts : 0..MaxAttempts, ver : {None} \cup Versions, found : SUBSET Targets]
  BY BuildAssumption DEF Init, NoMarker
<1>5. /\ record = None /\ running = 1 /\ up = "settled" /\ starts = 0 /\ updates = 0 /\ proven = {1}
      /\ unarmed = FALSE /\ slips = 0 /\ broken = FALSE /\ faults = 0 /\ losses = 0
  BY DEF Init
<1>6. record \in {None} \cup Versions /\ running \in {None} \cup Versions /\ proven \subseteq Versions
  BY <1>1, <1>5
<1>7. /\ starts \in 0..StartLimit /\ updates \in 0..MaxUpdates /\ slips \in 0..MaxFaults
      /\ faults \in 0..MaxFaults /\ losses \in 0..MaxLosses
  BY <1>5, BuildAssumption
<1>8. TypeOK
  BY <1>2, <1>3, <1>4, <1>5, <1>6, <1>7 DEF TypeOK
<1>9. PlaceInv
  BY <1>3, RestFacts DEF PlaceInv, Init, Threads
<1>10. QED BY <1>8, <1>9 DEF TInv

LEMMA StartType ==
  ASSUME TInv, Start PROVE TInv'
<1>1. at["startup"] = Rest /\ at["verify"] = Rest /\ at["update"] = Rest
  BY PhaseFacts DEF Start
<1>2. UNCHANGED <<dest, backup, marker, record, at, updates, prev, proven, unarmed, slips, broken, faults, losses>>
  BY DEF Start, disk, ghost
<1>3. dest[Server] \in Versions /\ running' = dest[Server] /\ up' = "gate"
  BY VersionFacts DEF Start, TInv, TypeOK, Files
<1>4. starts' \in 0..StartLimit
  BY BuildAssumption DEF Start, TInv, TypeOK
<1>5. TypeOK'
  BY <1>2, <1>3, <1>4 DEF TInv, TypeOK
<1>6. PlaceInv'
  BY <1>1, <1>2, RestFacts DEF TInv, PlaceInv, Exhausted
<1>7. QED BY <1>5, <1>6 DEF TInv

LEMMA GateBeginsFacts ==
  ASSUME TypeOK, NEW r, r = GateBegins
  PROVE  /\ r \in Places
         /\ \/ Armed /\ Exhausted /\ OnRollback(r) /\ r.op = "drop" /\ r.n = Size /\ r.found = marker.found
            \/ Armed /\ ~Exhausted /\ OnStart(r) /\ r.op = "count"
            \/ ~Armed /\ OnStart(r) /\ r.op = "serve"
<1>1. /\ Size \in Targets /\ marker.found \in SUBSET Targets /\ {} \in SUBSET Targets
      /\ {"rollback", "start"} \subseteq Jobs /\ {"drop", "count", "serve"} \subseteq Ops
  BY BundleAssumption DEF TypeOK, Targets, Jobs, Ops
<1>2. CASE Armed /\ Exhausted
  <2>1. r = Place("rollback", "drop", Size, marker.found)
    BY <1>2 DEF GateBegins, Rollback
  <2>2. QED BY <1>1, <1>2, <2>1 DEF Place, Places, OnRollback
<1>3. CASE Armed /\ ~Exhausted
  <2>1. r = Place("start", "count", 0, {})
    BY <1>3 DEF GateBegins
  <2>2. QED BY <1>1, <1>3, <2>1 DEF Place, Places, OnStart
<1>4. CASE ~Armed
  <2>1. r = Place("start", "serve", 0, {})
    BY <1>4 DEF GateBegins
  <2>2. QED BY <1>1, <1>4, <2>1 DEF Place, Places, OnStart
<1>5. QED BY <1>2, <1>3, <1>4

LEMMA GateType ==
  ASSUME TInv, Gate PROVE TInv'
<1>1. PICK r : r = GateBegins
  OBVIOUS
<1>2. /\ r \in Places /\ Placed("startup", r)
      /\ r.op = "count" => ~Exhausted
  <2>1. \/ Armed /\ Exhausted /\ OnRollback(r) /\ r.op = "drop"
        \/ Armed /\ ~Exhausted /\ OnStart(r) /\ r.op = "count"
        \/ ~Armed /\ OnStart(r) /\ r.op = "serve"
    BY <1>1, GateBeginsFacts DEF TInv
  <2>2. r \in Places
    BY <1>1, GateBeginsFacts DEF TInv
  <2>3. QED BY <2>1, <2>2 DEF Placed
<1>3. /\ at' = [at EXCEPT !["startup"] = r] /\ at \in [Threads -> Places]
      /\ UNCHANGED <<dest, backup, marker, record, running, up, starts, updates, prev, proven, unarmed, slips, broken,
                     faults, losses>>
  BY <1>1 DEF Gate, disk, ghost, TInv, TypeOK
<1>4. /\ "startup" \in Threads /\ at' \in [Threads -> Places] /\ at'["startup"] = r
      /\ \A s \in Threads : s # "startup" => at'[s] = at[s]
  BY <1>2, <1>3 DEF Threads
<1>5. TypeOK'
  BY <1>3, <1>4 DEF TInv, TypeOK
<1>6. PlaceInv'
  <2>1. up' = "gate" /\ up = "gate"
    BY <1>3 DEF Gate
  <2>2. Exhausted' <=> Exhausted
    BY <1>3 DEF Exhausted
  <2>3. slips' <= faults'
    BY <1>3 DEF TInv, PlaceInv
  <2>4. QED BY <1>2, <1>4, <2>1, <2>2, <2>3, RanPlaced
<1>7. QED BY <1>5, <1>6 DEF TInv

LEMMA DownType ==
  ASSUME TInv, RollbackBlocked \/ Crash \/ PowerLoss PROVE TInv'
<1>1. GoDown
  BY DEF RollbackBlocked, Crash, PowerLoss
<1>2. /\ UNCHANGED <<dest, backup, marker, record, updates, prev, proven, unarmed, broken>>
      /\ starts' \in 0..StartLimit /\ losses' \in 0..MaxLosses
      /\ faults' \in 0..MaxFaults /\ slips' \in Nat /\ slips' <= faults'
  <2>1. CASE RollbackBlocked
    BY <2>1, BuildAssumption DEF RollbackBlocked, disk, TInv, TypeOK, PlaceInv
  <2>2. CASE Crash
    BY <2>2, BuildAssumption DEF Crash, disk, ghost, TInv, TypeOK, PlaceInv
  <2>3. CASE PowerLoss
    BY <2>3, BuildAssumption DEF PowerLoss, disk, ghost, TInv, TypeOK, PlaceInv
  <2>4. QED BY <2>1, <2>2, <2>3
<1>3. slips' \in 0..MaxFaults
  BY <1>2, BuildAssumption
<1>4. at' \in [Threads -> Places] /\ up' = "off" /\ running' = None
  BY <1>1, DownFacts DEF IdlePlaced
<1>5. TypeOK'
  BY <1>2, <1>3, <1>4 DEF TInv, TypeOK
<1>6. QED BY <1>1, <1>2, <1>5, DownPlaced DEF TInv

LEMMA VerifyBeginsFacts ==
  ASSUME TypeOK, NEW r, r = VerifyBegins
  PROVE  /\ r \in Places
         /\ Armed => OnVerify(r) /\ r.op = "discard" /\ r.n = 1 /\ r.found = marker.found
         /\ ~Armed => r = Rest
<1>1. /\ 1 \in Targets /\ marker.found \in SUBSET Targets /\ "verify" \in Jobs /\ "discard" \in Ops
  BY BundleAssumption DEF TypeOK, Targets, Jobs, Ops
<1>2. CASE Armed
  <2>1. r = Place("verify", "discard", 1, marker.found)
    BY <1>2 DEF VerifyBegins
  <2>2. QED BY <1>1, <1>2, <2>1 DEF Place, Places, OnVerify
<1>3. CASE ~Armed
  BY <1>3, RestFacts DEF VerifyBegins
<1>4. QED BY <1>2, <1>3

LEMMA GraceType ==
  ASSUME TInv, Grace PROVE TInv'
<1>1. PICK r : r = VerifyBegins
  OBVIOUS
<1>2. r \in Places /\ (r = Rest \/ Placed("verify", r))
  BY <1>1, VerifyBeginsFacts DEF TInv, Placed
<1>3. /\ at' = [at EXCEPT !["verify"] = r] /\ at \in [Threads -> Places]
      /\ up = "serving" /\ up' = "graced" /\ running \in Good
      /\ proven' = proven \cup {running}
      /\ UNCHANGED <<dest, backup, marker, record, running, starts, updates, prev, unarmed, slips, broken,
                     faults, losses>>
  BY <1>1 DEF Grace, Healthy, disk, TInv, TypeOK
<1>4. /\ "verify" \in Threads /\ at' \in [Threads -> Places] /\ at'["verify"] = r
      /\ \A s \in Threads : s # "verify" => at'[s] = at[s]
  BY <1>2, <1>3 DEF Threads
<1>5. proven' \subseteq Versions
  BY <1>3, BuildAssumption DEF TInv, TypeOK
<1>6. TypeOK'
  BY <1>3, <1>4, <1>5 DEF TInv, TypeOK
<1>7. PlaceInv'
  <2>1. at["startup"] = Rest /\ at["verify"] = Rest /\ at'["startup"] = at["startup"] /\ at'["update"] = at["update"]
    BY <1>3, <1>4, PhaseFacts DEF Threads
  <2>2. \A p \in Threads : at'[p] = Rest \/ Placed(p, at'[p])
    BY <1>2, <1>4 DEF TInv, PlaceInv
  <2>3. slips' <= faults'
    BY <1>3 DEF TInv, PlaceInv
  <2>4. QED BY <1>3, <2>1, <2>2, <2>3, RestFacts DEF PlaceInv
<1>8. QED BY <1>6, <1>7 DEF TInv

LEMMA SettleType ==
  ASSUME TInv, Settle PROVE TInv'
<1>1. /\ up = "graced" /\ up' = "settled" /\ at["verify"] = Rest /\ starts' = 0
      /\ UNCHANGED <<dest, backup, marker, record, running, at, updates, prev, proven, unarmed, slips, broken,
                     faults, losses>>
  BY DEF Settle, disk, ghost
<1>2. at["startup"] = Rest
  BY <1>1, PhaseFacts
<1>3. TypeOK'
  BY <1>1, BuildAssumption DEF TInv, TypeOK
<1>4. PlaceInv'
  BY <1>1, <1>2, RestFacts DEF TInv, PlaceInv
<1>5. QED BY <1>3, <1>4 DEF TInv

LEMMA CommitBeginsFacts ==
  ASSUME NEW r, r = CommitBegins
  PROVE  r \in Places /\ OnCommit(r) /\ r.op = "arm" /\ r.found = {t \in Targets : dest[t] # None}
<1>1. PICK c : c = {t \in Targets : dest[t] # None}
  OBVIOUS
<1>2. c \in SUBSET Targets /\ "commit" \in Jobs /\ "arm" \in Ops
  BY <1>1 DEF Jobs, Ops
<1>3. r = Place("commit", "arm", 0, c)
  BY <1>1 DEF CommitBegins
<1>4. r \in Places /\ OnCommit(r) /\ r.op = "arm" /\ r.found = c
  BY <1>2, <1>3 DEF Place, Places, OnCommit
<1>5. QED BY <1>1, <1>4

LEMMA ApplyType ==
  ASSUME TInv, Apply PROVE TInv'
<1>1. PICK r : r = CommitBegins
  OBVIOUS
<1>2. r \in Places /\ Placed("update", r)
  BY <1>1, CommitBeginsFacts DEF Placed
<1>3. /\ at' = [at EXCEPT !["update"] = r] /\ at \in [Threads -> Places] /\ up \in {"serving", "graced", "settled"}
      /\ updates < MaxUpdates /\ updates' = updates + 1 /\ prev' = dest /\ slips' = 0
      /\ unarmed' \in BOOLEAN /\ broken' \in BOOLEAN
      /\ UNCHANGED <<dest, backup, marker, record, running, up, starts, proven, faults, losses>>
  BY <1>1 DEF Apply, disk, TInv, TypeOK
<1>4. /\ "update" \in Threads /\ at' \in [Threads -> Places] /\ at'["update"] = r
      /\ \A s \in Threads : s # "update" => at'[s] = at[s]
  BY <1>2, <1>3 DEF Threads
<1>5. updates' \in 0..MaxUpdates /\ slips' \in 0..MaxFaults /\ slips' <= faults'
  BY <1>3, BuildAssumption DEF TInv, TypeOK
<1>6. TypeOK'
  BY <1>3, <1>4, <1>5 DEF TInv, TypeOK
<1>7. PlaceInv'
  <2>1. at["startup"] = Rest
    BY <1>3, PhaseFacts
  <2>2. QED BY <1>2, <1>3, <1>4, <1>5, <2>1, RanPlaced
<1>8. QED BY <1>6, <1>7 DEF TInv

\* The marker, the record and the phase after an operation.
LEMMA RecordsType ==
  ASSUME TypeOK, NEW q \in Places, Records1(q), q.op = "count" => ~Exhausted
  PROVE  /\ marker' \in [attempts : 0..MaxAttempts, ver : {None} \cup Versions, found : SUBSET Targets]
         /\ record' \in {None} \cup Versions
<1>1. PICK a, v, c : /\ marker = [attempts |-> a, ver |-> v, found |-> c]
                     /\ a \in 0..MaxAttempts /\ v \in {None} \cup Versions /\ c \in SUBSET Targets
  BY DEF TypeOK
<1>2. Target \in Versions /\ q.found \in SUBSET Targets /\ MaxAttempts \in Nat
  BY VersionFacts, BuildAssumption DEF Places
<1>3. record' \in {None} \cup Versions
  BY <1>1 DEF Records1, TypeOK
<1>4. CASE q.op \in {"arm", "rearm"}
  <2>1. marker' = [attempts |-> 0, ver |-> Target, found |-> q.found]
    BY <1>4 DEF Records1
  <2>2. QED BY <1>2, <1>3, <2>1
<1>5. CASE q.op = "count"
  <2>1. marker' = [attempts |-> a + 1, ver |-> v, found |-> c]
    BY <1>1, <1>5 DEF Records1
  <2>2. a + 1 \in 0..MaxAttempts
    BY <1>1, <1>2, <1>5 DEF Exhausted
  <2>3. QED BY <1>1, <1>3, <2>1, <2>2
<1>6. CASE q.op = "disarm"
  <2>1. marker' = [attempts |-> 0, ver |-> None, found |-> {}]
    BY <1>6 DEF Records1, NoMarker
  <2>2. QED BY <1>2, <1>3, <2>1
<1>7. CASE q.op \notin {"arm", "rearm", "count", "disarm"}
  <2>1. marker' = marker
    BY <1>7 DEF Records1
  <2>2. QED BY <1>1, <1>3, <2>1
<1>8. QED BY <1>4, <1>5, <1>6, <1>7

LEMMA ExecType ==
  ASSUME TInv, NEW p \in Threads, Exec(p) PROVE TInv'
<1>1. PICK q : q = at[p]
  OBVIOUS
<1>2. /\ q \in Places /\ Placed(p, q) /\ Effect(q) /\ Records1(q)
      /\ q.op \in {"exit", "restart"} => GoDown
      /\ UNCHANGED <<starts, updates, prev, proven, unarmed, slips, broken, faults, losses>>
  BY <1>1, ExecFacts
<1>3. ASSUME q.op \notin {"exit", "restart"}
      PROVE  /\ Ran(p, q, Onward(q)) /\ Went(q, Onward(q)) /\ (Onward(q) = Rest \/ Placed(p, Onward(q)))
             /\ up' = (IF q.op = "serve" THEN "serving" ELSE up) /\ running' = running
  BY <1>1, <1>3, ExecFacts
<1>4. dest' \in Files /\ backup' \in Files
  BY <1>2 DEF Effect
<1>5. q.op = "count" => p = "startup"
  BY <1>2, PlacedFacts DEF Threads, OnVerify, OnCommit, OnUndo, OnGiveUp
<1>6. q.op = "count" => ~Exhausted
  BY <1>1, <1>5 DEF TInv, PlaceInv
<1>7. /\ marker' \in [attempts : 0..MaxAttempts, ver : {None} \cup Versions, found : SUBSET Targets]
      /\ record' \in {None} \cup Versions
  BY <1>2, <1>6, RecordsType DEF TInv
<1>8. slips' <= faults'
  BY <1>2 DEF TInv, PlaceInv
<1>9. /\ at' \in [Threads -> Places] /\ running' \in {None} \cup Versions
      /\ up' \in {"off", "gate", "serving", "graced", "settled"}
  <2>1. CASE q.op \in {"exit", "restart"}
    BY <1>2, <2>1, DownFacts DEF IdlePlaced
  <2>2. CASE q.op \notin {"exit", "restart"}
    BY <1>3, <2>2 DEF Ran, TInv, TypeOK
  <2>3. QED BY <2>1, <2>2
<1>10. TypeOK'
  BY <1>2, <1>4, <1>7, <1>9 DEF TInv, TypeOK
<1>11. PlaceInv'
  <2>1. CASE q.op \in {"exit", "restart"}
    BY <1>2, <1>8, <2>1, DownPlaced
  <2>2. CASE q.op \notin {"exit", "restart"}
    <3>1. PICK r : r = Onward(q)
      OBVIOUS
    <3>2. /\ r = at'[p] /\ r \in Places /\ (r = Rest \/ Placed(p, r)) /\ Went(q, r) /\ q # Rest
          /\ \A s \in Threads : s # p => at'[s] = at[s]
      BY <1>3, <2>2, <3>1 DEF Ran
    <3>3. q.op = "serve" => p = "startup" /\ r = Rest
      <4>1. q.op = "serve" => p = "startup" /\ OnStart(q)
        BY <1>2, PlacedFacts DEF Threads, OnRollback, OnVerify, OnCommit, OnUndo, OnGiveUp
      <4>2. QED BY <3>2, <4>1 DEF Went, OnStart, StartWent
    <3>4. up' = (IF q.op = "serve" THEN "serving" ELSE up)
      BY <1>3, <2>2
    <3>5. /\ p = "startup" => up = "gate"
          /\ p = "verify" => up = "graced"
          /\ p = "update" => up \in {"serving", "graced", "settled"}
      BY <1>1, <3>2 DEF TInv, PlaceInv
    <3>6. p # "startup" => at["startup"] = Rest
      BY <3>5, PhaseFacts DEF Threads
    <3>7. \A s \in Threads : s # p /\ at[s] # Rest => up' = up
      <4>1. p = "startup" => at["verify"] = Rest /\ at["update"] = Rest
        BY <3>5, PhaseFacts
      <4>2. QED BY <3>3, <3>4, <4>1 DEF Threads
    <3>8. p = "startup" => r.op # "count"
      <4>1. p = "startup" => OnStart(q) \/ OnRollback(q)
        BY <1>2, PlacedFacts
      <4>2. OnStart(q) => r.op # "count"
        BY <3>2, RestFacts DEF Went, OnStart, StartWent
      <4>3. OnRollback(q) => r.op # "count"
        BY <3>2 DEF Went, OnRollback, RollbackWent
      <4>4. QED BY <4>1, <4>2, <4>3
    <3>9. /\ r # Rest /\ p = "startup" => up' = "gate"
          /\ r # Rest /\ p = "verify" => up' = "graced"
          /\ r # Rest /\ p = "update" => up' \in {"serving", "graced", "settled"}
      BY <3>3, <3>4, <3>5
    <3>10. QED BY <1>8, <1>9, <3>2, <3>6, <3>7, <3>8, <3>9, RanPlaced
  <2>3. QED BY <2>1, <2>2
<1>12. QED BY <1>10, <1>11 DEF TInv

LEMMA FailType ==
  ASSUME TInv, NEW p \in Threads, OpFails(p) PROVE TInv'
<1>1. PICK q, r : q = at[p] /\ r = FailOnward(q)
  OBVIOUS
<1>2. /\ q \in Places /\ Placed(p, q) /\ q.op \in Fallible /\ Placed(p, r)
      /\ Ran(p, q, r)
      /\ faults' = faults + 1 /\ faults < MaxFaults
      /\ unarmed' = (unarmed \/ q.op \in {"arm", "rearm", "backup"})
      /\ slips' = (IF q.op = "count" THEN slips + 1 ELSE slips)
      /\ broken' = (broken \/ q.op \in {"backup", "restore"})
      /\ UNCHANGED <<dest, backup, marker, record, running, up, starts, updates, prev, proven, losses>>
  BY <1>1, FailFacts
<1>3. q.op \in {"arm", "count", "restore"} => r = Onward(q) /\ Went(q, r)
  BY <1>1, FailFacts
<1>4. slips' <= faults' /\ slips' \in 0..MaxFaults /\ faults' \in 0..MaxFaults
  BY <1>2, BuildAssumption DEF TInv, TypeOK, PlaceInv
<1>5. at' \in [Threads -> Places] /\ r = at'[p] /\ r \in Places /\ \A s \in Threads : s # p => at'[s] = at[s]
  BY <1>2 DEF Ran, TInv, TypeOK
<1>6. TypeOK'
  BY <1>2, <1>4, <1>5 DEF TInv, TypeOK
<1>7. PlaceInv'
  <2>1. q # Rest
    BY <1>2 DEF Ran
  <2>2. /\ p = "startup" => up = "gate"
        /\ p = "verify" => up = "graced"
        /\ p = "update" => up \in {"serving", "graced", "settled"}
    BY <1>1, <2>1 DEF TInv, PlaceInv
  <2>3. p # "startup" => at["startup"] = Rest
    BY <2>2, PhaseFacts DEF Threads
  <2>4. p = "startup" => r.op # "count"
    <3>1. p = "startup" => OnStart(q) \/ OnRollback(q)
      BY <1>2, PlacedFacts
    <3>2. p = "startup" => q.op \in {"count", "restore"}
      BY <1>2, <3>1 DEF Fallible, OnStart, OnRollback
    <3>3. OnStart(q) /\ Went(q, r) => r.op # "count"
      BY RestFacts DEF Went, OnStart, StartWent
    <3>4. OnRollback(q) /\ Went(q, r) => r.op # "count"
      BY DEF Went, OnRollback, RollbackWent
    <3>5. QED BY <1>3, <3>1, <3>2, <3>3, <3>4
  <2>5. QED BY <1>2, <1>4, <1>5, <2>2, <2>3, <2>4, RanPlaced
<1>8. QED BY <1>6, <1>7 DEF TInv

\* The types are inductive.
LEMMA TypeNext ==
  ASSUME TInv, [Next]_vars PROVE TInv'
<1>1. CASE UNCHANGED vars
  <2>1. UNCHANGED <<dest, backup, marker, record, running, up, at, starts, updates, prev, proven, unarmed, slips, broken,
                    faults, losses>>
    BY <1>1 DEF vars, disk, process, ghost
  <2>2. TypeOK'
    BY <2>1 DEF TInv, TypeOK
  <2>3. PlaceInv'
    BY <2>1 DEF TInv, PlaceInv, Exhausted
  <2>4. QED BY <2>2, <2>3 DEF TInv
<1>2. CASE Next
  BY <1>2, StartType, GateType, DownType, GraceType, SettleType, ApplyType, ExecType, FailType DEF Next
<1>3. QED BY <1>1, <1>2

\* Every variable keeps its type, whatever the size of the bundle and the
\* bounds: no marker counts more than MAX_PENDING_START_ATTEMPTS starts
\* (startup_update_health_check).
THEOREM TypeCorrect == Spec => []TypeOK
<1>1. Init => TInv
  BY InitType
<1>2. TInv /\ [Next]_vars => TInv'
  BY TypeNext
<1>3. TInv => TypeOK
  BY DEF TInv
<1>4. QED BY <1>1, <1>2, <1>3, PTL DEF Spec

-----------------------------------------------------------------------------
(* While nothing is broken: the steps of the process.                       *)

LEMMA InitSound ==
  ASSUME Init PROVE Sound
<1>1. /\ at["startup"] = Rest /\ at["verify"] = Rest /\ at["update"] = Rest
      /\ \A p \in Threads : at[p] = Rest
      /\ Rest.job = "none" /\ Rest.op = "none"
  BY RestFacts DEF Init, Idle, Threads
<1>2. Server \in Targets /\ dest[Server] = 1 /\ prev[Server] = 1 /\ backup[Server] = None
  BY BundleAssumption DEF Init, Server, Targets
<1>3. ~Armed /\ up = "settled" /\ proven = {1} /\ ~Doubtful
  BY DEF Init, Armed, Doubtful, Target
<1>4. MarkInv
  BY <1>1, <1>3 DEF MarkInv
<1>5. ArmInv
  BY <1>1, <1>3 DEF ArmInv
<1>6. ServerInv
  BY <1>1, <1>2, <1>3 DEF ServerInv
<1>7. FileInv
  BY <1>3 DEF FileInv
<1>8. CommitInv /\ RollbackInv
  BY <1>1 DEF CommitInv, RollbackInv
<1>9. QED BY <1>4, <1>5, <1>6, <1>7, <1>8 DEF Sound

\* The files, and what is known of them, are left alone.
Still == UNCHANGED <<dest, backup, updates, prev>>

LEMMA StillFacts ==
  ASSUME Still
  PROVE  /\ \A t \in Targets : /\ Kept(t)' <=> Kept(t)
                               /\ Aside(t)' <=> Aside(t)
                               /\ Replaced(t)' <=> Replaced(t)
                               /\ Shape(t)' <=> Shape(t)
         /\ Kept(Server)' <=> Kept(Server)
         /\ AllKept' <=> AllKept
         /\ Found' = Found /\ Target' = Target
BY DEF Still, Kept, Aside, Replaced, Shape, AllKept, Found, Target

LEMMA StillFiles ==
  ASSUME FileInv, Still, proven \subseteq proven', unarmed => unarmed', Armed' <=> Armed
  PROVE  FileInv'
<1>1. Doubtful' => Doubtful
  BY StillFacts DEF Doubtful
<1>2. QED BY <1>1, StillFacts DEF FileInv

\* The process is gone.
LEMMA DownSound ==
  ASSUME Sound, GoDown, Still, UNCHANGED <<marker, proven, unarmed>>
  PROVE  Sound'
<1>1. /\ at'["startup"] = Rest /\ at'["verify"] = Rest /\ at'["update"] = Rest
      /\ \A p \in Threads : at'[p] = Rest
      /\ Rest.job = "none" /\ Rest.op = "none" /\ up' = "off"
  BY DownFacts, RestFacts DEF IdlePlaced, Threads
<1>2. Armed' <=> Armed
  BY DEF Armed
<1>3. MarkInv'
  BY <1>1, <1>2, StillFacts DEF MarkInv, Sound
<1>4. ArmInv'
  BY <1>1 DEF ArmInv
<1>5. ServerInv'
  BY <1>1, StillFacts DEF ServerInv, Sound, Still
<1>6. FileInv'
  BY <1>2, StillFiles DEF Sound
<1>7. CommitInv' /\ RollbackInv'
  BY <1>1 DEF CommitInv, RollbackInv
<1>8. QED BY <1>3, <1>4, <1>5, <1>6, <1>7 DEF Sound

\* Of what is not at rest there is only one.
LEMMA AloneFacts ==
  ASSUME TInv, Sound
  PROVE  /\ Rest.job = "none" /\ Rest.op = "none"
         /\ at["update"] # Rest => up = "settled" /\ at["startup"] = Rest /\ at["verify"] = Rest
         /\ at["startup"] # Rest => up = "gate" /\ at["update"] = Rest /\ at["verify"] = Rest
         /\ at["verify"] # Rest => up = "graced" /\ at["update"] = Rest /\ at["startup"] = Rest
         /\ up \in {"off", "gate", "serving", "graced"} => at["update"] = Rest
<1>1. Rest.job = "none" /\ Rest.op = "none"
  BY RestFacts
<1>2. /\ at["startup"] # Rest => up = "gate"
      /\ at["verify"] # Rest => up = "graced"
      /\ at["update"] # Rest => up = "settled"
  BY DEF TInv, PlaceInv, Sound, ArmInv
<1>3. QED BY <1>1, <1>2

LEMMA StartSound ==
  ASSUME TInv, Sound, Start PROVE Sound'
<1>1. /\ up = "off" /\ up' = "gate" /\ running' = dest[Server] /\ Still
      /\ UNCHANGED <<marker, at, proven, unarmed>>
  BY DEF Start, disk, ghost, Still
<1>2. at["startup"] = Rest /\ at["verify"] = Rest /\ at["update"] = Rest /\ Rest.job = "none" /\ Rest.op = "none"
  BY <1>1, PhaseFacts, RestFacts
<1>3. Armed' <=> Armed
  BY <1>1 DEF Armed
<1>4. MarkInv'
  BY <1>1, <1>3, StillFacts DEF MarkInv, Sound
<1>5. ArmInv'
  BY <1>1, <1>2 DEF ArmInv
<1>6. ServerInv'
  BY <1>1, <1>2, StillFacts DEF ServerInv, Sound, Still
<1>7. FileInv'
  BY <1>1, <1>3, StillFiles DEF Sound
<1>8. CommitInv' /\ RollbackInv'
  BY <1>1, <1>2 DEF CommitInv, RollbackInv
<1>9. QED BY <1>4, <1>5, <1>6, <1>7, <1>8 DEF Sound

LEMMA GateSound ==
  ASSUME TInv, Sound, Gate PROVE Sound'
<1>1. PICK r : r = GateBegins
  OBVIOUS
<1>2. /\ r \in Places
      /\ \/ Armed /\ OnRollback(r) /\ r.op = "drop" /\ r.n = Size /\ r.found = marker.found
         \/ Armed /\ OnStart(r) /\ r.op = "count"
         \/ ~Armed /\ OnStart(r) /\ r.op = "serve"
  BY <1>1, GateBeginsFacts DEF TInv
<1>3. /\ at' = [at EXCEPT !["startup"] = r] /\ at \in [Threads -> Places]
      /\ up = "gate" /\ up' = "gate" /\ at["startup"] = Rest /\ Still
      /\ UNCHANGED <<marker, running, proven, unarmed>>
  BY <1>1 DEF Gate, disk, ghost, TInv, TypeOK, Still
<1>4. at'["startup"] = r /\ at'["verify"] = Rest /\ at'["update"] = Rest /\ Rest.job = "none" /\ Rest.op = "none"
  BY <1>3, PhaseFacts, RestFacts DEF Threads
<1>5. Armed' <=> Armed
  BY <1>3 DEF Armed
<1>6. MarkInv'
  <2>1. r.job = "rollback" => r.found = Found
    BY <1>2 DEF OnStart, Sound, MarkInv
  <2>2. r.job \in {"rollback", "start"}
    BY <1>2 DEF OnStart, OnRollback
  <2>3. \A p \in Threads : at'[p].job \in {"commit", "undo", "giveup", "rollback", "verify"} => at'[p].found = Found'
    BY <1>3, <1>4, <2>1, <2>2, StillFacts DEF Threads
  <2>4. QED BY <1>3, <1>5, <2>3, StillFacts DEF MarkInv, Sound
<1>7. ArmInv'
  BY <1>2, <1>3, <1>4, <1>5 DEF ArmInv, OnRollback, OnStart
<1>8. ServerInv'
  <2>1. running = dest[Server]
    BY <1>3, RestFacts DEF ServerInv, Sound
  <2>2. QED BY <1>3, <2>1, StillFacts DEF ServerInv, Sound, Still
<1>9. FileInv'
  BY <1>3, <1>5, StillFiles DEF Sound
<1>10. CommitInv'
  BY <1>4 DEF CommitInv
<1>11. RollbackInv'
  <2>1. CASE r.job = "rollback"
    <3>1. r.op = "drop" /\ r.n = Size
      BY <1>2, <2>1 DEF OnStart
    <3>2. \A t \in Targets : ~(t > r.n)
      BY <3>1, BundleAssumption DEF Targets
    <3>3. QED BY <1>4, <3>1, <3>2 DEF RollbackInv
  <2>2. CASE r.job # "rollback"
    BY <1>4, <2>2 DEF RollbackInv
  <2>3. QED BY <2>1, <2>2
<1>12. QED BY <1>6, <1>7, <1>8, <1>9, <1>10, <1>11 DEF Sound

LEMMA GraceSound ==
  ASSUME TInv, Sound, Grace PROVE Sound'
<1>1. PICK r : r = VerifyBegins
  OBVIOUS
<1>2. /\ Armed => OnVerify(r) /\ r.op = "discard" /\ r.found = marker.found
      /\ ~Armed => r = Rest
  BY <1>1, VerifyBeginsFacts DEF TInv
<1>3. /\ at' = [at EXCEPT !["verify"] = r] /\ at \in [Threads -> Places]
      /\ up = "serving" /\ up' = "graced" /\ Still
      /\ proven' = proven \cup {running}
      /\ UNCHANGED <<marker, running, unarmed>>
  BY <1>1 DEF Grace, Healthy, disk, TInv, TypeOK, Still
<1>4. at'["verify"] = r /\ at'["startup"] = Rest /\ at'["update"] = Rest /\ Rest.job = "none" /\ Rest.op = "none"
  BY <1>3, PhaseFacts, AloneFacts DEF Threads
<1>5. Armed' <=> Armed
  BY <1>3 DEF Armed
<1>6. MarkInv'
  <2>1. (r.job = "verify" /\ r.found = Found) \/ r = Rest
    BY <1>2 DEF OnVerify, Sound, MarkInv
  <2>2. \A p \in Threads : at'[p].job \in {"commit", "undo", "giveup", "rollback", "verify"} => at'[p].found = Found'
    BY <1>4, <2>1, StillFacts, <1>3 DEF Threads
  <2>3. QED BY <1>3, <1>5, <2>2, StillFacts DEF MarkInv, Sound
<1>7. ArmInv'
  BY <1>2, <1>3, <1>4, <1>5 DEF ArmInv
<1>8. ServerInv'
  <2>1. running = dest[Server]
    BY <1>3 DEF ServerInv, Sound
  <2>2. QED BY <1>3, <2>1, StillFacts DEF ServerInv, Sound, Still
<1>9. FileInv'
  BY <1>3, <1>5, StillFiles DEF Sound
<1>10. CommitInv' /\ RollbackInv'
  BY <1>4 DEF CommitInv, RollbackInv
<1>11. QED BY <1>6, <1>7, <1>8, <1>9, <1>10 DEF Sound

LEMMA SettleSound ==
  ASSUME TInv, Sound, Settle PROVE Sound'
<1>1. /\ up = "graced" /\ up' = "settled" /\ at["verify"] = Rest /\ Still
      /\ UNCHANGED <<marker, running, at, proven, unarmed>>
  BY DEF Settle, disk, ghost, Still
<1>2. at["startup"] = Rest /\ at["update"] = Rest /\ Rest.job = "none" /\ Rest.op = "none"
  BY <1>1, PhaseFacts, AloneFacts
<1>3. Armed' <=> Armed
  BY <1>1 DEF Armed
<1>4. ~Armed
  BY <1>1, <1>2 DEF Sound, ArmInv
<1>5. MarkInv'
  BY <1>1, <1>3, StillFacts DEF MarkInv, Sound
<1>6. ArmInv'
  BY <1>1, <1>2, <1>3, <1>4 DEF ArmInv
<1>7. ServerInv'
  BY <1>1, StillFacts DEF ServerInv, Sound, Still
<1>8. FileInv'
  BY <1>1, <1>3, StillFiles DEF Sound
<1>9. CommitInv' /\ RollbackInv'
  BY <1>1, <1>2 DEF CommitInv, RollbackInv
<1>10. QED BY <1>5, <1>6, <1>7, <1>8, <1>9 DEF Sound

\* A new update finds no marker and no file set aside.
LEMMA ApplySound ==
  ASSUME TInv, Sound, Apply, ~broken' PROVE Sound'
<1>1. PICK r : r = CommitBegins
  OBVIOUS
<1>2. OnCommit(r) /\ r.op = "arm" /\ r.found = {t \in Targets : dest[t] # None}
  BY <1>1, CommitBeginsFacts
<1>3. /\ at' = [at EXCEPT !["update"] = r] /\ at \in [Threads -> Places]
      /\ up = "settled" /\ at["update"] = Rest /\ prev' = dest
      /\ \A t \in Targets : backup[t] = None
      /\ UNCHANGED <<dest, backup, marker, running, up, proven>>
  BY <1>1 DEF Apply, disk, TInv, TypeOK
<1>4. at'["verify"] = Rest /\ at'["startup"] = Rest /\ at'["update"] = r /\ Rest.job = "none" /\ Rest.op = "none"
  BY <1>3, PhaseFacts, AloneFacts DEF Threads
<1>5. ~Armed /\ ~Armed'
  BY <1>3 DEF Armed, Sound, ArmInv
<1>6. AllKept'
  BY <1>3 DEF AllKept, Kept
<1>7. r.found = Found'
  BY <1>2, <1>3 DEF Found
<1>8. MarkInv'
  <2>1. \A p \in Threads : at'[p].job \in {"commit", "undo", "giveup", "rollback", "verify"} => at'[p].found = Found'
    BY <1>4, <1>7 DEF Threads
  <2>2. QED BY <1>5, <2>1 DEF MarkInv
<1>9. r # Rest
  BY <1>2, <1>4
<1>10. ArmInv'
  BY <1>2, <1>3, <1>4, <1>5, <1>9 DEF ArmInv
<1>11. ServerInv'
  <2>1. dest[Server] \in proven
    BY <1>3 DEF Sound, ServerInv
  <2>2. Server \in Targets
    BY VersionFacts DEF TInv
  <2>3. QED BY <1>3, <1>4, <1>9, <2>1, <2>2 DEF ServerInv
<1>12. FileInv'
  BY <1>5, <1>6 DEF FileInv
<1>13. CommitInv' /\ RollbackInv'
  BY <1>2, <1>4, <1>6 DEF CommitInv, RollbackInv, OnCommit
<1>14. QED BY <1>8, <1>10, <1>11, <1>12, <1>13 DEF Sound

-----------------------------------------------------------------------------
(* The updater.                                                             *)

\* The updater goes on from q to r.
Updates(q, r) ==
  /\ q \in Places /\ (OnCommit(q) \/ OnUndo(q) \/ OnGiveUp(q))
  /\ q = at["update"] /\ r = at'["update"] /\ q # Rest /\ q.op # "serve"
  /\ at["startup"] = Rest /\ at["verify"] = Rest /\ at'["startup"] = Rest /\ at'["verify"] = Rest
  /\ up = "settled" /\ up' = "settled"
  /\ q.found = Found /\ Found' = Found /\ Target' = Target
  /\ Effect(q) /\ Records1(q)
  /\ UNCHANGED <<running, updates, prev, proven, unarmed>>

LEMMA UpdateFacts ==
  ASSUME TInv, Sound, Exec("update"), NEW q, q = at["update"], q.op # "restart", NEW r, r = Onward(q)
  PROVE  Updates(q, r) /\ Went(q, r)
<1>1. "update" \in Threads
  BY DEF Threads
<1>2. /\ q \in Places /\ Placed("update", q) /\ Effect(q) /\ Records1(q)
      /\ UNCHANGED <<updates, prev, proven, unarmed>>
  BY <1>1, ExecFacts
<1>3. q # Rest /\ (OnCommit(q) \/ OnUndo(q) \/ OnGiveUp(q))
  BY <1>1, <1>2, PlacedFacts
<1>4. q.op \notin {"exit", "serve"} /\ q.job \in {"commit", "undo", "giveup"}
  BY <1>3 DEF OnCommit, OnUndo, OnGiveUp
<1>5. /\ Ran("update", q, r) /\ Went(q, r)
      /\ up' = up /\ running' = running
  BY <1>1, <1>4, ExecFacts
<1>6. up = "settled" /\ at["startup"] = Rest /\ at["verify"] = Rest
  BY <1>3, AloneFacts
<1>7. r = at'["update"] /\ at'["startup"] = Rest /\ at'["verify"] = Rest
  BY <1>5, <1>6 DEF Ran, Threads
<1>8. q.found = Found
  BY <1>1, <1>4 DEF Sound, MarkInv
<1>9. Found' = Found /\ Target' = Target
  BY <1>2 DEF Found, Target
<1>10. QED BY <1>2, <1>3, <1>4, <1>5, <1>6, <1>7, <1>8, <1>9 DEF Updates

\* What the marker is after an operation.
MarkEffect(q) ==
  /\ q.op \in {"arm", "rearm"} => Armed' /\ marker'.ver = Target /\ marker'.found = q.found
  /\ q.op = "disarm" => ~Armed'
  /\ q.op \notin {"arm", "rearm", "count", "disarm"} => marker' = marker /\ (Armed' <=> Armed)
  /\ q.op = "count" => Armed' /\ marker'.ver = marker.ver /\ marker'.found = marker.found

LEMMA MarkFacts ==
  ASSUME TypeOK, NEW q \in Places, Records1(q)
  PROVE  MarkEffect(q)
<1>1. Target # None
  BY VersionFacts
<1>2. CASE q.op \in {"arm", "rearm"}
  <2>1. marker' = [attempts |-> 0, ver |-> Target, found |-> q.found]
    BY <1>2 DEF Records1
  <2>2. QED BY <1>1, <1>2, <2>1 DEF MarkEffect, Armed, NoMarker
<1>3. CASE q.op = "disarm"
  BY <1>3 DEF Records1, MarkEffect, Armed
<1>4. CASE q.op = "count"
  <2>1. PICK a, v, c : marker = [attempts |-> a, ver |-> v, found |-> c] /\ a \in 0..MaxAttempts
    BY DEF TypeOK
  <2>2. marker' = [attempts |-> a + 1, ver |-> v, found |-> c] /\ a + 1 # 0
    BY <1>4, <2>1, BuildAssumption DEF Records1
  <2>3. QED BY <1>4, <2>1, <2>2 DEF MarkEffect, Armed, NoMarker
<1>5. CASE q.op \notin {"arm", "rearm", "count", "disarm"}
  BY <1>5 DEF Records1, MarkEffect, Armed
<1>6. QED BY <1>2, <1>3, <1>4, <1>5

LEMMA UpdateMark ==
  ASSUME TInv, Sound, NEW q, NEW r, Updates(q, r), Went(q, r)
  PROVE  MarkInv' /\ ArmInv' /\ RollbackInv'
<1>1. MarkEffect(q) /\ Rest.job = "none" /\ Rest.op = "none"
  BY MarkFacts, RestFacts DEF Updates, TInv
<1>2. /\ q.op # "count"
      /\ r = Rest => q.op = "disarm"
      /\ r # Rest => r.found = q.found
      /\ r.op # "arm"
      /\ q.op = "disarm" => r = Rest \/ unarmed
  <2>1. CASE OnCommit(q)
    <3>1. CommitWent(q, r)
      BY <2>1 DEF OnCommit, Went
    <3>2. QED BY <1>1, <2>1, <3>1 DEF OnCommit, CommitWent
  <2>2. CASE OnUndo(q)
    <3>1. UndoWent(q, r)
      BY <2>2 DEF OnUndo, Went
    <3>2. QED BY <1>1, <2>2, <3>1 DEF OnUndo, UndoWent
  <2>3. CASE OnGiveUp(q)
    <3>1. GiveUpWent(q, r) /\ unarmed
      BY <2>3 DEF OnGiveUp, Went, Updates, Sound, CommitInv
    <3>2. QED BY <1>1, <2>3, <3>1 DEF OnGiveUp, GiveUpWent
  <2>4. QED BY <2>1, <2>2, <2>3 DEF Updates
<1>3. MarkInv'
  <2>1. Armed' => marker'.ver = Target' /\ marker'.found = Found'
    BY <1>1, <1>2 DEF MarkEffect, Updates, Sound, MarkInv
  <2>2. \A p \in Threads : at'[p].job \in {"commit", "undo", "giveup", "rollback", "verify"} => at'[p].found = Found'
    BY <1>1, <1>2 DEF Updates, Threads
  <2>3. QED BY <2>1, <2>2 DEF MarkInv
<1>4. ArmInv'
  <2>1. r = Rest => ~Armed'
    BY <1>1, <1>2 DEF MarkEffect
  <2>2. r # Rest /\ ~unarmed => Armed'
    <3>1. SUFFICES ASSUME r # Rest, ~unarmed PROVE Armed'
      OBVIOUS
    <3>2. q.op # "disarm" /\ q.op # "count"
      BY <1>2, <3>1
    <3>3. CASE q.op \in {"arm", "rearm"}
      BY <1>1, <3>3 DEF MarkEffect
    <3>4. CASE q.op \notin {"arm", "rearm"}
      <4>1. Armed
        BY <3>1, <3>4 DEF Updates, Sound, ArmInv
      <4>2. QED BY <1>1, <3>2, <3>4, <4>1 DEF MarkEffect
    <3>5. QED BY <3>3, <3>4
  <2>3. r.job = "giveup" /\ r.op # "disarm" => ~Armed'
    <3>1. SUFFICES ASSUME r.job = "giveup" PROVE ~Armed'
      OBVIOUS
    <3>2. OnGiveUp(q)
      BY <1>1, <3>1 DEF Updates, Went, OnCommit, OnUndo, CommitWent, UndoWent
    <3>3. q.op = "discard" => ~Armed
      BY <3>2 DEF Updates, OnGiveUp, Sound, ArmInv
    <3>4. q.op \in {"disarm", "discard"}
      BY <3>2 DEF OnGiveUp, Went, GiveUpWent
    <3>5. QED BY <1>1, <3>3, <3>4 DEF MarkEffect
  <2>4. QED BY <1>1, <1>2, <2>1, <2>2, <2>3 DEF Updates, ArmInv
<1>5. RollbackInv'
  BY <1>1 DEF RollbackInv, Updates
<1>6. QED BY <1>3, <1>4, <1>5

LEMMA UpdateServer ==
  ASSUME TInv, Sound, NEW q, NEW r, Updates(q, r), Went(q, r)
  PROVE  ServerInv'
<1>1. /\ Server \in Targets /\ prev[Server] \in proven
      /\ dest[Server] \in {None, prev[Server], Target} /\ backup[Server] \in {None, prev[Server]}
  BY VersionFacts DEF TInv, Sound, ServerInv
<1>2. q.op = "backup" /\ q.n = Server => dest[Server] = prev[Server]
  <2>1. q.op = "backup" => q.job = "commit"
    BY DEF Updates, OnCommit, OnUndo, OnGiveUp
  <2>2. SUFFICES ASSUME q.op = "backup", q.n = Server PROVE dest[Server] = prev[Server]
    OBVIOUS
  <2>3. ~(Server < q.n)
    BY <2>2 DEF Server
  <2>4. QED BY <1>1, <2>1, <2>2, <2>3 DEF Updates, Sound, CommitInv, Kept
<1>3. dest'[Server] \in {None, prev[Server], Target} /\ backup'[Server] \in {None, prev[Server]}
  <2>1. CASE q.n # Server \/ q.op \notin Loops
    BY <1>1, <2>1 DEF Updates, Effect, SameFile
  <2>2. CASE q.n = Server /\ q.op \in Loops
    BY <1>1, <1>2, <2>2 DEF Updates, Effect, SameFile, Loops
  <2>3. QED BY <2>1, <2>2
<1>4. r = Rest => dest'[Server] \in proven
  <2>1. SUFFICES ASSUME r = Rest PROVE dest'[Server] \in proven
    OBVIOUS
  <2>2. q.op = "disarm" /\ q.job = "undo"
    BY <2>1, RestFacts DEF Updates, Went, OnCommit, OnUndo, OnGiveUp, CommitWent, UndoWent, GiveUpWent
  <2>3. dest[Server] = prev[Server]
    BY <1>1, <2>2 DEF Updates, Sound, CommitInv, AllKept, Kept
  <2>4. dest' = dest
    BY <2>2 DEF Updates, Effect, Loops
  <2>5. QED BY <1>1, <2>3, <2>4
<1>5. QED BY <1>1, <1>3, <1>4 DEF Updates, ServerInv

\* Files at other targets than the operation's, or all of them, are as before.
LEMMA Elsewhere ==
  ASSUME NEW q, Effect(q), UNCHANGED <<updates, prev>>, NEW t \in Targets, t # q.n \/ q.op \notin Loops
  PROVE  /\ Kept(t)' <=> Kept(t)
         /\ Aside(t)' <=> Aside(t)
         /\ Replaced(t)' <=> Replaced(t)
BY DEF Effect, SameFile, Kept, Aside, Replaced, Target

\* What the files are after a step of the updater follows from the shapes.
LEMMA UpdateShapes ==
  ASSUME TInv', ServerInv', ArmInv', at'["update"] # Rest, at'["update"].op # "arm",
         \A t \in Targets : Shape(t)',
         AllKept' \/ Aside(Server)' \/ Replaced(Server)'
  PROVE  FileInv'
<1>1. Doubtful' => AllKept' \/ ~Kept(Server)'
  <2>1. None \notin Versions /\ proven' \subseteq Versions /\ prev'[Server] \in proven'
    BY DEF None, Versions, TInv, TypeOK, ServerInv
  <2>2. CASE Aside(Server)'
    BY <2>1, <2>2 DEF Aside, Kept
  <2>3. CASE Replaced(Server)'
    BY <2>1, <2>3 DEF Replaced, Kept, Doubtful
  <2>4. QED BY <2>2, <2>3
<1>2. ~unarmed' => Armed'
  BY DEF ArmInv
<1>3. QED BY <1>1, <1>2 DEF FileInv

\* The loops: how far the updater has come after its operation.
LEMMA CommitFiles ==
  ASSUME TInv, TInv', Sound, ServerInv', ArmInv', NEW q, NEW r, Updates(q, r), OnCommit(q), q.op # "restart", CommitWent(q, r)
  PROVE  FileInv' /\ CommitInv'
<1>0. /\ r = at'["update"] /\ q = at["update"] /\ r.job = "commit" /\ r.op # "arm" /\ r # Rest
      /\ UNCHANGED <<updates, prev>> /\ Effect(q) /\ q.found = Found
      /\ 1 \in Targets /\ Targets = 1..Size /\ Size \in Nat /\ Server = 1
  BY RestFacts, BundleAssumption DEF Updates, CommitWent, Targets, Server
<1>1. CASE q.op = "arm"
  <2>1. r.op = "backup" /\ r.n = 1
    BY <1>1 DEF CommitWent
  <2>2. \A t \in Targets : Kept(t)'
    <3>1. AllKept /\ q.op \notin Loops
      BY <1>0, <1>1 DEF Sound, CommitInv, OnCommit, Loops
    <3>2. QED BY <1>0, <3>1, Elsewhere DEF AllKept
  <2>3. FileInv'
    BY <1>0, <2>2, UpdateShapes DEF AllKept, Shape
  <2>4. CommitInv'
    BY <1>0, <2>1, <2>2 DEF CommitInv
  <2>5. QED BY <2>3, <2>4
<1>2. CASE q.op = "backup"
  <2>1. r.op = "install" /\ r.n = q.n /\ q.n \in Targets
    BY <1>2 DEF CommitWent, OnCommit
  <2>2. \A t \in Targets : IF t < q.n THEN Replaced(t) ELSE Kept(t)
    BY <1>0, <1>2 DEF Sound, CommitInv, OnCommit
  <2>3. Aside(q.n)'
    <3>1. Kept(q.n)
      BY <1>0, <2>1, <2>2
    <3>2. CASE q.n \in q.found
      BY <1>0, <1>2, <3>1, <3>2 DEF Effect, Aside, Kept
    <3>3. CASE q.n \notin q.found
      <4>1. prev[q.n] = None
        BY <1>0, <2>1, <3>3 DEF Found
      <4>2. QED BY <1>0, <1>2, <3>1, <3>3, <4>1 DEF Effect, SameFile, Aside, Kept
    <3>4. QED BY <3>2, <3>3
  <2>4. \A t \in Targets : IF t < q.n THEN Replaced(t)' ELSE IF t = q.n THEN Aside(t)' ELSE Kept(t)'
    BY <1>0, <2>1, <2>2, <2>3, Elsewhere
  <2>5. FileInv'
    <3>1. Aside(Server)' \/ Replaced(Server)'
      BY <1>0, <2>1, <2>4
    <3>2. \A t \in Targets : Shape(t)'
      BY <2>4 DEF Shape
    <3>3. QED BY <1>0, <3>1, <3>2, UpdateShapes
  <2>6. CommitInv'
    BY <1>0, <2>1, <2>4 DEF CommitInv
  <2>7. QED BY <2>5, <2>6
<1>3. CASE q.op = "install"
  <2>1. q.n \in Targets
    BY <1>3 DEF OnCommit
  <2>2. \A t \in Targets : IF t < q.n THEN Replaced(t) ELSE IF t = q.n THEN Aside(t) ELSE Kept(t)
    BY <1>0, <1>3 DEF Sound, CommitInv, OnCommit
  <2>3. Replaced(q.n)'
    <3>1. Aside(q.n)
      BY <1>0, <2>1, <2>2
    <3>2. QED BY <1>0, <1>3, <3>1 DEF Effect, Aside, Replaced, Target
  <2>4. \A t \in Targets : IF t <= q.n THEN Replaced(t)' ELSE Kept(t)'
    BY <1>0, <2>1, <2>2, <2>3, Elsewhere
  <2>5. FileInv'
    <3>1. Replaced(Server)'
      BY <1>0, <2>1, <2>4
    <3>2. \A t \in Targets : Shape(t)'
      BY <2>4 DEF Shape
    <3>3. QED BY <1>0, <3>1, <3>2, UpdateShapes
  <2>6. CommitInv'
    <3>1. CASE q.n < Size
      <4>1. r.op = "backup" /\ r.n = q.n + 1
        BY <1>0, <1>3, <2>1, <3>1 DEF CommitWent
      <4>2. \A t \in Targets : IF t < r.n THEN Replaced(t)' ELSE Kept(t)'
        BY <1>0, <2>1, <2>4, <4>1
      <4>3. QED BY <1>0, <4>1, <4>2 DEF CommitInv
    <3>2. CASE q.n = Size
      <4>1. r.op = "rearm"
        BY <1>0, <1>3, <2>1, <3>2 DEF CommitWent
      <4>2. \A t \in Targets : Replaced(t)'
        BY <1>0, <2>1, <2>4, <3>2
      <4>3. QED BY <1>0, <4>1, <4>2 DEF CommitInv
    <3>3. QED BY <1>0, <2>1, <3>1, <3>2
  <2>7. QED BY <2>5, <2>6
<1>4. CASE q.op = "rearm"
  <2>1. r.op = "restart"
    BY <1>4 DEF CommitWent
  <2>2. \A t \in Targets : Replaced(t)'
    <3>1. (\A t \in Targets : Replaced(t)) /\ q.op \notin Loops
      BY <1>0, <1>4 DEF Sound, CommitInv, OnCommit, Loops
    <3>2. QED BY <1>0, <3>1, Elsewhere
  <2>3. FileInv'
    BY <1>0, <2>2, UpdateShapes DEF Shape
  <2>4. CommitInv'
    BY <1>0, <2>1, <2>2 DEF CommitInv
  <2>5. QED BY <2>3, <2>4
<1>5. QED BY <1>1, <1>2, <1>3, <1>4 DEF OnCommit

LEMMA UndoFiles ==
  ASSUME TInv, TInv', Sound, ServerInv', ArmInv', NEW q, NEW r, Updates(q, r), OnUndo(q), UndoWent(q, r)
  PROVE  FileInv' /\ CommitInv'
<1>0. /\ r = at'["update"] /\ q = at["update"] /\ q.job = "undo"
      /\ UNCHANGED <<updates, prev>> /\ Effect(q) /\ q.found = Found
      /\ 1 \in Targets /\ Targets = 1..Size /\ Size \in Nat /\ Server = 1
      /\ Rest.job = "none" /\ Rest.op = "none"
  BY RestFacts, BundleAssumption DEF Updates, OnUndo, Targets, Server
<1>1. CASE q.op = "disarm"
  <2>1. r = Rest
    BY <1>1 DEF UndoWent
  <2>2. AllKept'
    <3>1. AllKept /\ q.op \notin Loops
      BY <1>0, <1>1 DEF Sound, CommitInv, Loops
    <3>2. QED BY <1>0, <3>1, Elsewhere DEF AllKept
  <2>3. ~Armed'
    BY <1>1, MarkFacts DEF Updates, MarkEffect, TInv
  <2>4. FileInv'
    BY <2>2, <2>3 DEF FileInv
  <2>5. CommitInv'
    BY <1>0, <2>1 DEF CommitInv
  <2>6. QED BY <2>4, <2>5
<1>2. CASE q.op = "drop"
  <2>1. r.op = "restore" /\ r.n = q.n /\ r.job = "undo" /\ q.n \in Targets
    BY <1>0, <1>2 DEF UndoWent, OnUndo
  <2>2. \A t \in Targets : IF t <= q.n THEN Replaced(t) ELSE Kept(t)
    BY <1>0, <1>2 DEF Sound, CommitInv
  <2>3. Aside(q.n)'
    <3>1. Replaced(q.n) /\ ~PassedOver(q)
      BY <1>0, <2>1, <2>2 DEF PassedOver
    <3>2. QED BY <1>0, <1>2, <3>1 DEF Effect, Aside, Replaced
  <2>4. \A t \in Targets : IF t < q.n THEN Replaced(t)' ELSE IF t = q.n THEN Aside(t)' ELSE Kept(t)'
    BY <1>0, <2>1, <2>2, <2>3, Elsewhere
  <2>5. FileInv'
    <3>1. Aside(Server)' \/ Replaced(Server)'
      BY <1>0, <2>1, <2>4
    <3>2. \A t \in Targets : Shape(t)'
      BY <2>4 DEF Shape
    <3>3. QED BY <1>0, <2>1, <3>1, <3>2, UpdateShapes
  <2>6. CommitInv'
    BY <1>0, <2>1, <2>4 DEF CommitInv
  <2>7. QED BY <2>5, <2>6
<1>3. CASE q.op = "restore"
  <2>1. q.n \in Targets
    BY <1>3 DEF OnUndo
  <2>2. \A t \in Targets : IF t < q.n THEN Replaced(t) ELSE IF t = q.n THEN Aside(t) ELSE Kept(t)
    BY <1>0, <1>3 DEF Sound, CommitInv
  <2>3. Kept(q.n)'
    <3>1. Aside(q.n)
      BY <1>0, <2>1, <2>2
    <3>2. q.n \in q.found <=> prev[q.n] # None
      BY <1>0, <2>1 DEF Found
    <3>3. QED BY <1>0, <1>3, <3>1, <3>2 DEF Effect, SameFile, Aside, Kept
  <2>4. \A t \in Targets : IF t < q.n THEN Replaced(t)' ELSE Kept(t)'
    BY <1>0, <2>1, <2>2, <2>3, Elsewhere
  <2>5. r.job = "undo" /\ r.op \in {"drop", "disarm"}
    BY <1>0, <1>3 DEF UndoWent
  <2>6. FileInv'
    <3>1. AllKept' \/ Replaced(Server)'
      BY <1>0, <2>1, <2>4 DEF AllKept
    <3>2. \A t \in Targets : Shape(t)'
      BY <2>4 DEF Shape
    <3>3. QED BY <1>0, <2>5, <3>1, <3>2, UpdateShapes
  <2>7. CommitInv'
    <3>1. CASE q.n > 1
      <4>1. r.op = "drop" /\ r.n = q.n - 1
        BY <1>0, <1>3, <2>1, <3>1 DEF UndoWent
      <4>2. \A t \in Targets : IF t <= r.n THEN Replaced(t)' ELSE Kept(t)'
        BY <1>0, <2>1, <2>4, <4>1
      <4>3. QED BY <1>0, <2>5, <4>1, <4>2 DEF CommitInv
    <3>2. CASE q.n = 1
      <4>1. r.op = "disarm"
        BY <1>0, <1>3, <2>1, <3>2 DEF UndoWent
      <4>2. AllKept'
        BY <1>0, <2>1, <2>4, <3>2 DEF AllKept
      <4>3. QED BY <1>0, <2>5, <4>1, <4>2 DEF CommitInv
    <3>3. QED BY <1>0, <2>1, <3>1, <3>2
  <2>8. QED BY <2>6, <2>7
<1>4. QED BY <1>1, <1>2, <1>3 DEF OnUndo

\* With no marker, and known to have none, there is nothing to say of files.
LEMMA GiveUpFiles ==
  ASSUME TInv, Sound, NEW q, NEW r, Updates(q, r), OnGiveUp(q), GiveUpWent(q, r)
  PROVE  FileInv' /\ CommitInv'
<1>1. unarmed' /\ r = at'["update"] /\ r.job = "giveup"
  BY DEF Updates, OnGiveUp, GiveUpWent, Sound, CommitInv
<1>2. q.op \in {"disarm", "discard"}
  BY DEF GiveUpWent
<1>3. ~Armed'
  <2>1. q.op = "discard" => ~Armed
    BY DEF Updates, OnGiveUp, Sound, ArmInv
  <2>2. MarkEffect(q)
    BY MarkFacts DEF Updates, TInv
  <2>3. QED BY <1>2, <2>1, <2>2 DEF MarkEffect
<1>4. QED BY <1>1, <1>3 DEF FileInv, CommitInv

LEMMA UpdateSound ==
  ASSUME TInv, TInv', Sound, Exec("update") PROVE Sound'
<1>1. PICK q, r : q = at["update"] /\ r = Onward(q)
  OBVIOUS
<1>2. CASE q.op = "restart"
  <2>1. GoDown /\ Effect(q) /\ Records1(q) /\ q \in Places /\ UNCHANGED <<updates, prev, proven, unarmed>>
    BY <1>1, <1>2, ExecFacts DEF Threads
  <2>2. Still /\ marker' = marker
    BY <1>2, <2>1 DEF Effect, Records1, Still, Loops
  <2>3. QED BY <2>1, <2>2, DownSound
<1>3. CASE q.op # "restart"
  <2>1. Updates(q, r) /\ Went(q, r)
    BY <1>1, <1>3, UpdateFacts
  <2>2. MarkInv' /\ ArmInv' /\ RollbackInv' /\ ServerInv'
    BY <2>1, UpdateMark, UpdateServer
  <2>3. FileInv' /\ CommitInv'
    <3>1. CASE OnCommit(q)
      BY <1>3, <2>1, <2>2, <3>1, CommitFiles DEF OnCommit, Went
    <3>2. CASE OnUndo(q)
      BY <2>1, <2>2, <3>2, UndoFiles DEF OnUndo, Went
    <3>3. CASE OnGiveUp(q)
      BY <2>1, <3>3, GiveUpFiles DEF OnGiveUp, Went
    <3>4. QED BY <2>1, <3>1, <3>2, <3>3 DEF Updates
  <2>4. QED BY <2>2, <2>3 DEF Sound
<1>4. QED BY <1>2, <1>3

-----------------------------------------------------------------------------
(* The gate.                                                                *)

\* The gate goes on from q to r.
Starts(q, r) ==
  /\ q \in Places /\ (OnStart(q) \/ OnRollback(q))
  /\ q = at["startup"] /\ r = at'["startup"] /\ q # Rest
  /\ at["update"] = Rest /\ at["verify"] = Rest /\ at'["update"] = Rest /\ at'["verify"] = Rest
  /\ up = "gate" /\ up' = (IF q.op = "serve" THEN "serving" ELSE "gate")
  /\ q.job = "rollback" => q.found = Found
  /\ Found' = Found /\ Target' = Target
  /\ Effect(q) /\ MarkEffect(q)
  /\ UNCHANGED <<running, updates, prev, proven, unarmed>>

LEMMA StartsFacts ==
  ASSUME TInv, Sound, Exec("startup"), NEW q, q = at["startup"], q.op # "exit", NEW r, r = Onward(q)
  PROVE  Starts(q, r) /\ Went(q, r)
<1>1. "startup" \in Threads
  BY DEF Threads
<1>2. /\ q \in Places /\ Placed("startup", q) /\ Effect(q) /\ Records1(q)
      /\ UNCHANGED <<updates, prev, proven, unarmed>>
  BY <1>1, ExecFacts
<1>3. q # Rest /\ (OnStart(q) \/ OnRollback(q))
  BY <1>1, <1>2, PlacedFacts
<1>4. q.op # "restart"
  BY <1>3 DEF OnStart, OnRollback
<1>5. /\ Ran("startup", q, r) /\ Went(q, r)
      /\ up' = (IF q.op = "serve" THEN "serving" ELSE up) /\ running' = running
  BY <1>1, <1>4, ExecFacts
<1>6. up = "gate" /\ at["update"] = Rest /\ at["verify"] = Rest
  BY <1>3, AloneFacts
<1>7. r = at'["startup"] /\ at'["update"] = Rest /\ at'["verify"] = Rest
  BY <1>5, <1>6 DEF Ran, Threads
<1>8. q.job = "rollback" => q.found = Found
  BY <1>1 DEF Sound, MarkInv
<1>9. Found' = Found /\ Target' = Target
  BY <1>2 DEF Found, Target
<1>10. MarkEffect(q)
  BY <1>2, MarkFacts DEF TInv
<1>11. QED BY <1>2, <1>3, <1>5, <1>6, <1>7, <1>8, <1>9, <1>10 DEF Starts

\* Before it serves, the gate changes no file but for a rollback.
LEMMA StartFiles ==
  ASSUME TInv, Sound, NEW q, NEW r, Starts(q, r), Went(q, r), OnStart(q)
  PROVE  Sound'
<1>0. Rest.job = "none" /\ Rest.op = "none"
  BY RestFacts
<1>1. (q.op = "serve" /\ r = Rest) \/ (q.op = "count" /\ r.job = "start" /\ r.op = "serve")
  BY DEF OnStart, Went, StartWent
<1>2. Still /\ running = dest[Server] /\ running' = running
  <2>1. q.op \notin Loops
    BY DEF OnStart, Loops
  <2>2. q.job # "rollback"
    BY DEF OnStart
  <2>3. QED BY <2>1, <2>2 DEF Starts, Effect, Still, Sound, ServerInv
<1>3. q.op = "count" => Armed
  BY DEF Starts, Sound, ArmInv
<1>4. (Armed' <=> Armed) /\ (Armed' => marker'.ver = marker.ver /\ marker'.found = marker.found)
  BY <1>1, <1>3 DEF Starts, MarkEffect
<1>5. MarkInv'
  <2>1. Armed' => marker'.ver = Target' /\ marker'.found = Found'
    BY <1>4 DEF Starts, Sound, MarkInv
  <2>2. \A p \in Threads : at'[p].job \in {"commit", "undo", "giveup", "rollback", "verify"} => at'[p].found = Found'
    BY <1>0, <1>1 DEF Starts, Threads
  <2>3. QED BY <2>1, <2>2 DEF MarkInv
<1>6. ArmInv'
  BY <1>0, <1>1 DEF Starts, ArmInv
<1>7. ServerInv'
  BY <1>0, <1>1, <1>2, StillFacts DEF Starts, Still, Sound, ServerInv
<1>8. FileInv'
  BY <1>2, <1>4, StillFiles DEF Sound, Starts
<1>9. CommitInv' /\ RollbackInv'
  BY <1>0, <1>1 DEF Starts, CommitInv, RollbackInv
<1>10. QED BY <1>5, <1>6, <1>7, <1>8, <1>9 DEF Sound

LEMMA RollbackMark ==
  ASSUME TInv, Sound, NEW q, NEW r, Starts(q, r), OnRollback(q), RollbackWent(q, r)
  PROVE  /\ MarkInv' /\ ArmInv' /\ CommitInv' /\ Armed
         /\ Armed' <=> q.op # "disarm"
<1>0. Rest.job = "none" /\ Rest.op = "none" /\ r.job = "rollback" /\ r.found = q.found /\ q.job = "rollback"
  BY RestFacts DEF RollbackWent, OnRollback
<1>1. q.op \in {"drop", "restore", "record", "disarm"}
  BY DEF RollbackWent
<1>2. Armed
  BY <1>0, <1>1 DEF Starts, Sound, ArmInv
<1>3. Armed' <=> q.op # "disarm"
  BY <1>1, <1>2 DEF Starts, MarkEffect
<1>4. MarkInv'
  <2>1. Armed' => marker'.ver = Target' /\ marker'.found = Found'
    BY <1>1, <1>2, <1>3 DEF Starts, MarkEffect, Sound, MarkInv
  <2>2. \A p \in Threads : at'[p].job \in {"commit", "undo", "giveup", "rollback", "verify"} => at'[p].found = Found'
    BY <1>0 DEF Starts, Threads
  <2>3. QED BY <2>1, <2>2 DEF MarkInv
<1>5. ArmInv'
  <2>1. r.op # "count" /\ (q.op = "disarm" => r.op = "exit")
    BY DEF RollbackWent
  <2>2. QED BY <1>0, <1>1, <1>3, <2>1 DEF Starts, ArmInv
<1>6. CommitInv'
  BY <1>0 DEF Starts, CommitInv
<1>7. QED BY <1>2, <1>3, <1>4, <1>5, <1>6

LEMMA RollbackServer ==
  ASSUME TInv, Sound, NEW q, NEW r, Starts(q, r), OnRollback(q), RollbackWent(q, r)
  PROVE  ServerInv'
<1>1. /\ Server \in Targets /\ prev[Server] \in proven
      /\ dest[Server] \in {None, prev[Server], Target} /\ backup[Server] \in {None, prev[Server]}
  BY VersionFacts DEF TInv, Sound, ServerInv
<1>2. q.op \in {"drop", "restore", "record", "disarm"} /\ r.job = "rollback" /\ q.op # "serve"
  BY DEF RollbackWent
<1>3. dest'[Server] \in {None, prev[Server], Target} /\ backup'[Server] \in {None, prev[Server]}
  <2>1. CASE q.n # Server \/ q.op \notin Loops
    BY <1>1, <2>1 DEF Starts, Effect, SameFile
  <2>2. CASE q.n = Server /\ q.op = "drop"
    <3>1. dest'[Server] \in {None, dest[Server]} /\ backup'[Server] = backup[Server]
      BY <2>2 DEF Starts, Effect, SameFile
    <3>2. QED BY <1>1, <3>1
  <2>3. CASE q.n = Server /\ q.op = "restore"
    <3>1. dest'[Server] \in {backup[Server], dest[Server]} /\ backup'[Server] \in {None, backup[Server]}
      BY <2>3 DEF Starts, Effect, SameFile
    <3>2. QED BY <1>1, <3>1
  <2>4. QED BY <1>2, <2>1, <2>2, <2>3 DEF Loops
<1>4. QED BY <1>1, <1>2, <1>3 DEF Starts, ServerInv

\* One file of a rollback, put back from whatever shape it has.
LEMMA PutBack ==
  ASSUME NEW q, NEW n \in Targets, n = q.n, Effect(q), q.found = Found, q.job = "rollback",
         q.op \in {"drop", "restore"}, Shape(n), q.op = "restore" => Aside(n) \/ Kept(n),
         UNCHANGED <<updates, prev>>
  PROVE  /\ Kept(n) => Kept(n)'
         /\ Kept(n)' \/ Aside(n)'
         /\ q.op = "restore" => Kept(n)'
<1>1. n \in q.found <=> prev[n] # None
  BY DEF Found
<1>2. prev'[n] = prev[n]
  OBVIOUS
<1>3. CASE q.op = "drop" /\ PassedOver(q)
  <2>1. dest'[n] = dest[n] /\ backup'[n] = backup[n] /\ backup[n] = None /\ prev[n] # None
    BY <1>1, <1>3 DEF Effect, SameFile, PassedOver
  <2>2. Kept(n)
    BY <2>1 DEF Shape, Aside, Replaced
  <2>3. QED BY <1>2, <1>3, <2>1, <2>2 DEF Kept
<1>4. CASE q.op = "drop" /\ ~PassedOver(q)
  <2>1. dest'[n] = None /\ backup'[n] = backup[n] /\ (prev[n] = None \/ backup[n] # None)
    BY <1>1, <1>4 DEF Effect, PassedOver
  <2>2. CASE Kept(n)
    BY <1>2, <1>4, <2>1, <2>2 DEF Kept
  <2>3. CASE ~Kept(n)
    <3>1. backup[n] = prev[n]
      BY <2>3 DEF Shape, Aside, Replaced
    <3>2. QED BY <1>2, <1>4, <2>1, <2>3, <3>1 DEF Aside
  <2>4. QED BY <2>2, <2>3
<1>5. CASE q.op = "restore"
  <2>1. CASE prev[n] # None /\ backup[n] # None
    <3>1. dest'[n] = backup[n] /\ backup'[n] = None
      BY <1>1, <1>5, <2>1 DEF Effect
    <3>2. backup[n] = prev[n]
      BY <1>5, <2>1 DEF Aside, Kept
    <3>3. QED BY <1>2, <3>1, <3>2 DEF Kept
  <2>2. CASE ~(prev[n] # None /\ backup[n] # None)
    <3>1. dest'[n] = dest[n] /\ backup'[n] = backup[n]
      BY <1>1, <1>5, <2>2 DEF Effect, SameFile
    <3>2. Kept(n)
      BY <1>5, <2>2 DEF Aside, Kept
    <3>3. QED BY <1>2, <3>1, <3>2 DEF Kept
  <2>3. QED BY <2>1, <2>2
<1>6. QED BY <1>3, <1>4, <1>5

LEMMA RollbackFiles ==
  ASSUME TInv, Sound, NEW q, NEW r, Starts(q, r), OnRollback(q), RollbackWent(q, r)
  PROVE  FileInv' /\ RollbackInv'
<1>0. /\ r = at'["startup"] /\ q = at["startup"] /\ q.job = "rollback" /\ r.job = "rollback"
      /\ UNCHANGED <<updates, prev, proven>> /\ Effect(q) /\ q.found = Found
      /\ 1 \in Targets /\ Targets = 1..Size /\ Size \in Nat /\ Server = 1
      /\ Doubtful' <=> Doubtful
  BY BundleAssumption DEF Starts, OnRollback, RollbackWent, Targets, Server, Doubtful
<1>1. CASE ~Doubtful
  BY <1>0, <1>1 DEF FileInv, RollbackInv
<1>2. CASE Doubtful /\ q.op \in {"drop", "restore"}
  <2>1. PICK n \in Targets : n = q.n
    BY <1>2 DEF OnRollback
  <2>2. Armed
    BY RollbackMark
  <2>3. (\A t \in Targets : Shape(t)) /\ (Kept(Server) => AllKept)
    BY <1>2, <2>2 DEF Sound, FileInv
  <2>4. (\A t \in Targets : t > n => Kept(t)) /\ (q.op = "restore" => Aside(n) \/ Kept(n))
    BY <1>0, <1>2, <2>1 DEF Sound, RollbackInv
  <2>5. /\ Kept(n) => Kept(n)'
        /\ Kept(n)' \/ Aside(n)'
        /\ q.op = "restore" => Kept(n)'
    BY <1>0, <1>2, <2>1, <2>3, <2>4, PutBack
  <2>6. \A t \in Targets : t # n => (Kept(t)' <=> Kept(t)) /\ (Aside(t)' <=> Aside(t)) /\ (Replaced(t)' <=> Replaced(t))
    BY <1>0, <2>1, Elsewhere
  <2>7. \A t \in Targets : Shape(t)'
    BY <2>3, <2>5, <2>6 DEF Shape
  <2>8. Kept(Server)' => AllKept'
    <3>1. SUFFICES ASSUME Kept(Server)', NEW t \in Targets PROVE Kept(t)'
      BY DEF AllKept
    <3>2. CASE n = Server
      <4>1. t = n \/ t > n
        BY <1>0, <3>2
      <4>2. t > n => t # n /\ Kept(t)
        BY <1>0, <2>4
      <4>3. QED BY <2>6, <3>1, <3>2, <4>1, <4>2
    <3>3. CASE n # Server
      <4>1. Kept(Server)
        BY <1>0, <2>6, <3>1, <3>3
      <4>2. Kept(t) /\ Kept(n)
        BY <2>3, <4>1 DEF AllKept
      <4>3. QED BY <2>5, <2>6, <4>2
    <3>4. QED BY <3>2, <3>3
  <2>9. FileInv'
    <3>1. Armed'
      BY <1>2, RollbackMark
    <3>2. QED BY <2>7, <2>8, <3>1 DEF FileInv
  <2>10. RollbackInv'
    <3>1. \A t \in Targets : t > n => Kept(t)'
      BY <1>0, <2>4, <2>6
    <3>2. CASE q.op = "drop"
      <4>1. r.op = "restore" /\ r.n = n
        BY <2>1, <3>2 DEF RollbackWent
      <4>2. QED BY <1>0, <2>5, <3>1, <4>1 DEF RollbackInv
    <3>3. CASE q.op = "restore" /\ n > 1
      <4>1. r.op = "drop" /\ r.n = n - 1
        BY <1>0, <2>1, <3>3 DEF RollbackWent
      <4>2. \A t \in Targets : t > r.n => Kept(t)'
        <5>1. \A t \in Targets : t > r.n => t > n \/ t = n
          BY <1>0, <4>1
        <5>2. QED BY <2>5, <3>1, <3>3, <5>1
      <4>3. QED BY <1>0, <4>1, <4>2 DEF RollbackInv
    <3>4. CASE q.op = "restore" /\ ~(n > 1)
      <4>1. n = 1
        BY <1>0, <3>4
      <4>2. r.op = "record"
        BY <1>0, <2>1, <3>4, <4>1 DEF RollbackWent
      <4>3. AllKept'
        <5>1. \A t \in Targets : t > n \/ t = n
          BY <1>0, <4>1
        <5>2. QED BY <2>5, <3>1, <3>4, <5>1 DEF AllKept
      <4>4. QED BY <1>0, <4>2, <4>3 DEF RollbackInv
    <3>5. QED BY <1>2, <3>2, <3>3, <3>4
  <2>11. QED BY <2>9, <2>10
<1>3. CASE Doubtful /\ q.op \in {"record", "disarm"}
  <2>1. AllKept /\ q.op \notin Loops
    BY <1>0, <1>3 DEF Sound, RollbackInv, Loops
  <2>2. AllKept'
    BY <1>0, <2>1, Elsewhere DEF AllKept
  <2>3. FileInv'
    BY <2>2 DEF FileInv, Shape, AllKept
  <2>4. r.op \in {"disarm", "exit"}
    BY <1>3 DEF RollbackWent
  <2>5. RollbackInv'
    BY <1>0, <2>2, <2>4 DEF RollbackInv
  <2>6. QED BY <2>3, <2>5
<1>4. QED BY <1>1, <1>2, <1>3 DEF RollbackWent

LEMMA StartupSound ==
  ASSUME TInv, Sound, Exec("startup") PROVE Sound'
<1>1. PICK q, r : q = at["startup"] /\ r = Onward(q)
  OBVIOUS
<1>2. CASE q.op = "exit"
  <2>1. GoDown /\ Effect(q) /\ Records1(q) /\ q \in Places /\ UNCHANGED <<updates, prev, proven, unarmed>>
    BY <1>1, <1>2, ExecFacts DEF Threads
  <2>2. Still /\ marker' = marker
    BY <1>2, <2>1 DEF Effect, Records1, Still, Loops
  <2>3. QED BY <2>1, <2>2, DownSound
<1>3. CASE q.op # "exit"
  <2>1. Starts(q, r) /\ Went(q, r)
    BY <1>1, <1>3, StartsFacts
  <2>2. CASE OnStart(q)
    BY <2>1, <2>2, StartFiles
  <2>3. CASE OnRollback(q)
    <3>1. RollbackWent(q, r)
      BY <2>1, <2>3 DEF OnRollback, Went
    <3>2. QED BY <2>1, <2>3, <3>1, RollbackMark, RollbackServer, RollbackFiles DEF Sound
  <2>4. QED BY <2>1, <2>2, <2>3 DEF Starts
<1>4. QED BY <1>2, <1>3

-----------------------------------------------------------------------------
(* The verification.                                                        *)

\* The verification goes on from q to r.
Verifies(q, r) ==
  /\ q \in Places /\ OnVerify(q) /\ VerifyWent(q, r)
  /\ q = at["verify"] /\ r = at'["verify"] /\ q # Rest
  /\ at["update"] = Rest /\ at["startup"] = Rest /\ at'["update"] = Rest /\ at'["startup"] = Rest
  /\ up = "graced" /\ up' = "graced"
  /\ q.found = Found /\ Found' = Found /\ Target' = Target
  /\ Effect(q) /\ MarkEffect(q)
  /\ UNCHANGED <<running, updates, prev, proven, unarmed>>

LEMMA VerifiesFacts ==
  ASSUME TInv, Sound, Exec("verify"), NEW q, q = at["verify"], NEW r, r = Onward(q)
  PROVE  Verifies(q, r)
<1>1. "verify" \in Threads
  BY DEF Threads
<1>2. /\ q \in Places /\ Placed("verify", q) /\ Effect(q) /\ Records1(q)
      /\ UNCHANGED <<updates, prev, proven, unarmed>>
  BY <1>1, ExecFacts
<1>3. q # Rest /\ OnVerify(q)
  BY <1>1, <1>2, PlacedFacts
<1>4. q.op \notin {"exit", "restart", "serve"} /\ q.job = "verify"
  BY <1>3 DEF OnVerify
<1>5. /\ Ran("verify", q, r) /\ Went(q, r)
      /\ up' = up /\ running' = running
  BY <1>1, <1>4, ExecFacts
<1>6. up = "graced" /\ at["update"] = Rest /\ at["startup"] = Rest
  BY <1>3, AloneFacts
<1>7. r = at'["verify"] /\ at'["update"] = Rest /\ at'["startup"] = Rest
  BY <1>5, <1>6 DEF Ran, Threads
<1>8. q.found = Found
  BY <1>1, <1>4 DEF Sound, MarkInv
<1>9. Found' = Found /\ Target' = Target
  BY <1>2 DEF Found, Target
<1>10. MarkEffect(q)
  BY <1>2, MarkFacts DEF TInv
<1>11. VerifyWent(q, r)
  BY <1>4, <1>5 DEF Went
<1>12. QED BY <1>2, <1>3, <1>5, <1>6, <1>7, <1>8, <1>9, <1>10, <1>11 DEF Verifies

\* A build that has never served through its grace period is not the one that
\* has just done so: its update has been undone before.
LEMMA VerifiedKept ==
  ASSUME TInv, Sound, up = "graced", Doubtful, Armed
  PROVE  AllKept
<1>1. dest[Server] \in proven /\ None \notin proven /\ Server \in Targets
  BY VersionFacts DEF TInv, TypeOK, Sound, ServerInv
<1>2. Shape(Server) /\ (Kept(Server) => AllKept)
  BY <1>1 DEF Sound, FileInv
<1>3. ~Aside(Server) /\ ~Replaced(Server)
  BY <1>1 DEF Aside, Replaced, Doubtful
<1>4. QED BY <1>2, <1>3 DEF Shape

LEMMA VerifySound ==
  ASSUME TInv, Sound, Exec("verify") PROVE Sound'
<1>1. PICK q, r : q = at["verify"] /\ r = Onward(q) /\ Verifies(q, r)
  BY VerifiesFacts
<1>2. /\ Rest.job = "none" /\ Rest.op = "none" /\ q.job = "verify"
      /\ q.op \in {"discard", "disarm", "forget"}
      /\ q.op \in {"discard", "disarm"} => Armed
      /\ q.op = "forget" => ~Armed
  BY <1>1, RestFacts DEF Verifies, OnVerify, Sound, ArmInv
<1>3. /\ q.op = "discard" => Armed'
      /\ q.op # "discard" => ~Armed'
  BY <1>1, <1>2 DEF Verifies, MarkEffect
<1>4. \/ r.job = "verify" /\ r.found = q.found
      \/ r = Rest
  BY <1>1 DEF Verifies, VerifyWent
<1>5. MarkInv'
  <2>1. Armed' => marker'.ver = Target' /\ marker'.found = Found'
    BY <1>1, <1>2, <1>3 DEF Verifies, MarkEffect, Sound, MarkInv
  <2>2. \A p \in Threads : at'[p].job \in {"commit", "undo", "giveup", "rollback", "verify"} => at'[p].found = Found'
    BY <1>1, <1>2, <1>4 DEF Verifies, Threads
  <2>3. QED BY <2>1, <2>2 DEF MarkInv
<1>6. ArmInv'
  <2>1. r.op \in {"discard", "disarm"} <=> q.op = "discard"
    BY <1>1, <1>2 DEF Verifies, VerifyWent
  <2>2. QED BY <1>1, <1>2, <1>3, <2>1 DEF Verifies, ArmInv
<1>7. \A t \in Targets : dest'[t] = dest[t] /\ backup'[t] \in {None, backup[t]}
  BY <1>1, <1>2 DEF Verifies, Effect, SameFile, Loops
<1>8. ServerInv'
  <2>1. Server \in Targets
    BY VersionFacts DEF TInv
  <2>2. dest'[Server] = dest[Server] /\ backup'[Server] \in {None, backup[Server]}
    BY <1>7, <2>1
  <2>3. QED BY <1>1, <1>2, <2>2 DEF Verifies, Sound, ServerInv
<1>9. FileInv'
  <2>1. Doubtful' <=> Doubtful
    BY <1>1 DEF Verifies, Doubtful
  <2>2. CASE Doubtful /\ Armed
    <3>1. AllKept
      BY <1>1, <2>2, VerifiedKept DEF Verifies
    <3>2. AllKept'
      BY <1>1, <1>7, <3>1 DEF Verifies, AllKept, Kept
    <3>3. QED BY <3>2 DEF FileInv, AllKept, Shape
  <2>3. CASE Doubtful /\ ~Armed
    <3>1. Still
      BY <1>1, <1>2, <2>3 DEF Verifies, Effect, Still, Loops
    <3>2. Armed' <=> Armed
      BY <1>2, <1>3, <2>3
    <3>3. QED BY <1>1, <3>1, <3>2, StillFiles DEF Sound, Verifies
  <2>4. QED BY <2>1, <2>2, <2>3 DEF FileInv
<1>10. CommitInv' /\ RollbackInv'
  BY <1>1, <1>2 DEF Verifies, CommitInv, RollbackInv
<1>11. QED BY <1>5, <1>6, <1>8, <1>9, <1>10 DEF Sound

-----------------------------------------------------------------------------
(* The failures, but for those that break the update.                       *)

LEMMA FailSound ==
  ASSUME TInv, Sound, NEW p \in Threads, OpFails(p), ~broken' PROVE Sound'
<1>1. PICK q, r : q = at[p] /\ r = FailOnward(q)
  OBVIOUS
<1>2. /\ q \in Places /\ Placed(p, q) /\ q.op \in {"arm", "rearm", "install", "count"}
      /\ Ran(p, q, r)
      /\ unarmed' = (unarmed \/ q.op \in {"arm", "rearm"})
      /\ UNCHANGED <<marker, running, up, proven>> /\ Still
  <2>1. q.op \in Fallible /\ q.op \notin {"backup", "restore"}
    BY <1>1, FailFacts
  <2>2. q.op \in {"arm", "rearm", "install", "count"}
    BY <2>1 DEF Fallible
  <2>3. unarmed' = (unarmed \/ q.op \in {"arm", "rearm"})
    BY <1>1, <2>2, FailFacts
  <2>4. QED BY <1>1, <2>2, <2>3, FailFacts DEF Still
<1>3. /\ Rest.job = "none" /\ Rest.op = "none" /\ q # Rest
      /\ r = at'[p] /\ \A s \in Threads : s # p => at'[s] = at[s]
  BY <1>2, RestFacts DEF Ran
<1>4. /\ Armed' <=> Armed
      /\ FileInv'
  <2>1. (Armed' <=> Armed) /\ (unarmed => unarmed')
    BY <1>2 DEF Armed
  <2>2. QED BY <1>2, <2>1, StillFiles DEF Sound
<1>5. CASE q.op = "count"
  <2>1. p = "startup" /\ OnStart(q)
    BY <1>2, <1>5, PlacedFacts DEF Threads, OnVerify, OnCommit, OnUndo, OnGiveUp, OnRollback
  <2>2. r.job = "start" /\ r.op = "serve"
    BY <1>1, <1>5, <2>1, FailFacts DEF Went, OnStart, StartWent
  <2>3. /\ at'["startup"] = r /\ at'["update"] = Rest /\ at'["verify"] = Rest
        /\ at["startup"] = q /\ up = "gate"
    BY <1>1, <1>3, <2>1, AloneFacts DEF Threads
  <2>4. MarkInv'
    <3>1. \A s \in Threads : at'[s].job \in {"commit", "undo", "giveup", "rollback", "verify"} => at'[s].found = Found'
      BY <1>3, <2>2, <2>3 DEF Threads
    <3>2. QED BY <1>2, <1>4, <3>1, StillFacts DEF MarkInv, Sound
  <2>5. ArmInv'
    BY <1>2, <1>3, <2>2, <2>3 DEF ArmInv
  <2>6. ServerInv'
    <3>1. running = dest[Server]
      BY <2>1, <2>3 DEF OnStart, Sound, ServerInv
    <3>2. QED BY <1>2, <2>3, <3>1 DEF Sound, ServerInv, Still, Target
  <2>7. CommitInv' /\ RollbackInv'
    BY <1>3, <2>2, <2>3 DEF CommitInv, RollbackInv
  <2>8. QED BY <1>4, <2>4, <2>5, <2>6, <2>7 DEF Sound
<1>6. CASE q.op \in {"arm", "rearm", "install"}
  <2>1. p = "update" /\ OnCommit(q) /\ q.job = "commit"
    BY <1>2, <1>6, PlacedFacts DEF Threads, OnVerify, OnStart, OnUndo, OnGiveUp, OnRollback, OnCommit
  <2>2. /\ at'["update"] = r /\ at'["startup"] = Rest /\ at'["verify"] = Rest
        /\ at["update"] = q /\ up = "settled" /\ q.found = Found /\ Found' = Found
    <3>1. q.found = Found
      BY <1>1, <2>1 DEF Sound, MarkInv
    <3>2. QED BY <1>1, <1>2, <1>3, <2>1, <3>1, AloneFacts, StillFacts DEF Threads
  <2>3. /\ r # Rest /\ r.found = q.found
        /\ q.op = "arm" => r.job = "commit" /\ r.op = "backup" /\ r.n = 1
        /\ q.op = "rearm" => r.job = "giveup" /\ r.op = "disarm"
        /\ q.op = "install" => r.job = "undo" /\ r.op = "restore" /\ r.n = q.n
    <3>1. CASE q.op = "arm"
      <4>1. CommitWent(q, r)
        BY <1>1, <2>1, <3>1, FailFacts DEF Went
      <4>2. QED BY <1>3, <3>1, <4>1 DEF CommitWent
    <3>2. CASE q.op = "rearm"
      <4>1. r = Place("giveup", "disarm", 0, q.found)
        BY <1>1, <3>2, FailFacts
      <4>2. QED BY <1>3, <3>2, <4>1 DEF Place
    <3>3. CASE q.op = "install"
      <4>1. r = Place("undo", "restore", q.n, q.found)
        BY <1>1, <3>3, FailFacts
      <4>2. QED BY <1>3, <3>3, <4>1 DEF Place
    <3>4. QED BY <1>6, <3>1, <3>2, <3>3
  <2>4. MarkInv'
    <3>1. \A s \in Threads : at'[s].job \in {"commit", "undo", "giveup", "rollback", "verify"} => at'[s].found = Found'
      BY <1>3, <2>2, <2>3 DEF Threads
    <3>2. QED BY <1>2, <1>4, <3>1, StillFacts DEF MarkInv, Sound
  <2>5. ArmInv'
    <3>1. q.op = "install" /\ ~unarmed => Armed
      BY <1>3, <2>2 DEF Sound, ArmInv
    <3>2. r.op # "arm" /\ ~(r.job = "giveup" /\ r.op # "disarm")
      BY <1>6, <2>3
    <3>3. QED BY <1>2, <1>3, <1>4, <1>6, <2>2, <2>3, <3>1, <3>2 DEF ArmInv
  <2>6. ServerInv'
    BY <1>2, <2>2, <2>3 DEF Sound, ServerInv, Still, Target
  <2>7. CommitInv'
    <3>1. CASE q.op = "arm"
      <4>1. \A t \in Targets : Kept(t)' /\ ~(t < 1)
        BY <1>2, <2>1, <2>2, <3>1, StillFacts DEF Sound, CommitInv, AllKept, Targets
      <4>2. QED BY <2>2, <2>3, <3>1, <4>1 DEF CommitInv
    <3>2. CASE q.op = "rearm"
      BY <1>2, <2>2, <2>3, <3>2 DEF CommitInv
    <3>3. CASE q.op = "install"
      <4>1. \A t \in Targets : IF t < q.n THEN Replaced(t) ELSE IF t = q.n THEN Aside(t) ELSE Kept(t)
        BY <2>1, <2>2, <3>3 DEF Sound, CommitInv
      <4>2. \A t \in Targets : IF t < r.n THEN Replaced(t)' ELSE IF t = r.n THEN Aside(t)' ELSE Kept(t)'
        BY <1>2, <2>3, <3>3, <4>1, StillFacts
      <4>3. QED BY <2>2, <2>3, <3>3, <4>2 DEF CommitInv
    <3>4. QED BY <1>6, <3>1, <3>2, <3>3
  <2>8. RollbackInv'
    BY <1>3, <2>2 DEF RollbackInv
  <2>9. QED BY <1>4, <2>4, <2>5, <2>6, <2>7, <2>8 DEF Sound
<1>7. QED BY <1>2, <1>5, <1>6

-----------------------------------------------------------------------------
(* The invariant and what follows from it.                                  *)

\* What has been broken stays broken.
LEMMA BrokenStays ==
  ASSUME TInv, [Next]_vars, ~broken' PROVE ~broken
<1>1. CASE UNCHANGED vars
  BY <1>1 DEF vars, ghost
<1>2. CASE Start \/ Gate \/ RollbackBlocked \/ Grace \/ Settle \/ Crash \/ PowerLoss
  BY <1>2 DEF Start, Gate, RollbackBlocked, Grace, Settle, Crash, PowerLoss, ghost
<1>3. CASE Apply
  BY <1>3 DEF Apply
<1>4. ASSUME NEW p \in Threads, Exec(p) PROVE ~broken
  BY <1>4 DEF Exec, ghost
<1>5. ASSUME NEW p \in Threads, OpFails(p) PROVE ~broken
  BY <1>5 DEF OpFails
<1>6. QED BY <1>1, <1>2, <1>3, <1>4, <1>5 DEF Next

LEMMA SoundNext ==
  ASSUME TInv, TInv', Sound, [Next]_vars, ~broken' PROVE Sound'
<1>1. CASE UNCHANGED vars
  <2>1. UNCHANGED <<dest, backup, marker, running, up, at, updates, prev, proven, unarmed>> /\ Still
    BY <1>1 DEF vars, disk, process, ghost, Still
  <2>2. (Armed' <=> Armed) /\ (Doubtful' <=> Doubtful)
    BY <2>1 DEF Armed, Doubtful, Target
  <2>3. MarkInv'
    BY <2>1, <2>2, StillFacts DEF Sound, MarkInv
  <2>4. ArmInv'
    BY <2>1, <2>2 DEF Sound, ArmInv
  <2>5. ServerInv'
    BY <2>1 DEF Sound, ServerInv, Target
  <2>6. FileInv'
    BY <2>1, <2>2, StillFiles DEF Sound
  <2>7. CommitInv'
    BY <2>1, StillFacts DEF Sound, CommitInv
  <2>8. RollbackInv'
    <3>1. at["startup"].job = "rollback" /\ at["startup"].op = "restore" /\ Doubtful
            => LET n == at["startup"].n IN n \in Targets
      BY DEF TInv, PlaceInv, Placed, OnRollback, OnStart, Threads, Rest, Place
    <3>2. PICK q : q = at["startup"] /\ q = at'["startup"]
      BY <2>1
    <3>3. q.op = "restore" /\ q.job = "rollback" /\ Doubtful => (Aside(q.n)' <=> Aside(q.n)) /\ (Kept(q.n)' <=> Kept(q.n))
      BY <3>1, <3>2, <2>1, StillFacts
    <3>4. QED BY <2>1, <2>2, <3>2, <3>3, StillFacts DEF Sound, RollbackInv
  <2>9. QED BY <2>3, <2>4, <2>5, <2>6, <2>7, <2>8 DEF Sound
<1>2. CASE RollbackBlocked \/ Crash \/ PowerLoss
  <2>1. GoDown /\ Still /\ UNCHANGED <<marker, proven, unarmed>>
    BY <1>2 DEF RollbackBlocked, Crash, PowerLoss, disk, ghost, Still
  <2>2. QED BY <2>1, DownSound
<1>3. CASE Start
  BY <1>3, StartSound
<1>4. CASE Gate
  BY <1>4, GateSound
<1>5. CASE Grace
  BY <1>5, GraceSound
<1>6. CASE Settle
  BY <1>6, SettleSound
<1>7. CASE Apply
  BY <1>7, ApplySound
<1>8. ASSUME NEW p \in Threads, Exec(p) PROVE Sound'
  BY <1>8, StartupSound, VerifySound, UpdateSound DEF Threads
<1>9. ASSUME NEW p \in Threads, OpFails(p) PROVE Sound'
  BY <1>9, FailSound
<1>10. QED BY <1>1, <1>2, <1>3, <1>4, <1>5, <1>6, <1>7, <1>8, <1>9 DEF Next

LEMMA IInvNext ==
  ASSUME IInv, [Next]_vars PROVE IInv'
<1>1. TInv'
  BY TypeNext DEF IInv
<1>2. ASSUME ~broken' PROVE Sound'
  <2>1. Sound
    BY <1>2, BrokenStays DEF IInv
  <2>2. QED BY <1>1, <1>2, <2>1, SoundNext DEF IInv
<1>3. QED BY <1>1, <1>2 DEF IInv

\* Every conjunct of IInv holds of every state of an update (apply_payload_blocking,
\* startup_update_health_check, mark_update_verified).
THEOREM Invariant == Spec => []IInv
<1>1. Init => IInv
  BY InitType, InitSound DEF IInv
<1>2. IInv /\ [Next]_vars => IInv'
  BY IInvNext
<1>3. QED BY <1>1, <1>2, PTL DEF Spec

LEMMA WayBackHolds ==
  ASSUME IInv PROVE WayBack
<1>1. SUFFICES ASSUME dest[Server] \notin proven \cup {None}, ~unarmed, ~broken
               PROVE  Armed /\ backup[Server] \in proven
  BY DEF WayBack
<1>2. Server \in Targets /\ Sound
  BY <1>1, VersionFacts DEF IInv, TInv
<1>3. prev[Server] \in proven /\ dest[Server] = Target /\ ~Kept(Server) /\ ~Aside(Server)
  BY <1>1, <1>2 DEF Sound, ServerInv, Kept, Aside
<1>4. Doubtful
  BY <1>1, <1>3 DEF Doubtful
<1>5. Armed
  BY <1>1, <1>2, <1>3, <1>4 DEF Sound, FileInv, AllKept
<1>6. Replaced(Server)
  BY <1>2, <1>3, <1>4, <1>5 DEF Sound, FileInv, Shape
<1>7. QED BY <1>3, <1>5, <1>6 DEF Replaced

LEMMA NothingLostHolds ==
  ASSUME IInv PROVE NothingLost
<1>1. SUFFICES ASSUME Armed, ~broken, marker.ver \notin proven, NEW t \in Found
               PROVE  prev[t] \in {dest[t], backup[t]}
  BY DEF NothingLost
<1>2. Sound /\ Doubtful /\ t \in Targets
  BY <1>1 DEF IInv, Sound, MarkInv, Doubtful, Found
<1>3. Shape(t)
  BY <1>1, <1>2 DEF Sound, FileInv
<1>4. QED BY <1>3 DEF Shape, Kept, Aside, Replaced

LEMMA UndoneWholeHolds ==
  ASSUME IInv PROVE UndoneWhole
<1>1. ASSUME NEW p \in Threads, at[p].op = "record", ~broken, marker.ver \notin proven
      PROVE  \A t \in Targets : dest[t] = prev[t]
  <2>1. PICK q : q = at[p] /\ q \in Places /\ (q = Rest \/ Placed(p, q))
    BY DEF IInv, TInv, TypeOK, PlaceInv
  <2>2. Placed(p, q)
    BY <1>1, <2>1, RestFacts
  <2>3. p = "startup" /\ q.job = "rollback"
    BY <1>1, <2>1, <2>2, PlacedFacts DEF Threads, OnStart, OnRollback, OnVerify, OnCommit, OnUndo, OnGiveUp
  <2>4. Sound /\ Armed
    BY <1>1, <2>1, <2>3 DEF IInv, Sound, ArmInv
  <2>5. Doubtful
    BY <1>1, <2>4 DEF Sound, MarkInv, Doubtful
  <2>6. AllKept
    BY <1>1, <2>1, <2>3, <2>4, <2>5 DEF Sound, RollbackInv
  <2>7. QED BY <2>6 DEF AllKept, Kept
<1>2. ASSUME at["update"].job = "undo", at["update"].op = "disarm", ~broken
      PROVE  \A t \in Targets : dest[t] = prev[t]
  BY <1>2 DEF IInv, Sound, CommitInv, AllKept, Kept
<1>3. QED BY <1>1, <1>2 DEF UndoneWhole, RollbackWhole, FailureUndone

\* An installed server that has never served through its grace period can be
\* undone, at every moment of an update, through failures and losses of power
\* in any number: the marker is written before the server is set aside, and
\* what is set aside is a proven server (apply_payload_blocking,
\* write_pending_update_marker, commit_staged_targets).
THEOREM WayBackStays == Spec => []WayBack
<1>1. IInv => WayBack
  BY WayBackHolds
<1>2. QED BY <1>1, Invariant, PTL

\* While an update is pending no file that it found is lost, however often the
\* commit, its undoing or a rollback is cut short and begun again
\* (commit_staged_targets, rollback_applied_targets, roll_back_pending_update).
THEOREM NothingIsLost == Spec => []NothingLost
<1>1. IInv => NothingLost
  BY NothingLostHolds
<1>2. QED BY <1>1, Invariant, PTL

\* A rollback that is recorded, and a commit that has been taken back, leave
\* every file of the bundle as the update found it, whatever the size of the
\* bundle and wherever power was lost before (record_bundle_rollback_at,
\* rollback_applied_targets).
THEOREM UndoneAsAWhole == Spec => []UndoneWhole
<1>1. IInv => UndoneWhole
  BY UndoneWholeHolds
<1>2. QED BY <1>1, Invariant, PTL
=============================================================================
