--------------------------- MODULE BootSlotsProofs ---------------------------
(***************************************************************************)
(* The inductive invariants of BootSlots and what follows from them, for   *)
(* all releases and any number of faults: whichever scripts run, wherever  *)
(* power is lost and whatever operation fails, the machine finds its way   *)
(* back to an image that has been proven.                                  *)
(***************************************************************************)
EXTENDS BootSlots, SeqLemmas, FiniteSetTheorems

-----------------------------------------------------------------------------
(* Types.                                                                   *)

Writing == {"backup", "primary"}

\* The operations, each with what it works on.
Operation ==
  {o \in [op : Ops, st : BootState \cup Candidate \cup {None}, slot : Slots \cup {None}] :
     /\ o.op \in Writing \cup {"mirror"} => o.st \in BootState
     /\ o.op \in {"cmdline", "erase"} => o.slot \in Slots
     /\ o.op \in {"flash", "uart_mark", "uart_restore"} => o.st \in Candidate
     /\ o.op = "flash" => o.st.ver \in Versions}

\* What each kind of operation carries.
LEMMA OpTypes ==
  ASSUME NEW st \in BootState, NEW c \in Candidate, NEW s \in Slots
  PROVE  /\ \A w \in {"backup", "primary", "mirror"} : Op(w, st, None) \in Operation
         /\ \A w \in {"uart_mark", "uart_restore"} : Op(w, c, None) \in Operation
         /\ \A w \in {"cmdline", "erase"} : Op(w, None, s) \in Operation
         /\ \A w \in {"latch", "hue", "scrub", "reboot", "uart_config", "uart_reboot", "uart_commit"} :
              Do(w) \in Operation
         /\ c.ver \in Versions => Op("flash", c, None) \in Operation
BY DEF Op, Do, Operation, Writing, Ops, UartOps, MigrateOps

\* A bootstate.
LEMMA StateTypes ==
  ASSUME NEW a \in Statuses, NEW g \in Slots \cup {None}, NEW p \in Slots \cup {None},
         NEW v \in Versions \cup {None}, NEW r \in Versions \cup {None}
  PROVE  State(a, g, p, v, r) \in BootState
BY DEF State, BootState

\* What a bootstate holds.
LEMMA StateFields ==
  ASSUME NEW st \in BootState
  PROVE  /\ st.status \in Statuses /\ st.lastGood \in Slots \cup {None}
         /\ st.pending \in Slots \cup {None} /\ st.ver \in Versions \cup {None}
         /\ st.rolled \in Versions \cup {None}
         /\ st # Bad
         /\ [st EXCEPT !.status = "rollback_required"] \in BootState
         /\ \A g \in Slots \cup {None} : [st EXCEPT !.status = "booting", !.lastGood = g] \in BootState
BY FileAssumption DEF BootState, Statuses

\* The other slot is a slot, and not the same.
LEMMA OtherSlot ==
  /\ \A s \in Slots : Inactive(s) \in Slots /\ Inactive(s) # s /\ Inactive(Inactive(s)) = s
  /\ \A s, t \in Slots : s # t => t = Inactive(s)
  /\ None \notin Slots /\ "off" \notin Slots
BY ReleaseAssumption DEF Slots, Inactive

-----------------------------------------------------------------------------
(* What the plans look like.                                                *)

\* The copies are written in pairs, the backup first; the operations on the
\* UART configuration that are given up together stand together.
Formed(ops) ==
  \A i \in DOMAIN ops :
    /\ ops[i].op = "primary" =>
         i - 1 \in DOMAIN ops /\ ops[i - 1].op = "backup" /\ ops[i - 1].st = ops[i].st
    /\ ops[i].op = "uart_mark" => i + 1 \in DOMAIN ops /\ ops[i + 1].op = "uart_config"
    /\ ops[i].op = "uart_config" => i + 1 \in DOMAIN ops /\ ops[i + 1].op = "uart_reboot"
    /\ ops[i].op = "uart_restore" => i + 1 \in DOMAIN ops /\ ops[i + 1].op = "uart_commit"

\* A concatenation, by position.
LEMMA Join ==
  ASSUME NEW s \in Seq(Operation), NEW t \in Seq(Operation)
  PROVE  /\ s \o t \in Seq(Operation) /\ Len(s) \in Nat /\ Len(t) \in Nat
         /\ \A i \in DOMAIN s : i \in DOMAIN (s \o t) /\ (s \o t)[i] = s[i]
         /\ \A k \in DOMAIN t : Len(s) + k \in DOMAIN (s \o t) /\ (s \o t)[Len(s) + k] = t[k]
         /\ \A i \in DOMAIN (s \o t) : i \in DOMAIN s \/ \E k \in DOMAIN t : i = Len(s) + k
<1>1. PICK n \in Nat, m \in Nat : n = Len(s) /\ m = Len(t) /\ DOMAIN s = 1..n /\ DOMAIN t = 1..m
  BY LenProperties
<1>2. /\ s \o t \in Seq(Operation) /\ Len(s \o t) = n + m
      /\ \A i \in 1..(n + m) : (s \o t)[i] = IF i <= n THEN s[i] ELSE t[i - n]
  BY <1>1, ConcatProperties
<1>3. DOMAIN (s \o t) = 1..(n + m)
  BY <1>2, LenProperties
<1>4. \A i \in DOMAIN s : i \in DOMAIN (s \o t) /\ (s \o t)[i] = s[i]
  BY <1>1, <1>2, <1>3
<1>5. ASSUME NEW k \in DOMAIN t PROVE n + k \in DOMAIN (s \o t) /\ (s \o t)[n + k] = t[k]
  <2>1. n + k \in 1..(n + m) /\ ~(n + k <= n) /\ (n + k) - n = k
    BY <1>1
  <2>2. PICK j \in 1..(n + m) : j = n + k
    BY <2>1
  <2>3. (s \o t)[j] = t[k]
    BY <1>2, <2>1, <2>2
  <2>4. QED BY <1>3, <2>1, <2>2, <2>3
<1>6. ASSUME NEW i \in DOMAIN (s \o t) PROVE i \in DOMAIN s \/ \E k \in DOMAIN t : i = n + k
  <2>1. CASE i <= n
    BY <1>1, <1>3, <2>1
  <2>2. CASE ~(i <= n)
    <3>1. i - n \in 1..m /\ i = n + (i - n)
      BY <1>3, <2>2
    <3>2. QED BY <1>1, <3>1
  <2>3. QED BY <2>1, <2>2
<1>7. QED BY <1>1, <1>2, <1>4, <1>5, <1>6

\* What is put together from well-formed pieces is well-formed.
LEMMA FormedJoin ==
  ASSUME NEW s \in Seq(Operation), NEW t \in Seq(Operation), Formed(s), Formed(t)
  PROVE  s \o t \in Seq(Operation) /\ Formed(s \o t)
<1>0. PICK u : u = s \o t
  OBVIOUS
<1>1. PICK n \in Nat : n = Len(s) /\ u = s \o t
  BY <1>0, LenProperties
<1>2. /\ u \in Seq(Operation)
      /\ \A i \in DOMAIN s : i \in DOMAIN u /\ u[i] = s[i]
      /\ \A k \in DOMAIN t : n + k \in DOMAIN u /\ u[n + k] = t[k]
      /\ \A i \in DOMAIN u : i \in DOMAIN s \/ \E k \in DOMAIN t : i = n + k
  <2>1. /\ s \o t \in Seq(Operation) /\ Len(s) \in Nat /\ Len(t) \in Nat
        /\ \A i \in DOMAIN s : i \in DOMAIN (s \o t) /\ (s \o t)[i] = s[i]
        /\ \A k \in DOMAIN t : Len(s) + k \in DOMAIN (s \o t) /\ (s \o t)[Len(s) + k] = t[k]
        /\ \A i \in DOMAIN (s \o t) : i \in DOMAIN s \/ \E k \in DOMAIN t : i = Len(s) + k
    BY Join
  <2>2. QED BY <1>1, <2>1
<1>3. ASSUME NEW i \in DOMAIN u
      PROVE  /\ u[i].op = "primary" =>
                  i - 1 \in DOMAIN u /\ u[i - 1].op = "backup" /\ u[i - 1].st = u[i].st
             /\ u[i].op = "uart_mark" => i + 1 \in DOMAIN u /\ u[i + 1].op = "uart_config"
             /\ u[i].op = "uart_config" => i + 1 \in DOMAIN u /\ u[i + 1].op = "uart_reboot"
             /\ u[i].op = "uart_restore" => i + 1 \in DOMAIN u /\ u[i + 1].op = "uart_commit"
  <2>1. CASE i \in DOMAIN s
    BY <1>2, <2>1 DEF Formed
  <2>2. CASE \E k \in DOMAIN t : i = n + k
    <3>1. PICK k \in DOMAIN t : i = n + k
      BY <2>2
    <3>2. k \in Nat
      BY LenProperties
    <3>3. u[i] = t[k] /\ i - 1 = n + (k - 1) /\ i + 1 = n + (k + 1)
      BY <1>2, <3>1, <3>2
    <3>4. /\ k - 1 \in DOMAIN t => i - 1 \in DOMAIN u /\ u[i - 1] = t[k - 1]
          /\ k + 1 \in DOMAIN t => i + 1 \in DOMAIN u /\ u[i + 1] = t[k + 1]
      <4>1. k - 1 \in DOMAIN t => n + (k - 1) \in DOMAIN u /\ u[n + (k - 1)] = t[k - 1]
        BY <1>2
      <4>2. k + 1 \in DOMAIN t => n + (k + 1) \in DOMAIN u /\ u[n + (k + 1)] = t[k + 1]
        BY <1>2
      <4>3. QED BY <3>3, <4>1, <4>2
    <3>5. QED BY <3>3, <3>4 DEF Formed
  <2>3. QED BY <1>2, <2>1, <2>2
<1>4. QED BY <1>1, <1>2, <1>3 DEF Formed

\* Writing a bootstate.
LEMMA SaveFacts ==
  ASSUME NEW st \in BootState
  PROVE  /\ WriteBoth(st) \in Seq(Operation) /\ Formed(WriteBoth(st))
         /\ SaveState(st) \in Seq(Operation) /\ Formed(SaveState(st))
         /\ \A x \in ToSet(WriteBoth(st)) : x.op \in {"backup", "primary"} /\ x.st = st
         /\ \A x \in ToSet(SaveState(st)) : x.op \in {"backup", "primary", "mirror"} /\ x.st = st
<1>1. PICK b, f, m : b = Op("backup", st, None) /\ f = Op("primary", st, None) /\ m = Op("mirror", st, None)
  OBVIOUS
<1>2. b \in Operation /\ f \in Operation /\ m \in Operation
  BY <1>1 DEF Operation, Op, Ops, UartOps, MigrateOps, Writing
<1>3. b.op = "backup" /\ f.op = "primary" /\ m.op = "mirror" /\ b.st = st /\ f.st = st /\ m.st = st
  BY <1>1 DEF Op
<1>4. PICK w, r : w = <<b, f>> /\ r = <<m>>
  OBVIOUS
<1>5. /\ w \in Seq(Operation) /\ r \in Seq(Operation)
      /\ DOMAIN w = 1..2 /\ w[1] = b /\ w[2] = f /\ DOMAIN r = 1..1 /\ r[1] = m
  BY <1>2, <1>4
<1>6. Formed(w) /\ Formed(r)
  <2>1. ASSUME NEW i \in DOMAIN w PROVE i = 1 \/ i = 2
    BY <1>5
  <2>2. ASSUME NEW i \in DOMAIN r PROVE i = 1
    BY <1>5
  <2>3. QED BY <1>3, <1>5, <2>1, <2>2 DEF Formed
<1>7. w \o r \in Seq(Operation) /\ Formed(w \o r)
  BY <1>5, <1>6, FormedJoin
<1>8. ToSet(w \o r) = ToSet(w) \cup ToSet(r)
  BY <1>5, ConcatSet
<1>9. ToSet(w) = {b, f} /\ ToSet(r) = {m}
  BY <1>4 DEF ToSet
<1>10. WriteBoth(st) = w /\ SaveState(st) = w \o r
  BY <1>1, <1>4 DEF WriteBoth, SaveState
<1>11. QED BY <1>3, <1>5, <1>6, <1>7, <1>8, <1>9, <1>10

\* Two pieces, by their elements.
LEMMA Glue ==
  ASSUME NEW s \in Seq(Operation), NEW t \in Seq(Operation), Formed(s), Formed(t)
  PROVE  /\ s \o t \in Seq(Operation) /\ Formed(s \o t)
         /\ ToSet(s \o t) = ToSet(s) \cup ToSet(t)
         /\ s # <<>> => s \o t # <<>> /\ (s \o t)[1] = s[1]
<1>1. s \o t \in Seq(Operation) /\ Formed(s \o t)
  BY FormedJoin
<1>2. ToSet(s \o t) = ToSet(s) \cup ToSet(t)
  BY ConcatSet
<1>3. ASSUME s # <<>> PROVE s \o t # <<>> /\ (s \o t)[1] = s[1]
  <2>1. 1 \in DOMAIN s
    <3>1. Len(s) \in Nat \ {0} /\ DOMAIN s = 1..Len(s)
      BY <1>3, EmptySeq, LenProperties
    <3>2. QED BY <3>1
  <2>2. \A i \in DOMAIN s : i \in DOMAIN (s \o t) /\ (s \o t)[i] = s[i]
    BY Join
  <2>3. 1 \in DOMAIN (s \o t) /\ (s \o t)[1] = s[1]
    BY <2>1, <2>2
  <2>4. QED BY <2>3
<1>4. QED BY <1>1, <1>2, <1>3

\* An operation alone.
LEMMA Single ==
  ASSUME NEW o \in Operation, o.op \notin {"primary", "uart_mark", "uart_config", "uart_restore"}
  PROVE  /\ <<o>> \in Seq(Operation) /\ Formed(<<o>>) /\ ToSet(<<o>>) = {o}
         /\ <<o>> # <<>> /\ <<o>>[1] = o
<1>1. PICK s : s = <<o>>
  OBVIOUS
<1>2. s \in Seq(Operation) /\ DOMAIN s = 1..1 /\ s[1] = o /\ s # <<>>
  BY <1>1
<1>3. \A i \in DOMAIN s : s[i] = o
  BY <1>2
<1>4. Formed(s)
  BY <1>3 DEF Formed
<1>5. ToSet(s) = {o}
  BY <1>1 DEF ToSet
<1>6. QED BY <1>1, <1>2, <1>4, <1>5

\* The undoing of the UART migration, if the image knows it.
LEMMA RestoreFacts ==
  ASSUME NEW s \in Slots, NEW c \in Candidate, NEW u,
         u = Uart(s, <<Op("uart_restore", c, None), Do("uart_commit")>>)
  PROVE  /\ u \in Seq(Operation) /\ Formed(u)
         /\ \A x \in ToSet(u) : x.op \in {"uart_restore", "uart_commit"}
<1>1. PICK a, b : a = Op("uart_restore", c, None) /\ b = Do("uart_commit")
  OBVIOUS
<1>2. /\ a \in Operation /\ b \in Operation /\ a.op = "uart_restore" /\ b.op = "uart_commit"
  BY <1>1 DEF Op, Do, Operation, Writing, Ops, UartOps, MigrateOps
<1>3. PICK w : w = <<a, b>>
  OBVIOUS
<1>4. w \in Seq(Operation) /\ DOMAIN w = 1..2 /\ w[1] = a /\ w[2] = b /\ ToSet(w) = {a, b}
  BY <1>2, <1>3 DEF ToSet
<1>5. Formed(w)
  <2>1. \A i \in DOMAIN w : i = 1 \/ i = 2
    BY <1>4
  <2>2. QED BY <1>2, <1>4, <2>1 DEF Formed
<1>6. <<>> \in Seq(Operation) /\ Formed(<<>>) /\ ToSet(<<>>) = {}
  BY DEF Formed, ToSet
<1>7. u = w \/ u = <<>>
  BY <1>1, <1>3 DEF Uart
<1>8. QED BY <1>2, <1>4, <1>5, <1>6, <1>7

\* rollback_pending_boot: after the latch the rollback is recorded; the
\* machine is pointed back before the bootstate says that all is well.
LEMMA RollbackFacts ==
  ASSUME NEW s \in Slots, NEW st \in BootState, st.lastGood = Inactive(s), NEW ops,
         ops = RollbackPlan(s, st)
  PROVE  /\ ops \in Seq(Operation) /\ Formed(ops) /\ ops # <<>> /\ ops[1].op = "latch"
         /\ \A i \in DOMAIN ops :
              /\ ops[i].op \notin {"erase", "flash", "uart_mark", "uart_config"}
              /\ ops[i].op = "cmdline" => ops[i].slot = Inactive(s)
              /\ ops[i].op \in Writing =>
                   \/ ops[i].st = [st EXCEPT !.status = "rollback_required"]
                   \/ /\ ops[i].st = State("idle", st.lastGood, None, None, st.ver)
                      /\ \E j \in DOMAIN ops : j < i /\ ops[j].op = "cmdline"
<1>0. st.lastGood \notin {None, s} /\ st.lastGood \in Slots /\ st.ver \in Versions \cup {None}
  <2>1. Inactive(s) \in Slots /\ Inactive(s) # s /\ None \notin Slots
    BY OtherSlot
  <2>2. st.ver \in Versions \cup {None}
    BY DEF BootState
  <2>3. QED BY <2>1, <2>2
<1>1. PICK rr, idle, back, r1, hue, scrub, la, re, c :
        /\ rr = [st EXCEPT !.status = "rollback_required"]
        /\ idle = State("idle", st.lastGood, None, None, st.ver)
        /\ back = Op("cmdline", None, st.lastGood) /\ c = [slot |-> s, ver |-> st.ver]
        /\ la = Do("latch") /\ hue = Do("hue") /\ scrub = Do("scrub") /\ re = Do("reboot")
        /\ r1 = Uart(s, <<Op("uart_restore", c, None), Do("uart_commit")>>)
  OBVIOUS
<1>2. rr \in BootState /\ idle \in BootState /\ c \in Candidate
  BY <1>0, <1>1, StateFields, StateTypes DEF Statuses, Candidate
<1>3. /\ la \in Operation /\ hue \in Operation /\ scrub \in Operation /\ re \in Operation /\ back \in Operation
      /\ la.op = "latch" /\ hue.op = "hue" /\ scrub.op = "scrub" /\ re.op = "reboot" /\ back.op = "cmdline"
      /\ back.slot = Inactive(s)
  BY <1>0, <1>1 DEF Op, Do, Operation, Writing, Ops, UartOps, MigrateOps
<1>4. /\ r1 \in Seq(Operation) /\ Formed(r1)
      /\ \A x \in ToSet(r1) : x.op \in {"uart_restore", "uart_commit"}
  BY <1>1, <1>2, RestoreFacts
<1>5. PICK s1, s2 : s1 = SaveState(rr) /\ s2 = SaveState(idle)
  OBVIOUS
<1>6. /\ s1 \in Seq(Operation) /\ Formed(s1)
      /\ \A x \in ToSet(s1) : x.op \in {"backup", "primary", "mirror"} /\ x.st = rr
  BY <1>2, <1>5, SaveFacts
<1>7. /\ s2 \in Seq(Operation) /\ Formed(s2)
      /\ \A x \in ToSet(s2) : x.op \in {"backup", "primary", "mirror"} /\ x.st = idle
  BY <1>2, <1>5, SaveFacts
<1>8. PICK l1, h1, m1, e1 : l1 = <<la>> /\ h1 = <<hue, scrub>> /\ m1 = <<back>> /\ e1 = <<re>>
  OBVIOUS
<1>9. /\ l1 \in Seq(Operation) /\ Formed(l1) /\ ToSet(l1) = {la} /\ l1 # <<>> /\ l1[1] = la
      /\ m1 \in Seq(Operation) /\ Formed(m1) /\ ToSet(m1) = {back} /\ m1[1] = back
      /\ e1 \in Seq(Operation) /\ Formed(e1) /\ ToSet(e1) = {re}
  BY <1>3, <1>8, Single
<1>10. h1 \in Seq(Operation) /\ Formed(h1) /\ ToSet(h1) = {hue, scrub}
  <2>1. h1 \in Seq(Operation) /\ DOMAIN h1 = 1..2 /\ h1[1] = hue /\ h1[2] = scrub /\ ToSet(h1) = {hue, scrub}
    BY <1>3, <1>8 DEF ToSet
  <2>2. \A i \in DOMAIN h1 : h1[i] = hue \/ h1[i] = scrub
    BY <2>1
  <2>3. QED BY <1>3, <2>1, <2>2 DEF Formed
<1>11. PICK f1 : f1 = l1 \o s1
  OBVIOUS
<1>12. f1 \in Seq(Operation) /\ Formed(f1) /\ ToSet(f1) = ToSet(l1) \cup ToSet(s1) /\ f1 # <<>> /\ f1[1] = la
  BY <1>6, <1>9, <1>11, Glue
<1>13. PICK f2 : f2 = f1 \o h1
  OBVIOUS
<1>14. f2 \in Seq(Operation) /\ Formed(f2) /\ ToSet(f2) = ToSet(f1) \cup ToSet(h1) /\ f2 # <<>> /\ f2[1] = la
  BY <1>10, <1>12, <1>13, Glue
<1>15. PICK f3 : f3 = f2 \o r1
  OBVIOUS
<1>16. f3 \in Seq(Operation) /\ Formed(f3) /\ ToSet(f3) = ToSet(f2) \cup ToSet(r1) /\ f3 # <<>> /\ f3[1] = la
  BY <1>4, <1>14, <1>15, Glue
<1>17. PICK g : g = f3 \o m1
  OBVIOUS
<1>18. g \in Seq(Operation) /\ Formed(g) /\ ToSet(g) = ToSet(f3) \cup ToSet(m1) /\ g # <<>> /\ g[1] = la
  BY <1>9, <1>16, <1>17, Glue
<1>19. PICK t1 : t1 = g \o s2
  OBVIOUS
<1>20. t1 \in Seq(Operation) /\ Formed(t1) /\ ToSet(t1) = ToSet(g) \cup ToSet(s2) /\ t1 # <<>> /\ t1[1] = la
  BY <1>7, <1>18, <1>19, Glue
<1>21. PICK t2 : t2 = t1 \o e1
  OBVIOUS
<1>22. t2 \in Seq(Operation) /\ Formed(t2) /\ ToSet(t2) = ToSet(t1) \cup ToSet(e1) /\ t2 # <<>> /\ t2[1] = la
  BY <1>9, <1>20, <1>21, Glue
<1>23. ops = t2
  BY <1>0, <1>1, <1>5, <1>8, <1>11, <1>13, <1>15, <1>17, <1>19, <1>21 DEF RollbackPlan
<1>24. \A x \in ToSet(f3) : x.op \notin {"erase", "flash", "uart_mark", "uart_config", "cmdline"}
                            /\ (x.op \in Writing => x.st = rr)
  BY <1>3, <1>4, <1>6, <1>9, <1>10, <1>12, <1>14, <1>16 DEF Writing
<1>25. \A x \in ToSet(t2) : x.op \notin {"erase", "flash", "uart_mark", "uart_config"}
                            /\ (x.op = "cmdline" => x.slot = Inactive(s))
                            /\ (x.op \in Writing => x.st \in {rr, idle})
  BY <1>3, <1>7, <1>9, <1>18, <1>20, <1>22, <1>24 DEF Writing
<1>26. \A i \in DOMAIN t2 : t2[i] \in ToSet(t2)
  BY DEF ToSet
<1>27. PICK n \in Nat : n = Len(f3) /\ DOMAIN f3 = 1..n
  BY <1>16, LenProperties
<1>28. n + 1 \in DOMAIN g /\ g[n + 1] = back /\ \A i \in DOMAIN f3 : i \in DOMAIN g /\ g[i] = f3[i]
  <2>1. 1 \in DOMAIN m1
    BY <1>8
  <2>2. /\ \A i \in DOMAIN f3 : i \in DOMAIN (f3 \o m1) /\ (f3 \o m1)[i] = f3[i]
        /\ \A k \in DOMAIN m1 : Len(f3) + k \in DOMAIN (f3 \o m1) /\ (f3 \o m1)[Len(f3) + k] = m1[k]
    BY <1>9, <1>16, Join
  <2>3. QED BY <1>9, <1>17, <1>27, <2>1, <2>2
<1>29. \A i \in DOMAIN g : i \in DOMAIN t1 /\ t1[i] = g[i]
  BY <1>7, <1>18, <1>19, Join
<1>30. \A i \in DOMAIN t1 : i \in DOMAIN t2 /\ t2[i] = t1[i]
  BY <1>9, <1>20, <1>21, Join
<1>31. ASSUME NEW i \in DOMAIN t2, t2[i].op \in Writing, t2[i].st # rr
       PROVE  \E j \in DOMAIN t2 : j < i /\ t2[j].op = "cmdline"
  <2>1. i \notin DOMAIN f3
    <3>1. SUFFICES ASSUME i \in DOMAIN f3 PROVE FALSE
      OBVIOUS
    <3>2. t2[i] = f3[i] /\ f3[i] \in ToSet(f3)
      BY <1>28, <1>29, <1>30, <3>1 DEF ToSet
    <3>3. QED BY <1>24, <1>31, <3>2
  <2>2. i \in Nat /\ i > 0
    BY <1>22, LenProperties
  <2>3. t2[n + 1] = back /\ n + 1 \in DOMAIN t2
    BY <1>28, <1>29, <1>30
  <2>4. i # n + 1
    BY <1>3, <1>31, <2>3 DEF Writing
  <2>5. n + 1 < i
    BY <1>27, <2>1, <2>2, <2>4
  <2>6. QED BY <1>3, <2>3, <2>5
<1>32. ASSUME NEW i \in DOMAIN t2
       PROVE  /\ t2[i].op \notin {"erase", "flash", "uart_mark", "uart_config"}
              /\ t2[i].op = "cmdline" => t2[i].slot = Inactive(s)
              /\ t2[i].op \in Writing =>
                   \/ t2[i].st = rr
                   \/ t2[i].st = idle /\ \E j \in DOMAIN t2 : j < i /\ t2[j].op = "cmdline"
  <2>1. t2[i] \in ToSet(t2)
    BY <1>26
  <2>2. t2[i].op \in Writing => t2[i].st \in {rr, idle}
    BY <1>25, <2>1
  <2>3. QED BY <1>25, <1>31, <2>1, <2>2
<1>33. t2[1].op = "latch"
  BY <1>3, <1>22
<1>34. QED BY <1>1, <1>22, <1>23, <1>32, <1>33

\* migrate_bluetooth_uart.
LEMMA MigrateFacts ==
  ASSUME NEW s \in Slots, NEW st \in BootState, NEW ops, ops = MigratePlan(s, st)
  PROVE  /\ ops \in Seq(Operation) /\ Formed(ops)
         /\ \A x \in ToSet(ops) : x.op \in MigrateOps
<1>1. PICK a, b, d : /\ a = Op("uart_mark", [slot |-> s, ver |-> st.ver], None)
                     /\ b = Do("uart_config") /\ d = Do("uart_reboot")
  OBVIOUS
<1>2. /\ a \in Operation /\ b \in Operation /\ d \in Operation
      /\ a.op = "uart_mark" /\ b.op = "uart_config" /\ d.op = "uart_reboot"
  <2>1. [slot |-> s, ver |-> st.ver] \in Candidate
    BY DEF BootState, Candidate
  <2>2. QED BY <1>1, <2>1 DEF Op, Do, Operation, Writing, Ops, UartOps, MigrateOps
<1>3. PICK v, w : v = <<a>> /\ w = <<b, d>>
  OBVIOUS
<1>4. /\ v \in Seq(Operation) /\ DOMAIN v = 1..1 /\ v[1] = a /\ ToSet(v) = {a} /\ Len(v) = 1
      /\ w \in Seq(Operation) /\ DOMAIN w = 1..2 /\ w[1] = b /\ w[2] = d /\ ToSet(w) = {b, d}
  BY <1>2, <1>3 DEF ToSet
<1>5. Formed(w)
  <2>1. \A i \in DOMAIN w : i = 1 \/ i = 2
    BY <1>4
  <2>2. QED BY <1>2, <1>4, <2>1 DEF Formed
<1>6. PICK u : u = v \o w
  OBVIOUS
<1>7. /\ u \in Seq(Operation) /\ ToSet(u) = {a, b, d}
      /\ DOMAIN u = 1..3 /\ u[1] = a /\ u[2] = b /\ u[3] = d
  <2>1. u \in Seq(Operation) /\ ToSet(u) = ToSet(v) \cup ToSet(w)
    BY <1>4, <1>6, ConcatSet
  <2>2. /\ \A i \in DOMAIN v : i \in DOMAIN (v \o w) /\ (v \o w)[i] = v[i]
        /\ \A k \in DOMAIN w : Len(v) + k \in DOMAIN (v \o w) /\ (v \o w)[Len(v) + k] = w[k]
        /\ \A i \in DOMAIN (v \o w) : i \in DOMAIN v \/ \E k \in DOMAIN w : i = Len(v) + k
    BY <1>4, Join
  <2>3. 1 \in DOMAIN v /\ 1 \in DOMAIN w /\ 2 \in DOMAIN w /\ 1 + 1 = 2 /\ 1 + 2 = 3
    BY <1>4
  <2>4. u[1] = a /\ u[2] = b /\ u[3] = d /\ 1 \in DOMAIN u /\ 2 \in DOMAIN u /\ 3 \in DOMAIN u
    BY <1>4, <1>6, <2>2, <2>3
  <2>5. \A i \in DOMAIN u : i = 1 \/ i = 2 \/ i = 3
    BY <1>4, <1>6, <2>2
  <2>6. DOMAIN u = 1..3
    <3>1. PICK n \in Nat : DOMAIN u = 1..n
      BY <2>1, LenProperties
    <3>2. 3 \in 1..n
      BY <2>4, <3>1
    <3>3. n \in 1..n
      BY <3>2
    <3>4. n = 1 \/ n = 2 \/ n = 3
      BY <2>5, <3>1, <3>3
    <3>5. n = 3
      BY <3>2, <3>4
    <3>6. QED BY <3>1, <3>5
  <2>7. QED BY <1>4, <2>1, <2>4, <2>6
<1>8. Formed(u)
  <2>1. \A i \in DOMAIN u : i = 1 \/ i = 2 \/ i = 3
    BY <1>7
  <2>2. 2 \in DOMAIN u /\ 3 \in DOMAIN u /\ 1 + 1 = 2 /\ 2 + 1 = 3
    BY <1>7
  <2>3. QED BY <1>2, <1>7, <2>1, <2>2 DEF Formed
<1>9. <<>> \in Seq(Operation) /\ Formed(<<>>) /\ ToSet(<<>>) = {}
  BY DEF Formed, ToSet
<1>10. <<>> \o w = w
  BY <1>4, ConcatEmptySeq
<1>11. ops = <<>> \/ ops = u \/ ops = w
  <2>1. ops = <<>> \/ ops = (IF st.pending = s THEN v ELSE <<>>) \o w
    BY <1>1, <1>3 DEF MigratePlan, Uart
  <2>2. QED BY <1>6, <1>10, <2>1
<1>12. QED BY <1>2, <1>4, <1>5, <1>7, <1>8, <1>9, <1>11 DEF MigrateOps

\* The end of a migration is committed, if the image knows it.
LEMMA CommitFacts ==
  ASSUME NEW s \in Slots, NEW u, u = Uart(s, <<Do("uart_commit")>>)
  PROVE  u \in Seq(Operation) /\ Formed(u) /\ \A x \in ToSet(u) : x.op = "uart_commit"
<1>1. PICK b : b = Do("uart_commit")
  OBVIOUS
<1>2. b \in Operation /\ b.op = "uart_commit"
  BY <1>1 DEF Op, Do, Operation, Writing, Ops, UartOps, MigrateOps
<1>3. <<b>> \in Seq(Operation) /\ Formed(<<b>>) /\ ToSet(<<b>>) = {b}
  BY <1>2, Single
<1>4. <<>> \in Seq(Operation) /\ Formed(<<>>) /\ ToSet(<<>>) = {}
  BY DEF Formed, ToSet
<1>5. u = <<b>> \/ u = <<>>
  BY <1>1 DEF Uart
<1>6. QED BY <1>2, <1>3, <1>4, <1>5

\* A boot that is no rollback writes w and may migrate config.txt.
Starting(ops, w) ==
  \A i \in DOMAIN ops :
    /\ ops[i].op \in {"backup", "primary", "mirror", "uart_commit"} \cup MigrateOps
    /\ ops[i].op \in Writing => ops[i].st = w

\* start of a slot that is on trial for the first time, or not at all.
LEMMA StartFacts ==
  ASSUME NEW s \in Slots, NEW st \in BootState, ~TrialFailed(s, st), NEW ops, ops = StartPlan(s, st),
         NEW w,
         st.pending = s => w = [st EXCEPT !.status = "booting", !.lastGood = IF @ = None THEN s ELSE @],
         st.pending # s => w = State("idle", s, None, None, st.rolled)
  PROVE  ops \in Seq(Operation) /\ Formed(ops) /\ Starting(ops, w)
<1>1. PICK m, c, idle, trial :
        /\ m = MigratePlan(s, st) /\ c = Uart(s, <<Do("uart_commit")>>)
        /\ trial = [st EXCEPT !.status = "booting", !.lastGood = IF @ = None THEN s ELSE @]
        /\ idle = State("idle", s, None, None, st.rolled)
  OBVIOUS
<1>2. w \in BootState
  <2>1. trial \in BootState
    BY <1>1 DEF BootState, Statuses
  <2>2. idle \in BootState
    BY <1>1 DEF BootState, Statuses, State
  <2>3. QED BY <1>1, <2>1, <2>2
<1>3. PICK v : v = SaveState(w)
  OBVIOUS
<1>4. /\ v \in Seq(Operation) /\ Formed(v)
      /\ \A x \in ToSet(v) : x.op \in {"backup", "primary", "mirror"} /\ x.st = w
  BY <1>2, <1>3, SaveFacts
<1>5. m \in Seq(Operation) /\ Formed(m) /\ \A x \in ToSet(m) : x.op \in MigrateOps
  BY <1>1, MigrateFacts
<1>6. c \in Seq(Operation) /\ Formed(c) /\ \A x \in ToSet(c) : x.op = "uart_commit"
  BY <1>1, CommitFacts
<1>7. PICK y : y = IF st.pending = s THEN v ELSE v \o c
  OBVIOUS
<1>8. v \o c \in Seq(Operation) /\ Formed(v \o c) /\ ToSet(v \o c) = ToSet(v) \cup ToSet(c)
  BY <1>4, <1>6, Glue
<1>9. y \in Seq(Operation) /\ Formed(y) /\ ToSet(y) \subseteq ToSet(v) \cup ToSet(c)
  BY <1>4, <1>7, <1>8
<1>10. m \o y \in Seq(Operation) /\ Formed(m \o y) /\ ToSet(m \o y) = ToSet(m) \cup ToSet(y)
  BY <1>5, <1>9, Glue
<1>11. ops = m \o y
  BY <1>1, <1>3, <1>7 DEF StartPlan
<1>12. \A x \in ToSet(ops) : /\ x.op \in {"backup", "primary", "mirror", "uart_commit"} \cup MigrateOps
                             /\ x.op \in Writing => x.st = w
  BY <1>4, <1>5, <1>6, <1>9, <1>10, <1>11 DEF Writing, MigrateOps
<1>13. \A i \in DOMAIN ops : ops[i] \in ToSet(ops)
  BY DEF ToSet
<1>14. QED BY <1>10, <1>11, <1>12, <1>13 DEF Starting

\* success.
LEMMA SuccessFacts ==
  ASSUME NEW s \in Slots, NEW st \in BootState, NEW ops, ops = SuccessPlan(s, st)
  PROVE  /\ ops \in Seq(Operation) /\ Formed(ops)
         /\ \A i \in DOMAIN ops :
              /\ ops[i].op \in {"backup", "primary", "mirror", "uart_commit"}
              /\ ops[i].op \in Writing => i <= 2 /\ ops[i].st = State("idle", s, None, None, st.rolled)
              /\ ops[i].op = "primary" => i = 2
<1>1. PICK idle, c : idle = State("idle", s, None, None, st.rolled) /\ c = Uart(s, <<Do("uart_commit")>>)
  OBVIOUS
<1>2. idle \in BootState
  BY <1>1 DEF BootState, Statuses, State
<1>3. c \in Seq(Operation) /\ Formed(c) /\ \A x \in ToSet(c) : x.op = "uart_commit"
  BY <1>1, CommitFacts
<1>4. PICK v : v = SaveState(idle)
  OBVIOUS
<1>5. /\ v \in Seq(Operation) /\ Formed(v)
      /\ \A x \in ToSet(v) : x.op \in {"backup", "primary", "mirror"} /\ x.st = idle
  BY <1>2, <1>4, SaveFacts
<1>6. ops = v \o c
  BY <1>1, <1>4 DEF SuccessPlan
<1>7. ops \in Seq(Operation) /\ Formed(ops) /\ ToSet(ops) = ToSet(v) \cup ToSet(c)
  BY <1>3, <1>5, <1>6, Glue
<1>8. PICK b, f, m : b = Op("backup", idle, None) /\ f = Op("primary", idle, None) /\ m = Op("mirror", idle, None)
  OBVIOUS
<1>9. /\ b.op = "backup" /\ f.op = "primary" /\ m.op = "mirror"
      /\ b \in Operation /\ f \in Operation /\ m \in Operation
  BY <1>2, <1>8 DEF Op, Operation, Writing, Ops, UartOps, MigrateOps
<1>10. PICK w, r : w = <<b, f>> /\ r = <<m>>
  OBVIOUS
<1>11. /\ w \in Seq(Operation) /\ r \in Seq(Operation) /\ Len(w) = 2
       /\ DOMAIN w = 1..2 /\ w[1] = b /\ w[2] = f /\ DOMAIN r = 1..1 /\ r[1] = m
  BY <1>9, <1>10
<1>12. v = w \o r
  BY <1>4, <1>8, <1>10 DEF SaveState, WriteBoth
<1>13. DOMAIN v = 1..3 /\ v[1] = b /\ v[2] = f /\ v[3] = m
  <2>1. /\ \A i \in DOMAIN w : i \in DOMAIN (w \o r) /\ (w \o r)[i] = w[i]
        /\ \A k \in DOMAIN r : Len(w) + k \in DOMAIN (w \o r) /\ (w \o r)[Len(w) + k] = r[k]
        /\ \A i \in DOMAIN (w \o r) : i \in DOMAIN w \/ \E k \in DOMAIN r : i = Len(w) + k
    BY <1>11, Join
  <2>2. 1 \in DOMAIN w /\ 2 \in DOMAIN w /\ 1 \in DOMAIN r /\ 2 + 1 = 3
    BY <1>11
  <2>3. v[1] = b /\ v[2] = f /\ v[3] = m /\ 1 \in DOMAIN v /\ 2 \in DOMAIN v /\ 3 \in DOMAIN v
    BY <1>11, <1>12, <2>1, <2>2
  <2>4. \A i \in DOMAIN v : i = 1 \/ i = 2 \/ i = 3
    BY <1>11, <1>12, <2>1
  <2>5. QED BY <2>3, <2>4
<1>14. ASSUME NEW i \in DOMAIN ops
       PROVE  /\ ops[i].op \in {"backup", "primary", "mirror", "uart_commit"}
              /\ ops[i].op \in Writing => i <= 2 /\ ops[i].st = idle
              /\ ops[i].op = "primary" => i = 2
  <2>1. /\ \A k \in DOMAIN v : k \in DOMAIN (v \o c) /\ (v \o c)[k] = v[k]
        /\ \A k \in DOMAIN c : Len(v) + k \in DOMAIN (v \o c) /\ (v \o c)[Len(v) + k] = c[k]
        /\ \A j \in DOMAIN (v \o c) : j \in DOMAIN v \/ \E k \in DOMAIN c : j = Len(v) + k
    BY <1>3, <1>5, Join
  <2>2. CASE i \in DOMAIN v
    <3>1. ops[i] = v[i] /\ v[i] \in ToSet(v)
      BY <1>6, <2>1, <2>2 DEF ToSet
    <3>2. i = 1 \/ i = 2 \/ i = 3
      BY <1>13, <2>2
    <3>3. QED BY <1>5, <1>9, <1>13, <3>1, <3>2 DEF Writing
  <2>3. CASE \E k \in DOMAIN c : i = Len(v) + k
    <3>1. PICK k \in DOMAIN c : i = Len(v) + k
      BY <2>3
    <3>2. ops[i] = c[k] /\ c[k] \in ToSet(c)
      BY <1>6, <2>1, <3>1 DEF ToSet
    <3>3. ops[i].op = "uart_commit"
      BY <1>3, <3>2
    <3>4. QED BY <3>3 DEF Writing
  <2>4. QED BY <1>6, <2>1, <2>2, <2>3
<1>15. QED BY <1>1, <1>7, <1>14

\* apply_appliance_image_blocking, position by position.
LEMMA UpdateFacts ==
  ASSUME NEW s \in Slots, NEW v \in Versions, NEW ops, ops = UpdatePlan(s, v)
  PROVE  /\ ops \in Seq(Operation) /\ DOMAIN ops = 1..6 /\ Formed(ops)
         /\ ops[1].op = "erase" /\ ops[1].slot = Inactive(s)
         /\ ops[2].op = "flash" /\ ops[2].st = [slot |-> Inactive(s), ver |-> v]
         /\ ops[3].op = "backup" /\ ops[3].st = State("pending", s, Inactive(s), v, None)
         /\ ops[4].op = "primary" /\ ops[4].st = State("pending", s, Inactive(s), v, None)
         /\ ops[5].op = "cmdline" /\ ops[5].slot = Inactive(s)
         /\ ops[6].op = "reboot"
<1>1. PICK st, x1, x2, x3, x4, x5, x6 :
        /\ st = State("pending", s, Inactive(s), v, None)
        /\ x1 = Op("erase", None, Inactive(s)) /\ x2 = Op("flash", [slot |-> Inactive(s), ver |-> v], None)
        /\ x3 = Op("backup", st, None) /\ x4 = Op("primary", st, None)
        /\ x5 = Op("cmdline", None, Inactive(s)) /\ x6 = Do("reboot")
  OBVIOUS
<1>2. Inactive(s) \in Slots
  BY OtherSlot
<1>3. st \in BootState /\ [slot |-> Inactive(s), ver |-> v] \in Candidate
  BY <1>1, <1>2 DEF BootState, Statuses, State, Candidate
<1>4. /\ x1 \in Operation /\ x2 \in Operation /\ x3 \in Operation
      /\ x4 \in Operation /\ x5 \in Operation /\ x6 \in Operation
  BY <1>1, <1>2, <1>3 DEF Op, Do, Operation, Writing, Ops, UartOps, MigrateOps
<1>5. /\ x1.op = "erase" /\ x1.slot = Inactive(s) /\ x2.op = "flash" /\ x2.st = [slot |-> Inactive(s), ver |-> v]
      /\ x3.op = "backup" /\ x3.st = st /\ x4.op = "primary" /\ x4.st = st
      /\ x5.op = "cmdline" /\ x5.slot = Inactive(s) /\ x6.op = "reboot"
  BY <1>1 DEF Op, Do
<1>6. PICK a, b, c : a = <<x1, x2>> /\ b = <<x3, x4>> /\ c = <<x5, x6>>
  OBVIOUS
<1>7. /\ a \in Seq(Operation) /\ Len(a) = 2 /\ DOMAIN a = 1..2 /\ a[1] = x1 /\ a[2] = x2
      /\ b \in Seq(Operation) /\ Len(b) = 2 /\ DOMAIN b = 1..2 /\ b[1] = x3 /\ b[2] = x4
      /\ c \in Seq(Operation) /\ Len(c) = 2 /\ DOMAIN c = 1..2 /\ c[1] = x5 /\ c[2] = x6
  BY <1>4, <1>6
<1>8. PICK d : d = a \o b
  OBVIOUS
<1>9. /\ d \in Seq(Operation) /\ Len(d) = 4
      /\ \A i \in 1..4 : d[i] = IF i <= 2 THEN a[i] ELSE b[i - 2]
  <2>1. /\ a \o b \in Seq(Operation) /\ Len(a \o b) = Len(a) + Len(b)
        /\ \A i \in 1..Len(a) + Len(b) : (a \o b)[i] = IF i <= Len(a) THEN a[i] ELSE b[i - Len(a)]
    BY <1>7, ConcatProperties
  <2>2. QED BY <1>7, <1>8, <2>1
<1>10. d[1] = x1 /\ d[2] = x2 /\ d[3] = x3 /\ d[4] = x4
  BY <1>7, <1>9
<1>11. ops = d \o c
  BY <1>1, <1>6, <1>8 DEF UpdatePlan, WriteBoth
<1>12. DOMAIN d = 1..4 /\ Len(d) = 4
  BY <1>9, LenProperties
<1>13. /\ ops \in Seq(Operation) /\ DOMAIN ops = 1..6
       /\ ops[1] = x1 /\ ops[2] = x2 /\ ops[3] = x3 /\ ops[4] = x4 /\ ops[5] = x5 /\ ops[6] = x6
  <2>1. /\ d \o c \in Seq(Operation)
        /\ \A i \in DOMAIN d : i \in DOMAIN (d \o c) /\ (d \o c)[i] = d[i]
        /\ \A k \in DOMAIN c : Len(d) + k \in DOMAIN (d \o c) /\ (d \o c)[Len(d) + k] = c[k]
        /\ \A i \in DOMAIN (d \o c) : i \in DOMAIN d \/ \E k \in DOMAIN c : i = Len(d) + k
    BY <1>7, <1>9, Join
  <2>2. /\ 1 \in DOMAIN d /\ 2 \in DOMAIN d /\ 3 \in DOMAIN d /\ 4 \in DOMAIN d
        /\ 1 \in DOMAIN c /\ 2 \in DOMAIN c /\ 4 + 1 = 5 /\ 4 + 2 = 6
    BY <1>7, <1>12
  <2>3. /\ ops[1] = d[1] /\ ops[2] = d[2] /\ ops[3] = d[3] /\ ops[4] = d[4]
        /\ 1 \in DOMAIN ops /\ 2 \in DOMAIN ops /\ 3 \in DOMAIN ops /\ 4 \in DOMAIN ops
    BY <1>11, <2>1, <2>2
  <2>4. ops[5] = c[1] /\ ops[6] = c[2] /\ 5 \in DOMAIN ops /\ 6 \in DOMAIN ops
    <3>1. \A k \in DOMAIN c : 4 + k \in DOMAIN ops /\ ops[4 + k] = c[k]
      BY <1>11, <1>12, <2>1, Zenon
    <3>2. QED BY <2>2, <3>1
  <2>5. \A i \in DOMAIN ops : i \in 1..6
    <3>1. ASSUME NEW i \in DOMAIN ops PROVE i \in DOMAIN d \/ \E k \in DOMAIN c : i = 4 + k
      BY <1>11, <1>12, <2>1
    <3>2. QED BY <1>7, <1>12, <3>1
  <2>6. DOMAIN ops = 1..6
    BY <2>3, <2>4, <2>5
  <2>7. QED BY <1>7, <1>10, <1>11, <2>1, <2>3, <2>4, <2>6
<1>14. Formed(ops)
  <2>1. \A i \in DOMAIN ops : i \in {1, 2, 3, 4, 5, 6}
    BY <1>13
  <2>2. 3 \in DOMAIN ops /\ 4 - 1 = 3
    BY <1>13
  <2>3. QED BY <1>5, <1>13, <2>1, <2>2 DEF Formed
<1>15. QED BY <1>1, <1>5, <1>13, <1>14

-----------------------------------------------------------------------------
(* What is left of a plan.                                                  *)

\* The operations of a plan before and after the i-th.
Earlier(s, i) == {s[j] : j \in {k \in DOMAIN s : k < i}}
Later(s, i) == {s[j] : j \in {k \in DOMAIN s : k > i}}
Some(E, w) == \E x \in E : x.op = w

\* Formed, for what is left of a plan.
Ordered(ops) ==
  \A i \in DOMAIN ops :
    /\ ops[i].op = "primary" /\ i > 1 => ops[i - 1].op = "backup" /\ ops[i - 1].st = ops[i].st
    /\ ops[i].op = "uart_mark" => i + 1 \in DOMAIN ops /\ ops[i + 1].op = "uart_config"
    /\ ops[i].op = "uart_config" => i + 1 \in DOMAIN ops /\ ops[i + 1].op = "uart_reboot"
    /\ ops[i].op = "uart_restore" => i + 1 \in DOMAIN ops /\ ops[i + 1].op = "uart_commit"

\* t is left of s once its first k operations are gone.
Dropped(s, k, t) ==
  /\ t \in Seq(Operation) /\ Ordered(t)
  /\ \A i \in DOMAIN t :
       /\ i + k \in DOMAIN s /\ t[i] = s[i + k]
       /\ Earlier(t, i) \subseteq Earlier(s, i + k)
       /\ Earlier(s, i + k) \subseteq Earlier(t, i) \cup Earlier(s, k + 1)
       /\ Later(t, i) \subseteq Later(s, i + k)

\* A fresh plan is in order, and does not start with the primary copy.
LEMMA FormedOrdered ==
  ASSUME NEW s \in Seq(Operation), Formed(s)
  PROVE  /\ Ordered(s)
         /\ s # <<>> => s[1].op # "primary"
<1>1. Ordered(s)
  BY DEF Formed, Ordered
<1>2. ASSUME s # <<>>, s[1].op = "primary" PROVE FALSE
  <2>1. PICK n \in Nat : DOMAIN s = 1..n /\ n # 0
    BY <1>2, EmptySeq, LenProperties
  <2>2. 1 \in DOMAIN s
    BY <2>1
  <2>3. 1 - 1 \in DOMAIN s
    BY <1>2, <2>2 DEF Formed
  <2>4. QED BY <2>1, <2>3
<1>3. QED BY <1>1, <1>2

LEMMA Dropping ==
  ASSUME NEW s \in Seq(Operation), NEW t \in Seq(Operation), NEW k \in Nat, Ordered(s),
         Len(s) = Len(t) + k, \A i \in 1..Len(t) : t[i] = s[i + k]
  PROVE  Dropped(s, k, t)
<1>1. PICK m \in Nat : m = Len(t) /\ DOMAIN t = 1..m
  BY LenProperties
<1>2. DOMAIN s = 1..(m + k)
  BY <1>1, LenProperties
<1>3. \A i \in 1..m : t[i] = s[i + k] /\ i + k \in 1..(m + k)
  BY <1>1
<1>4. Ordered(t)
  <2>1. SUFFICES ASSUME NEW i \in 1..m
                 PROVE  /\ t[i].op = "primary" /\ i > 1 => t[i - 1].op = "backup" /\ t[i - 1].st = t[i].st
                        /\ t[i].op = "uart_mark" => i + 1 \in 1..m /\ t[i + 1].op = "uart_config"
                        /\ t[i].op = "uart_config" => i + 1 \in 1..m /\ t[i + 1].op = "uart_reboot"
                        /\ t[i].op = "uart_restore" => i + 1 \in 1..m /\ t[i + 1].op = "uart_commit"
    BY <1>1 DEF Ordered
  <2>2. PICK j \in 1..(m + k) : j = i + k /\ t[i] = s[j]
    BY <1>3
  <2>3. /\ s[j].op = "primary" /\ j > 1 => s[j - 1].op = "backup" /\ s[j - 1].st = s[j].st
        /\ s[j].op = "uart_mark" => j + 1 \in 1..(m + k) /\ s[j + 1].op = "uart_config"
        /\ s[j].op = "uart_config" => j + 1 \in 1..(m + k) /\ s[j + 1].op = "uart_reboot"
        /\ s[j].op = "uart_restore" => j + 1 \in 1..(m + k) /\ s[j + 1].op = "uart_commit"
    BY <1>2 DEF Ordered
  <2>4. ASSUME i > 1 PROVE j > 1 /\ t[i - 1] = s[j - 1]
    <3>1. i - 1 \in 1..m /\ (i - 1) + k = j - 1 /\ j > 1
      BY <2>2, <2>4
    <3>2. QED BY <1>3, <3>1
  <2>5. ASSUME j + 1 \in 1..(m + k) PROVE i + 1 \in 1..m /\ t[i + 1] = s[j + 1]
    <3>1. i \in Nat /\ i > 0 /\ j = i + k /\ j + 1 <= m + k
      BY <2>2, <2>5
    <3>2. i + 1 <= m /\ (i + 1) + k = j + 1
      BY <3>1
    <3>3. i + 1 \in 1..m
      BY <3>1, <3>2
    <3>4. t[i + 1] = s[(i + 1) + k]
      BY <1>3, <3>3, Zenon
    <3>5. QED BY <3>2, <3>3, <3>4
  <2>6. QED BY <2>2, <2>3, <2>4, <2>5
<1>5. ASSUME NEW i \in 1..m
      PROVE  /\ Earlier(t, i) \subseteq Earlier(s, i + k)
             /\ Earlier(s, i + k) \subseteq Earlier(t, i) \cup Earlier(s, k + 1)
             /\ Later(t, i) \subseteq Later(s, i + k)
  <2>1. ASSUME NEW j \in 1..m, j < i PROVE t[j] \in Earlier(s, i + k)
    <3>1. j + k \in 1..(m + k) /\ j + k < i + k
      BY <2>1
    <3>2. QED BY <1>2, <1>3, <3>1 DEF Earlier
  <2>2. ASSUME NEW j \in 1..m, j > i PROVE t[j] \in Later(s, i + k)
    <3>1. j + k \in 1..(m + k) /\ j + k > i + k
      BY <2>2
    <3>2. QED BY <1>2, <1>3, <3>1 DEF Later
  <2>3. ASSUME NEW j \in 1..(m + k), j < i + k PROVE s[j] \in Earlier(t, i) \cup Earlier(s, k + 1)
    <3>1. CASE j < k + 1
      BY <1>2, <3>1 DEF Earlier
    <3>2. CASE ~(j < k + 1)
      <4>1. PICK h \in 1..m : j = h + k /\ h < i
        <5>1. j - k \in 1..m /\ j = (j - k) + k /\ j - k < i
          BY <2>3, <3>2
        <5>2. QED BY <5>1
      <4>2. s[j] = t[h]
        BY <1>3, <4>1
      <4>3. QED BY <1>1, <4>1, <4>2 DEF Earlier
    <3>3. QED BY <3>1, <3>2
  <2>4. QED BY <1>1, <1>2, <2>1, <2>2, <2>3 DEF Earlier, Later
<1>6. QED BY <1>1, <1>2, <1>3, <1>4, <1>5 DEF Dropped

\* An operation is done.
LEMMA DroppedTail ==
  ASSUME NEW s \in Seq(Operation), s # <<>>, Ordered(s)
  PROVE  /\ Dropped(s, 1, Tail(s)) /\ 1 \in DOMAIN s /\ s[1] = Head(s) /\ Head(s) \in Operation
         /\ Earlier(s, 1) = {} /\ Earlier(s, 2) = {Head(s)}
         /\ \A i \in DOMAIN Tail(s) : Head(s) \in Earlier(s, i + 1) /\ Tail(s)[i] \in Later(s, 1)
<1>1. /\ Tail(s) \in Seq(Operation) /\ Len(Tail(s)) = Len(s) - 1 /\ Len(s) > 0
      /\ \A i \in 1..(Len(s) - 1) : Tail(s)[i] = s[i + 1]
      /\ Head(s) \in Operation /\ Head(s) = s[1]
  BY TailFacts
<1>2. PICK m \in Nat : m = Len(Tail(s)) /\ Len(s) = m + 1 /\ DOMAIN s = 1..(m + 1)
  <2>1. PICK n \in Nat : n = Len(s) /\ DOMAIN s = 1..n
    BY LenProperties
  <2>2. n > 0 /\ Len(Tail(s)) = n - 1
    BY <1>1, <2>1
  <2>3. n - 1 \in Nat /\ n = (n - 1) + 1
    BY <2>2
  <2>4. QED BY <2>1, <2>2, <2>3
<1>3. \A i \in 1..m : Tail(s)[i] = s[i + 1]
  BY <1>1, <1>2
<1>4. Dropped(s, 1, Tail(s))
  BY <1>1, <1>2, <1>3, Dropping
<1>5. DOMAIN Tail(s) = 1..m
  BY <1>1, <1>2, LenProperties
<1>6. Earlier(s, 1) = {} /\ Earlier(s, 2) = {s[1]}
  <2>1. \A j \in 1..(m + 1) : ~(j < 1) /\ (j < 2 <=> j = 1)
    OBVIOUS
  <2>2. 1 \in 1..(m + 1)
    OBVIOUS
  <2>3. QED BY <1>2, <2>1, <2>2 DEF Earlier
<1>7. ASSUME NEW i \in DOMAIN Tail(s) PROVE s[1] \in Earlier(s, i + 1) /\ Tail(s)[i] \in Later(s, 1)
  <2>1. 1 \in 1..(m + 1) /\ 1 < i + 1 /\ i + 1 \in 1..(m + 1) /\ i + 1 > 1
    BY <1>5
  <2>2. QED BY <1>2, <1>3, <1>5, <2>1 DEF Earlier, Later
<1>8. 1 \in DOMAIN s
  BY <1>2
<1>9. QED BY <1>1, <1>4, <1>6, <1>7, <1>8

\* A failed operation on the UART configuration takes nothing else with it.
LEMMA DroppedFailed ==
  ASSUME NEW s \in Seq(Operation), s # <<>>, Ordered(s), Tolerated(Head(s))
  PROVE  /\ Dropped(s, GivenUp(Head(s)), SubSeq(s, GivenUp(Head(s)) + 1, Len(s)))
         /\ \A x \in Earlier(s, GivenUp(Head(s)) + 1) :
              x.op \in UartOps /\ (Head(s).op # "uart_restore" => x.op # "uart_restore")
<1>1. PICK k \in {1, 2, 3} : k = GivenUp(Head(s))
  BY DEF GivenUp
<1>2. PICK n \in Nat : n = Len(s) /\ DOMAIN s = 1..n /\ n # 0
  BY EmptySeq, LenProperties
<1>3. Head(s) = s[1] /\ s[1].op \in UartOps /\ 1 \in DOMAIN s
  BY <1>2 DEF Tolerated
<1>4. k <= n /\ \A j \in 1..n : j < k + 1 =>
        s[j].op \in UartOps /\ (s[1].op # "uart_restore" => s[j].op # "uart_restore")
  <2>1. CASE k = 1
    <3>1. \A j \in 1..n : j < 2 => j = 1
      OBVIOUS
    <3>2. QED BY <1>2, <1>3, <2>1, <3>1
  <2>2. CASE k = 2
    <3>1. s[1].op \in {"uart_config", "uart_restore"}
      BY <1>1, <1>3, <2>2 DEF GivenUp
    <3>2. 2 \in 1..n /\ s[2].op \in UartOps /\ s[2].op # "uart_restore"
      <4>1. 1 + 1 \in DOMAIN s /\ s[1 + 1].op \in {"uart_reboot", "uart_commit"}
        BY <1>3, <3>1 DEF Ordered
      <4>2. 1 + 1 = 2
        OBVIOUS
      <4>3. QED BY <1>2, <4>1, <4>2 DEF UartOps, MigrateOps
    <3>3. \A j \in 1..n : j < 3 => j = 1 \/ j = 2
      OBVIOUS
    <3>4. QED BY <1>3, <2>2, <3>2, <3>3
  <2>3. CASE k = 3
    <3>1. s[1].op = "uart_mark"
      BY <1>1, <1>3, <2>3 DEF GivenUp
    <3>2. 2 \in 1..n /\ s[2].op = "uart_config"
      <4>1. 1 + 1 \in DOMAIN s /\ s[1 + 1].op = "uart_config"
        BY <1>3, <3>1 DEF Ordered
      <4>2. 1 + 1 = 2
        OBVIOUS
      <4>3. QED BY <1>2, <4>1, <4>2
    <3>3. 3 \in 1..n /\ s[3].op = "uart_reboot"
      <4>1. 2 + 1 \in DOMAIN s /\ s[2 + 1].op = "uart_reboot"
        BY <1>2, <3>2 DEF Ordered
      <4>2. 2 + 1 = 3
        OBVIOUS
      <4>3. QED BY <1>2, <4>1, <4>2
    <3>4. \A j \in 1..n : j < 4 => j = 1 \/ j = 2 \/ j = 3
      OBVIOUS
    <3>5. QED BY <1>3, <2>3, <3>2, <3>3, <3>4 DEF UartOps, MigrateOps
  <2>4. QED BY <1>1, <2>1, <2>2, <2>3
<1>5. PICK t : t = SubSeq(s, k + 1, n)
  OBVIOUS
<1>6. /\ t \in Seq(Operation) /\ Len(t) + k = n
      /\ \A i \in 1..Len(t) : t[i] = s[i + k]
  <2>1. \A i \in (k + 1)..n : s[i] \in Operation
    BY <1>2, <1>1, ElementOfSeq
  <2>2. /\ t \in Seq(Operation)
        /\ Len(t) = IF k + 1 <= n THEN n - (k + 1) + 1 ELSE 0
        /\ \A i \in 1..(n - (k + 1) + 1) : t[i] = s[(k + 1) + i - 1]
    <3>1. PICK m : m = k + 1
      OBVIOUS
    <3>2. m \in Int /\ n \in Int /\ \A i \in m..n : s[i] \in Operation
      BY <1>1, <1>2, <2>1, <3>1
    <3>3. /\ SubSeq(s, m, n) \in Seq(Operation)
          /\ Len(SubSeq(s, m, n)) = IF m <= n THEN n - m + 1 ELSE 0
          /\ \A i \in 1..(n - m + 1) : SubSeq(s, m, n)[i] = s[m + i - 1]
      BY <3>2, SubSeqProperties
    <3>4. t = SubSeq(s, m, n)
      BY <1>5, <3>1
    <3>5. QED BY <3>1, <3>3, <3>4, Zenon
  <2>3. Len(t) = n - k /\ n - (k + 1) + 1 = n - k
    BY <1>1, <1>2, <1>4, <2>2
  <2>4. \A i \in 1..(n - k) : (k + 1) + i - 1 = i + k
    BY <1>1, <1>2
  <2>5. QED BY <1>1, <1>2, <2>2, <2>3, <2>4
<1>7. Dropped(s, k, t)
  BY <1>1, <1>2, <1>6, Dropping
<1>8. \A x \in Earlier(s, k + 1) :
        x.op \in UartOps /\ (Head(s).op # "uart_restore" => x.op # "uart_restore")
  BY <1>2, <1>3, <1>4 DEF Earlier
<1>9. QED BY <1>1, <1>2, <1>5, <1>7, <1>8

-----------------------------------------------------------------------------
(* Type correctness.                                                        *)

\* What the processes have still to do.
Planned(f) == f \in [Procs -> Seq(Operation)] /\ \A p \in Procs : Ordered(f[p])

\* Everything else.
Stored ==
  /\ primary \in BootState \cup {Bad} /\ backup \in BootState \cup {Bad}
  /\ mirror \in Versions \cup {None}
  /\ cmdline \in Slots
  /\ image \in [Slots -> [ver : Versions, whole : BOOLEAN]]
  /\ config \in {"legacy", "fixed", "missing"}
  /\ uartPending \in Candidate \cup {None}
  /\ uartReboots \in 0..MaxMigrationReboots
  /\ running \in Slots \cup {"off"} /\ latch \in BOOLEAN
  /\ srv \in {"off", "up", "exited", "failing"}
  /\ proven \subseteq Slots /\ uartOwed \in Slots \cup {None} /\ unmarked \in BOOLEAN
  /\ tears \in Nat /\ tears <= MaxTears /\ faults \in Nat

\* Nothing runs on a machine that is off.
OffIdle == running = "off" => srv = "off" /\ plan = NoPlans

TInv == Stored /\ Planned(plan) /\ OffIdle

\* What is loaded is a bootstate.
LEMMA LoadedType ==
  ASSUME Stored
  PROVE  Loaded \in BootState
<1>1. State("idle", None, None, None, None) \in BootState
  BY StateTypes DEF Statuses
<1>2. QED BY <1>1 DEF Stored, Loaded

LEMMA TInvTypeOK == TInv => TypeOK
<1>1. ASSUME Planned(plan), NEW p \in Procs, NEW i \in DOMAIN plan[p] PROVE plan[p][i].op \in Ops
  <2>1. plan[p] \in Seq(Operation)
    BY <1>1 DEF Planned
  <2>2. plan[p][i] \in Operation
    BY <2>1, ElementOfSeq, LenProperties
  <2>3. QED BY <2>2 DEF Operation
<1>2. Planned(plan) => DOMAIN plan = Procs
  BY DEF Planned
<1>3. QED BY <1>1, <1>2 DEF TInv, Stored, TypeOK

\* No plan at all.
LEMMA EmptyPlans ==
  /\ <<>> \in Seq(Operation) /\ Ordered(<<>>)
  /\ Planned(NoPlans) /\ \A p \in Procs : NoPlans[p] = <<>>
<1>1. <<>> \in Seq(Operation) /\ DOMAIN <<>> = {}
  OBVIOUS
<1>2. Ordered(<<>>)
  BY <1>1 DEF Ordered
<1>3. QED BY <1>1, <1>2 DEF Planned, NoPlans

\* A process makes a plan, or drops it.
LEMMA NewPlan ==
  ASSUME NEW f, Planned(f), NEW p \in Procs, NEW ops \in Seq(Operation), Ordered(ops), NEW g,
         g = [f EXCEPT ![p] = ops]
  PROVE  Planned(g) /\ g[p] = ops /\ \A q \in Procs : q # p => g[q] = f[q]
BY DEF Planned

\* A process has done its next operation.
LEMMA DonePlan ==
  ASSUME NEW f, Planned(f), NEW p \in Procs, f[p] # <<>>, NEW g, g = [f EXCEPT ![p] = Tail(@)]
  PROVE  /\ Planned(g) /\ g[p] = Tail(f[p]) /\ \A q \in Procs : q # p => g[q] = f[q]
         /\ Dropped(f[p], 1, g[p]) /\ f[p] \in Seq(Operation) /\ g[p] \in Seq(Operation)
         /\ 1 \in DOMAIN f[p] /\ f[p][1] = Head(f[p]) /\ Head(f[p]) \in Operation
         /\ Earlier(f[p], 1) = {} /\ Earlier(f[p], 1 + 1) = {Head(f[p])}
         /\ \A i \in DOMAIN g[p] : Head(f[p]) \in Earlier(f[p], i + 1) /\ g[p][i] \in Later(f[p], 1)
<1>1. PICK s : s = f[p]
  OBVIOUS
<1>2. s \in Seq(Operation) /\ Ordered(s) /\ s # <<>>
  BY <1>1 DEF Planned
<1>3. /\ Dropped(s, 1, Tail(s)) /\ 1 \in DOMAIN s /\ s[1] = Head(s) /\ Head(s) \in Operation
      /\ Earlier(s, 1) = {} /\ Earlier(s, 2) = {Head(s)}
      /\ \A i \in DOMAIN Tail(s) : Head(s) \in Earlier(s, i + 1) /\ Tail(s)[i] \in Later(s, 1)
  BY <1>2, DroppedTail
<1>4. Tail(s) \in Seq(Operation) /\ Ordered(Tail(s))
  BY <1>3 DEF Dropped
<1>5. g = [f EXCEPT ![p] = Tail(s)]
  BY <1>1
<1>6. Planned(g) /\ g[p] = Tail(s) /\ \A q \in Procs : q # p => g[q] = f[q]
  <2>1. PICK t : t = Tail(s)
    OBVIOUS
  <2>2. t \in Seq(Operation) /\ Ordered(t) /\ g = [f EXCEPT ![p] = t]
    BY <1>4, <1>5, <2>1
  <2>3. Planned(g) /\ g[p] = t /\ \A q \in Procs : q # p => g[q] = f[q]
    BY <2>2 DEF Planned
  <2>4. QED BY <2>1, <2>3
<1>7. 1 + 1 = 2
  OBVIOUS
<1>8. QED BY <1>1, <1>2, <1>3, <1>4, <1>6, <1>7

\* What the scripts plan.
LEMMA RollbackTyped ==
  ASSUME NEW s \in Slots, NEW st \in BootState
  PROVE  RollbackPlan(s, st) \in Seq(Operation) /\ Ordered(RollbackPlan(s, st))
<1>1. CASE st.lastGood \in {None, s}
  BY <1>1, EmptyPlans DEF RollbackPlan
<1>2. CASE st.lastGood \notin {None, s}
  <2>1. st.lastGood = Inactive(s)
    BY <1>2, OtherSlot, StateFields
  <2>2. RollbackPlan(s, st) \in Seq(Operation) /\ Formed(RollbackPlan(s, st))
    BY <2>1, RollbackFacts
  <2>3. QED BY <2>2, FormedOrdered
<1>3. QED BY <1>1, <1>2

LEMMA StartTyped ==
  ASSUME NEW s \in Slots, NEW st \in BootState
  PROVE  StartPlan(s, st) \in Seq(Operation) /\ Ordered(StartPlan(s, st))
<1>1. CASE TrialFailed(s, st)
  <2>1. StartPlan(s, st) = RollbackPlan(s, st)
    BY <1>1 DEF StartPlan
  <2>2. QED BY <2>1, RollbackTyped
<1>2. CASE ~TrialFailed(s, st)
  <2>1. PICK w : /\ st.pending = s =>
                      w = [st EXCEPT !.status = "booting", !.lastGood = IF @ = None THEN s ELSE @]
                 /\ st.pending # s => w = State("idle", s, None, None, st.rolled)
    OBVIOUS
  <2>2. PICK ops : ops = StartPlan(s, st)
    OBVIOUS
  <2>3. ops \in Seq(Operation) /\ Formed(ops)
    BY <1>2, <2>1, <2>2, StartFacts
  <2>4. QED BY <2>2, <2>3, FormedOrdered
<1>3. QED BY <1>1, <1>2

\* The next operation of a process.
LEMMA UpFacts ==
  ASSUME TInv, NEW p \in Procs, NEW w, Up(p, w)
  PROVE  /\ plan[p] # <<>> /\ Head(plan[p]) \in Operation /\ Head(plan[p]).op = w
         /\ running \in Slots
<1>1. plan[p] # <<>> /\ Head(plan[p]).op = w
  BY DEF Up
<1>2. plan[p] \in Seq(Operation)
  BY DEF TInv, Planned
<1>3. Head(plan[p]) \in Operation
  BY <1>1, <1>2, HeadTailProperties
<1>4. running # "off"
  BY <1>1, EmptyPlans DEF TInv, OffIdle
<1>5. QED BY <1>1, <1>3, <1>4 DEF TInv, Stored

LEMMA DoneTyped ==
  ASSUME TInv, NEW p \in Procs, plan[p] # <<>>, Done(p)
  PROVE  Planned(plan')
<1>1. Planned(plan) /\ plan' = [plan EXCEPT ![p] = Tail(@)]
  BY DEF TInv, Done
<1>2. QED BY <1>1, DonePlan

\* The machine is off.
LEMMA DownTyped == GoDown => Planned(plan') /\ OffIdle'
BY EmptyPlans DEF GoDown, OffIdle, NoPlans, Procs

\* The fields an operation carries.
LEMMA Carried ==
  ASSUME NEW o \in Operation
  PROVE  /\ o.op \in Writing \cup {"mirror"} => o.st \in BootState
         /\ o.op \in {"cmdline", "erase"} => o.slot \in Slots
         /\ o.op \in {"flash", "uart_mark", "uart_restore"} => o.st \in Candidate
         /\ o.op = "flash" => o.st.slot \in Slots /\ o.st.ver \in Versions
BY DEF Operation, Candidate

LEMMA TypeExec ==
  ASSUME TInv, NEW p \in Procs, Exec(p)
  PROVE  TInv'
<1> USE DEF TInv
<1>1. CASE WriteBackup(p)
  <2>1. plan[p] # <<>> /\ Head(plan[p]) \in Operation /\ Head(plan[p]).op = "backup" /\ running \in Slots
    BY <1>1, UpFacts DEF WriteBackup
  <2>2. Head(plan[p]).st \in BootState
    BY <2>1, Carried DEF Writing
  <2>3. Planned(plan')
    BY <1>1, <2>1, DoneTyped DEF WriteBackup
  <2>4. Stored'
    BY <1>1, <2>2 DEF WriteBackup, Stored, ghost
  <2>5. QED BY <1>1, <2>1, <2>3, <2>4, OtherSlot DEF WriteBackup, OffIdle
<1>2. CASE WritePrimary(p)
  <2>1. plan[p] # <<>> /\ Head(plan[p]) \in Operation /\ Head(plan[p]).op = "primary" /\ running \in Slots
    BY <1>2, UpFacts DEF WritePrimary
  <2>2. Head(plan[p]).st \in BootState
    BY <2>1, Carried DEF Writing
  <2>3. Planned(plan')
    BY <1>2, <2>1, DoneTyped DEF WritePrimary
  <2>4. Stored'
    BY <1>2, <2>2 DEF WritePrimary, Stored, ghost
  <2>5. QED BY <1>2, <2>1, <2>3, <2>4, OtherSlot DEF WritePrimary, OffIdle
<1>3. CASE Mirror(p)
  <2>1. plan[p] # <<>> /\ running \in Slots
    BY <1>3, UpFacts DEF Mirror
  <2>2. Loaded.rolled \in Versions \cup {None}
    BY LoadedType, StateFields
  <2>3. Planned(plan')
    BY <1>3, <2>1, DoneTyped DEF Mirror
  <2>4. Stored'
    BY <1>3, <2>2 DEF Mirror, Stored, ghost
  <2>5. QED BY <1>3, <2>1, <2>3, <2>4, OtherSlot DEF Mirror, OffIdle
<1>4. CASE Latch(p)
  <2>1. plan[p] # <<>> /\ running \in Slots
    BY <1>4, UpFacts DEF Latch
  <2>2. Planned(plan')
    BY <1>4, <2>1, DoneTyped DEF Latch
  <2>3. Stored'
    BY <1>4 DEF Latch, Stored, ghost, disk
  <2>4. QED BY <1>4, <2>1, <2>2, <2>3, OtherSlot DEF Latch, OffIdle
<1>5. CASE Prepare(p)
  <2>1. plan[p] # <<>> /\ running \in Slots
    BY <1>5, UpFacts DEF Prepare
  <2>2. Planned(plan')
    BY <1>5, <2>1, DoneTyped DEF Prepare
  <2>3. Stored'
    BY <1>5 DEF Prepare, Stored, ghost, disk
  <2>4. QED BY <1>5, <2>1, <2>2, <2>3, OtherSlot DEF Prepare, OffIdle
<1>6. CASE UartRestore(p)
  <2>1. plan[p] # <<>> /\ running \in Slots
    BY <1>6, UpFacts DEF UartRestore
  <2>2. Planned(plan')
    BY <1>6, <2>1, DoneTyped DEF UartRestore
  <2>3. Stored'
    BY <1>6, BoundAssumption DEF UartRestore, Stored
  <2>4. QED BY <1>6, <2>1, <2>2, <2>3, OtherSlot DEF UartRestore, OffIdle
<1>7. CASE UartCommit(p)
  <2>1. plan[p] # <<>> /\ running \in Slots
    BY <1>7, UpFacts DEF UartCommit
  <2>2. Planned(plan')
    BY <1>7, <2>1, DoneTyped DEF UartCommit
  <2>3. Stored'
    BY <1>7 DEF UartCommit, Stored, ghost
  <2>4. QED BY <1>7, <2>1, <2>2, <2>3, OtherSlot DEF UartCommit, OffIdle
<1>8. CASE RewriteCmdline(p)
  <2>1. plan[p] # <<>> /\ Head(plan[p]) \in Operation /\ Head(plan[p]).op = "cmdline" /\ running \in Slots
    BY <1>8, UpFacts DEF RewriteCmdline
  <2>2. Head(plan[p]).slot \in Slots
    BY <2>1, Carried
  <2>3. Planned(plan')
    BY <1>8, <2>1, DoneTyped DEF RewriteCmdline
  <2>4. Stored'
    BY <1>8, <2>2 DEF RewriteCmdline, Stored, ghost
  <2>5. QED BY <1>8, <2>1, <2>3, <2>4, OtherSlot DEF RewriteCmdline, OffIdle
<1>9. CASE Erase(p)
  <2>1. plan[p] # <<>> /\ Head(plan[p]) \in Operation /\ Head(plan[p]).op = "erase" /\ running \in Slots
    BY <1>9, UpFacts DEF Erase
  <2>2. PICK s \in Slots : s = Head(plan[p]).slot
    BY <2>1, Carried
  <2>3. Planned(plan')
    BY <1>9, <2>1, DoneTyped DEF Erase
  <2>4. image' \in [Slots -> [ver : Versions, whole : BOOLEAN]]
    <3>1. image' = [image EXCEPT ![s].whole = FALSE]
      BY <1>9, <2>2 DEF Erase
    <3>2. image \in [Slots -> [ver : Versions, whole : BOOLEAN]]
      BY DEF Stored
    <3>3. QED BY <3>1, <3>2
  <2>5. Stored'
    BY <1>9, <2>4 DEF Erase, Stored
  <2>6. QED BY <1>9, <2>1, <2>3, <2>5, OtherSlot DEF Erase, OffIdle
<1>10. CASE Flash(p)
  <2>1. plan[p] # <<>> /\ Head(plan[p]) \in Operation /\ Head(plan[p]).op = "flash" /\ running \in Slots
    BY <1>10, UpFacts DEF Flash
  <2>2. PICK s \in Slots, v \in Versions : s = Head(plan[p]).st.slot /\ v = Head(plan[p]).st.ver
    BY <2>1, Carried
  <2>3. Planned(plan')
    BY <1>10, <2>1, DoneTyped DEF Flash
  <2>4. image' \in [Slots -> [ver : Versions, whole : BOOLEAN]]
    <3>1. image' = [image EXCEPT ![s] = [ver |-> v, whole |-> TRUE]]
      BY <1>10, <2>2 DEF Flash
    <3>2. image \in [Slots -> [ver : Versions, whole : BOOLEAN]]
      BY DEF Stored
    <3>3. QED BY <3>1, <3>2
  <2>5. Stored'
    BY <1>10, <2>4 DEF Flash, Stored, ghost
  <2>6. QED BY <1>10, <2>1, <2>3, <2>5, OtherSlot DEF Flash, OffIdle
<1>11. CASE UartMark(p)
  <2>1. plan[p] # <<>> /\ Head(plan[p]) \in Operation /\ Head(plan[p]).op = "uart_mark" /\ running \in Slots
    BY <1>11, UpFacts DEF UartMark
  <2>2. Head(plan[p]).st \in Candidate
    BY <2>1, Carried
  <2>3. Planned(plan')
    BY <1>11, <2>1, DoneTyped DEF UartMark
  <2>4. Stored'
    BY <1>11, <2>2 DEF UartMark, Stored, ghost
  <2>5. QED BY <1>11, <2>1, <2>3, <2>4, OtherSlot DEF UartMark, OffIdle
<1>12. CASE UartConfig(p)
  <2>1. plan[p] # <<>> /\ running \in Slots
    BY <1>12, UpFacts DEF UartConfig
  <2>2. Planned(plan')
    BY <1>12, <2>1, DoneTyped DEF UartConfig
  <2>3. Stored'
    BY <1>12, <2>1 DEF UartConfig, Stored
  <2>4. QED BY <1>12, <2>1, <2>2, <2>3, OtherSlot DEF UartConfig, OffIdle
<1>13. CASE UartReboot(p)
  <2>1. plan[p] # <<>> /\ running \in Slots
    BY <1>13, UpFacts DEF UartReboot
  <2>2. CASE MayReboot
    <3>1. GoDown /\ uartReboots' = uartReboots + 1 /\ config' \in {"fixed", "legacy"}
      BY <1>13, <2>2 DEF UartReboot
    <3>2. uartReboots' \in 0..MaxMigrationReboots
      <4>1. uartReboots \in 0..MaxMigrationReboots /\ uartReboots < MaxMigrationReboots
        BY <2>2 DEF MayReboot, Stored
      <4>2. QED BY <3>1, <4>1, BoundAssumption
    <3>3. Stored'
      BY <1>13, <3>1, <3>2 DEF UartReboot, GoDown, Stored, ghost
    <3>4. QED BY <3>1, <3>3, DownTyped
  <2>3. CASE ~MayReboot
    <3>1. Done(p) /\ UNCHANGED <<running, latch, srv, uartReboots, config>>
      BY <1>13, <2>3 DEF UartReboot
    <3>2. Planned(plan')
      BY <2>1, <3>1, DoneTyped
    <3>3. Stored'
      BY <1>13, <3>1 DEF UartReboot, Stored, ghost
    <3>4. QED BY <2>1, <3>1, <3>2, <3>3, OtherSlot DEF OffIdle
  <2>4. QED BY <2>2, <2>3
<1>14. CASE Reboot(p)
  <2>1. Stored'
    BY <1>14 DEF Reboot, GoDown, Stored, disk, ghost
  <2>2. QED BY <1>14, <2>1, DownTyped DEF Reboot
<1>15. QED BY <1>1, <1>2, <1>3, <1>4, <1>5, <1>6, <1>7, <1>8, <1>9, <1>10, <1>11, <1>12, <1>13, <1>14 DEF Exec

LEMMA TypeServer ==
  ASSUME TInv,
         \/ PowerOn \/ Launch \/ MarkSuccess \/ RefuseSuccess \/ ServerExit \/ FailBegin \/ Respawn
         \/ \E v \in Versions : BeginUpdate(v)
  PROVE  TInv'
<1> USE DEF TInv
<1>0. Loaded \in BootState /\ <<>> \in Seq(Operation) /\ Ordered(<<>>) /\ plan \in [Procs -> Seq(Operation)]
  BY LoadedType, EmptyPlans DEF Planned
<1>1. CASE PowerOn
  <2>1. cmdline \in Slots
    BY DEF Stored
  <2>2. PICK ops : ops = StartPlan(cmdline, Loaded)
    OBVIOUS
  <2>3. ops \in Seq(Operation) /\ Ordered(ops)
    BY <1>0, <2>1, <2>2, StartTyped
  <2>4. plan' = [plan EXCEPT !["boot"] = ops]
    BY <1>1, <2>2 DEF PowerOn
  <2>5. Planned(plan')
    BY <2>3, <2>4 DEF Planned, Procs
  <2>6. uartReboots' \in 0..MaxMigrationReboots
    BY <1>1, BoundAssumption DEF PowerOn, RebootsLeft, Stored
  <2>7. Stored'
    BY <1>1, <2>6 DEF PowerOn, Stored, ghost
  <2>8. QED BY <1>1, <2>1, <2>5, <2>7, OtherSlot DEF PowerOn, OffIdle
<1>2. CASE Launch \/ Respawn
  BY <1>2 DEF Launch, Respawn, Stored, OffIdle, disk, ghost
<1>3. CASE MarkSuccess
  <2>1. running \in Slots
    BY <1>3 DEF MarkSuccess, OffIdle, Stored
  <2>2. PICK ops : ops = SuccessPlan(running, Loaded)
    OBVIOUS
  <2>3. ops \in Seq(Operation) /\ Formed(ops)
    BY <1>0, <2>1, <2>2, SuccessFacts
  <2>4. Ordered(ops)
    BY <2>3, FormedOrdered
  <2>5. plan' = [plan EXCEPT !["success"] = ops]
    BY <1>3, <2>2 DEF MarkSuccess
  <2>6. Planned(plan')
    BY <2>3, <2>4, <2>5 DEF Planned, Procs
  <2>7. Stored'
    BY <1>3, <2>1 DEF MarkSuccess, Stored, disk
  <2>8. QED BY <1>3, <2>1, <2>6, <2>7, OtherSlot DEF MarkSuccess, OffIdle
<1>4. CASE RefuseSuccess \/ ServerExit
  <2>1. srv = "up" /\ srv' = "exited" /\ plan' = [plan EXCEPT !["update"] = <<>>]
    BY <1>4 DEF RefuseSuccess, ServerExit
  <2>2. Planned(plan')
    BY <1>0, <2>1 DEF Planned, Procs
  <2>3. Stored'
    BY <1>4, <2>1 DEF RefuseSuccess, ServerExit, Stored, disk, ghost
  <2>4. running # "off" /\ running' = running
    BY <1>4, <2>1 DEF RefuseSuccess, ServerExit, OffIdle
  <2>5. QED BY <2>2, <2>3, <2>4 DEF OffIdle
<1>5. CASE FailBegin
  <2>1. running \in Slots
    BY <1>5 DEF FailBegin, OffIdle, Stored
  <2>2. PICK ops : ops = IF Loaded.pending = running THEN RollbackPlan(running, Loaded) ELSE <<>>
    OBVIOUS
  <2>3. ops \in Seq(Operation) /\ Ordered(ops)
    BY <1>0, <2>1, <2>2, RollbackTyped
  <2>4. plan' = [plan EXCEPT !["fail"] = ops]
    BY <1>5, <2>2 DEF FailBegin
  <2>5. Planned(plan')
    BY <2>3, <2>4 DEF Planned, Procs
  <2>6. Stored'
    BY <1>5 DEF FailBegin, Stored, disk, ghost
  <2>7. QED BY <1>5, <2>1, <2>5, <2>6, OtherSlot DEF FailBegin, OffIdle
<1>6. CASE \E v \in Versions : BeginUpdate(v)
  <2>1. PICK v \in Versions : BeginUpdate(v)
    BY <1>6
  <2>2. running \in Slots
    BY <2>1 DEF BeginUpdate, OffIdle, Stored
  <2>3. PICK ops : ops = UpdatePlan(running, v)
    OBVIOUS
  <2>4. ops \in Seq(Operation) /\ Formed(ops)
    BY <2>2, <2>3, UpdateFacts
  <2>5. Ordered(ops)
    BY <2>4, FormedOrdered
  <2>6. plan' = [plan EXCEPT !["update"] = ops]
    BY <2>1, <2>3 DEF BeginUpdate
  <2>7. Planned(plan')
    BY <2>4, <2>5, <2>6 DEF Planned, Procs
  <2>8. Stored'
    BY <2>1 DEF BeginUpdate, Stored, disk, ghost
  <2>9. QED BY <2>1, <2>2, <2>7, <2>8, OtherSlot DEF BeginUpdate, OffIdle
<1>7. QED BY <1>1, <1>2, <1>3, <1>4, <1>5, <1>6

\* What a failed operation leaves to do.
LEMMA AfterFailureFacts ==
  ASSUME TInv, NEW p \in Procs, plan[p] # <<>>
  PROVE  /\ AfterFailure(p) \in Seq(Operation) /\ Ordered(AfterFailure(p))
         /\ running \in Slots
<1>1. plan[p] \in Seq(Operation) /\ Ordered(plan[p])
  BY DEF TInv, Planned
<1>2. running \in Slots
  BY EmptyPlans DEF TInv, OffIdle, Stored
<1>3. CASE Tolerated(Head(plan[p]))
  <2>1. PICK s, t : s = plan[p] /\ t = AfterFailure(p)
    OBVIOUS
  <2>2. t = SubSeq(s, GivenUp(Head(s)) + 1, Len(s))
    BY <1>3, <2>1 DEF AfterFailure
  <2>3. Dropped(s, GivenUp(Head(s)), SubSeq(s, GivenUp(Head(s)) + 1, Len(s)))
    BY <1>1, <1>3, <2>1, DroppedFailed
  <2>4. t \in Seq(Operation) /\ Ordered(t)
    BY <2>2, <2>3 DEF Dropped
  <2>5. QED BY <1>2, <2>1, <2>4
<1>4. CASE ~Tolerated(Head(plan[p])) /\ p = "update" /\ Head(plan[p]).op = "cmdline"
  <2>1. PICK st : st = State("idle", running, None, None, None)
    OBVIOUS
  <2>2. st \in BootState
    BY <1>2, <2>1, StateTypes DEF Statuses
  <2>3. WriteBoth(st) \in Seq(Operation) /\ Formed(WriteBoth(st))
    BY <2>2, SaveFacts
  <2>4. AfterFailure(p) = WriteBoth(st)
    BY <1>4, <2>1 DEF AfterFailure
  <2>5. QED BY <1>2, <2>3, <2>4, FormedOrdered
<1>5. CASE ~Tolerated(Head(plan[p])) /\ ~(p = "update" /\ Head(plan[p]).op = "cmdline")
  <2>1. AfterFailure(p) = <<>>
    BY <1>5 DEF AfterFailure
  <2>2. QED BY <1>2, <2>1, EmptyPlans
<1>6. QED BY <1>3, <1>4, <1>5

LEMMA TypeFault ==
  ASSUME TInv, PowerLoss \/ \E p \in Procs : OpFails(p) \/ UartMarkLost(p) \/ UartRebootFails(p)
  PROVE  TInv'
<1>1. CASE PowerLoss
  <2>1. GoDown
    BY <1>1 DEF PowerLoss
  <2>2. config' \in {"legacy", "fixed", "missing"}
    BY <1>1 DEF PowerLoss, TInv, Stored
  <2>3. PICK torn \in {{}} \cup {{f} : f \in Exposed \cap {"backup", "primary"}} :
          /\ tears + Cardinality(torn) <= MaxTears
          /\ tears' = tears + Cardinality(torn)
          /\ backup' = IF "backup" \in torn THEN Bad ELSE backup
          /\ primary' = IF "primary" \in torn THEN Bad ELSE primary
    BY <1>1 DEF PowerLoss
  <2>4. Cardinality(torn) \in Nat
    <3>1. CASE torn = {}
      BY <3>1, FS_EmptySet
    <3>2. CASE \E f : torn = {f}
      <4>1. PICK f : torn = {f}
        BY <3>2
      <4>2. Cardinality({f}) = 1
        BY FS_Singleton
      <4>3. QED BY <4>1, <4>2
    <3>3. QED BY <3>1, <3>2
  <2>5. tears' \in Nat /\ tears' <= MaxTears /\ faults' \in Nat
    BY <1>1, <2>3, <2>4 DEF PowerLoss, Fault, TInv, Stored
  <2>6. primary' \in BootState \cup {Bad} /\ backup' \in BootState \cup {Bad}
    BY <2>3 DEF TInv, Stored
  <2>7. Stored'
    BY <1>1, <2>1, <2>2, <2>5, <2>6 DEF PowerLoss, GoDown, TInv, Stored
  <2>8. QED BY <2>1, <2>7, DownTyped DEF TInv
<1>2. CASE \E p \in Procs : OpFails(p)
  <2>1. PICK p \in Procs : OpFails(p)
    BY <1>2
  <2>2. PICK t : t = AfterFailure(p)
    OBVIOUS
  <2>3. t \in Seq(Operation) /\ Ordered(t) /\ running \in Slots
    BY <2>1, <2>2, AfterFailureFacts DEF OpFails
  <2>4. plan' = [q \in Procs |->
          IF q = p THEN t
          ELSE IF q = "update" /\ p = "success" /\ ~Tolerated(Head(plan[p])) THEN <<>>
          ELSE plan[q]]
    BY <2>1, <2>2 DEF OpFails
  <2>5. Planned(plan')
    <3>1. \A q \in Procs : plan[q] \in Seq(Operation) /\ Ordered(plan[q])
      BY DEF TInv, Planned
    <3>2. \A q \in Procs : plan'[q] = t \/ plan'[q] = <<>> \/ plan'[q] = plan[q]
      BY <2>4
    <3>3. \A q \in Procs : plan'[q] \in Seq(Operation) /\ Ordered(plan'[q])
      BY <2>3, <3>1, <3>2, EmptyPlans
    <3>4. DOMAIN plan' = Procs /\ plan' = [q \in Procs |-> plan'[q]]
      BY <2>4
    <3>5. QED BY <3>3, <3>4 DEF Planned
  <2>6. Stored'
    BY <2>1 DEF OpFails, Fault, TInv, Stored, disk
  <2>7. QED BY <2>1, <2>3, <2>5, <2>6, OtherSlot DEF OpFails, TInv, OffIdle
<1>3. ASSUME NEW p \in Procs, UartMarkLost(p) PROVE TInv'
  <2>1. plan[p] # <<>> /\ running \in Slots
    BY <1>3, UpFacts DEF UartMarkLost, TInv
  <2>2. Planned(plan')
    BY <1>3, <2>1, DoneTyped DEF UartMarkLost, TInv
  <2>3. Stored'
    BY <1>3 DEF UartMarkLost, Fault, TInv, Stored
  <2>4. QED BY <1>3, <2>1, <2>2, <2>3, OtherSlot DEF UartMarkLost, TInv, OffIdle
<1>4. ASSUME NEW p \in Procs, UartRebootFails(p) PROVE TInv'
  <2>1. plan[p] # <<>> /\ running \in Slots
    BY <1>4, UpFacts DEF UartRebootFails, TInv
  <2>2. \A n \in {uartReboots, 0, uartReboots + 1} : n \in 0..MaxMigrationReboots
    <3>1. uartReboots \in 0..MaxMigrationReboots /\ uartReboots < MaxMigrationReboots
      BY <1>4 DEF UartRebootFails, MayReboot, TInv, Stored
    <3>2. QED BY <3>1, BoundAssumption
  <2>3. CASE GoDown /\ uartReboots' \in {uartReboots, 0} /\ config' \in {"fixed", "legacy"}
    <3>1. uartReboots' \in 0..MaxMigrationReboots /\ config' \in {"legacy", "fixed", "missing"}
      BY <2>2, <2>3
    <3>2. /\ UNCHANGED <<primary, backup, mirror, cmdline, image, uartPending, proven, uartOwed, unmarked, tears>>
          /\ faults' = faults + 1
      BY <1>4 DEF UartRebootFails, Fault
    <3>3. latch' \in BOOLEAN /\ unmarked' \in BOOLEAN
      BY <2>3, <3>2, Zenon DEF GoDown, TInv, Stored
    <3>4. running' = "off" /\ srv' = "off"
      BY <2>3 DEF GoDown
    <3>5. Stored'
      BY <3>1, <3>2, <3>3, <3>4 DEF TInv, Stored
    <3>6. QED BY <2>3, <3>5, DownTyped DEF TInv
  <2>4. CASE Done(p) /\ uartReboots' = uartReboots + 1 /\ UNCHANGED <<running, latch, srv, config>>
    <3>1. Planned(plan')
      BY <2>1, <2>4, DoneTyped DEF TInv
    <3>2. Stored'
      BY <1>4, <2>2, <2>4 DEF UartRebootFails, Fault, TInv, Stored
    <3>3. QED BY <2>1, <2>4, <3>1, <3>2, OtherSlot DEF TInv, OffIdle
  <2>5. QED BY <1>4, <2>3, <2>4 DEF UartRebootFails
<1>5. QED BY <1>1, <1>2, <1>3, <1>4

LEMMA TypeStep == TInv /\ [Next]_vars => TInv'
<1>1. ASSUME TInv, Next PROVE TInv'
  BY <1>1, TypeExec, TypeServer, TypeFault DEF Next, AutoUpdate, ManualUpdate
<1>2. ASSUME TInv, UNCHANGED vars PROVE TInv'
  BY <1>2 DEF vars, disk, system, ghost, TInv, Stored, OffIdle
<1>3. QED BY <1>1, <1>2

LEMMA TypeInit == Init => TInv
<1>1. SUFFICES ASSUME Init PROVE TInv
  OBVIOUS
<1>2. FactoryState \in BootState
  BY StateTypes DEF FactoryState, Statuses, Slots
<1>3. image \in [Slots -> [ver : Versions, whole : BOOLEAN]]
  <2>1. Factory \in Versions /\ image = [s \in Slots |-> [ver |-> Factory, whole |-> s = "a"]]
    BY <1>1, ReleaseAssumption DEF Init
  <2>2. \A s \in Slots : [ver |-> Factory, whole |-> s = "a"] \in [ver : Versions, whole : BOOLEAN]
    BY <2>1
  <2>3. QED BY <2>1, <2>2
<1>4. 0 \in 0..MaxMigrationReboots /\ 0 \in Nat /\ 0 <= MaxTears
  BY BoundAssumption
<1>5. Stored
  BY <1>1, <1>2, <1>3, <1>4 DEF Init, Stored, Slots
<1>6. QED BY <1>1, <1>5, EmptyPlans DEF Init, TInv, OffIdle

\* Every variable keeps its type, and every plan is a sequence of operations
\* that carry what they work on: no step is ever taken on a bootstate, slot or
\* candidate that is not there.  This needs no assumption on updates or tears.
THEOREM TypeCorrect == Spec => []TypeOK
<1>1. Init => TInv
  BY TypeInit
<1>2. TInv /\ [Next]_vars => TInv'
  BY TypeStep
<1>3. TInv => TypeOK
  BY TInvTypeOK
<1>4. QED BY <1>1, <1>2, <1>3, PTL DEF Spec

-----------------------------------------------------------------------------
(* The way back: the inductive invariant.                                   *)

Copies == {primary, backup} \ {Bad}

\* A bootstate with a candidate names the other slot to return to.
SoundState(st) == st.pending # None => st.lastGood = Inactive(st.pending)

\* No copy of the bootstate has another candidate than s.
OnlyOf(s) == \A st \in Copies : st.pending \in {None, s}

\* The trial of the candidate has begun: the next boot of it is a rollback.
Trying == {"booting", "rollback_required"}

\* The files.  A slot that is not proven is booted only as the candidate of
\* every copy; and the candidate that is booted has a proven slot beside it.
DiskInv ==
  /\ OneCopyReadable
  /\ \A st \in Copies : SoundState(st)
  /\ \A s \in proven : image[s].whole
  /\ image[cmdline].whole
  /\ running # "off" => image[running].whole
  /\ primary = Bad => tears = 1
  /\ cmdline \notin proven =>
       Inactive(cmdline) \in proven /\ \A st \in Copies : st.pending = cmdline
  /\ \A s \in Slots : s \in {cmdline, running} /\ Loaded.pending = s =>
       Inactive(s) \in proven /\ OnlyOf(s)

\* Which scripts and threads may run beside each other.
Lives ==
  /\ srv # "failing" => plan["fail"] = <<>>
  /\ srv = "off" => plan["success"] = <<>>
  /\ srv # "off" => plan["boot"] = <<>>
  /\ srv # "up" => plan["update"] = <<>>

\* While the primary copy is replaced the backup can be gone by.
TearInv ==
  \A p \in Procs : Up(p, "primary") =>
    /\ backup # Bad
    /\ backup.pending = cmdline => Inactive(cmdline) \in proven /\ backup.status \in Trying

\* A candidate whose primary copy is lost is not accepted any more.
LatchInv ==
  primary = Bad =>
    /\ backup.pending = cmdline => backup.status \in Trying
    /\ running # "off" /\ backup.pending = running => latch \/ Up("boot", "latch")

\* An operation of a plan with those before and after it.
Places(s) == {[it |-> s[i], before |-> Earlier(s, i), after |-> Later(s, i)] : i \in DOMAIN s}

\* start, and the rollback of start and fail.
ScriptOp(p, z) ==
  /\ z.it.op \notin {"erase", "flash"}
  /\ z.it.op \in Writing /\ z.it.st.pending = None =>
       Some(z.before, "cmdline") \/ (cmdline \in proven /\ (p = "fail" => cmdline # running))
  /\ z.it.op \in Writing /\ z.it.st.pending # None =>
       /\ z.it.st.pending = running /\ SoundState(z.it.st) /\ z.it.st.status \in Trying
       /\ primary = Bad => latch \/ Some(z.before, "latch")
       /\ Inactive(running) \in proven /\ OnlyOf(running)
  /\ z.it.op = "cmdline" =>
       z.it.slot = Inactive(running) /\ Inactive(running) \in proven /\ OnlyOf(running)

ScriptInv == \A p \in {"boot", "fail"} : \A z \in Places(plan[p]) : ScriptOp(p, z)

\* success.
SuccessOp(z) ==
  /\ z.it.op \in {"backup", "primary", "mirror", "uart_commit"}
  /\ z.it.op \in Writing =>
       /\ z.it.st.pending = None /\ Slots \subseteq proven
       /\ primary # Bad /\ (primary.pending = running \/ cmdline # running)
       /\ OnlyOf(running) /\ plan["update"] = <<>>
  /\ z.it.op = "primary" => \A x \in z.after : x.op \notin Writing

SuccessInv == \A z \in Places(plan["success"]) : SuccessOp(z)

\* An update: the new slot is whole, and both copies name it, before the
\* machine is pointed at it.
SwitchOp(z) ==
  LET new == Inactive(running) IN
  /\ \A x \in z.before : x.op \in Writing => x.st.pending = new
  /\ \A x \in z.after : x.op = "reboot"
  /\ Some(z.before, "erase") => Some(z.before, "flash")
  /\ Some(z.before, "flash") \/ image[new].whole
  /\ Some(z.before, "backup") \/ (backup # Bad /\ backup.pending = new)
  /\ Some(z.before, "primary") \/ (primary # Bad /\ primary.pending = new)

UpdateOp(z) ==
  LET new == Inactive(running) IN
  /\ running \in proven /\ Loaded.pending \in {None, new}
  /\ z.it.op \in {"erase", "flash", "backup", "primary", "cmdline", "reboot"}
  /\ z.it.op # "reboot" => cmdline = running
  /\ z.it.op \in Writing => z.it.st.pending \in {None, new} /\ SoundState(z.it.st)
  /\ z.it.op \in {"cmdline", "erase"} => z.it.slot = new
  /\ z.it.op = "flash" => z.it.st.slot = new
  /\ z.it.op = "erase" => z.before = {}
  /\ z.it.op = "cmdline" => SwitchOp(z)

UpdateInv == \A z \in Places(plan["update"]) : UpdateOp(z)

WInv == DiskInv /\ TearInv /\ LatchInv /\ ScriptInv /\ SuccessInv /\ UpdateInv

\* What the invariant is for.
LEMMA WInvWayBack == TInv /\ WInv => WayBack /\ CmdlineBootable
<1>1. SUFFICES ASSUME TInv, WInv PROVE WayBack /\ CmdlineBootable
  OBVIOUS
<1>2. Loaded \in Copies
  BY <1>1 DEF WInv, DiskInv, OneCopyReadable, Loaded, Copies
<1>3. cmdline \in Slots /\ None \notin Slots
  BY <1>1, OtherSlot DEF TInv, Stored
<1>4. ASSUME cmdline \notin proven PROVE Loaded.pending = cmdline /\ Loaded.lastGood \in proven
  BY <1>1, <1>2, <1>3, <1>4 DEF WInv, DiskInv, SoundState
<1>5. QED BY <1>1, <1>4 DEF WayBack, CmdlineBootable, WInv, DiskInv

-----------------------------------------------------------------------------
(* How plans move on.                                                       *)

\* t is what is left of s, and what has gone is in the set gone.
Shifted(s, t, gone) ==
  \A z \in Places(t) : \E y \in Places(s) :
    /\ y.it = z.it /\ z.before \subseteq y.before
    /\ y.before \subseteq z.before \cup gone /\ z.after \subseteq y.after

LEMMA ShiftedDropped ==
  ASSUME NEW s, NEW t, NEW k, Dropped(s, k, t)
  PROVE  Shifted(s, t, Earlier(s, k + 1))
<1>1. SUFFICES ASSUME NEW z \in Places(t)
               PROVE  \E y \in Places(s) :
                        /\ y.it = z.it /\ z.before \subseteq y.before
                        /\ y.before \subseteq z.before \cup Earlier(s, k + 1) /\ z.after \subseteq y.after
  BY DEF Shifted
<1>2. PICK i \in DOMAIN t : z = [it |-> t[i], before |-> Earlier(t, i), after |-> Later(t, i)]
  BY DEF Places
<1>3. /\ i + k \in DOMAIN s /\ t[i] = s[i + k]
      /\ Earlier(t, i) \subseteq Earlier(s, i + k)
      /\ Earlier(s, i + k) \subseteq Earlier(t, i) \cup Earlier(s, k + 1)
      /\ Later(t, i) \subseteq Later(s, i + k)
  BY DEF Dropped
<1>4. PICK y : y = [it |-> s[i + k], before |-> Earlier(s, i + k), after |-> Later(s, i + k)]
  OBVIOUS
<1>5. y \in Places(s)
  BY <1>3, <1>4 DEF Places
<1>6. QED BY <1>2, <1>3, <1>4, <1>5

LEMMA ShiftedSame ==
  /\ \A s, G : Shifted(s, s, G)
  /\ \A s, G : Shifted(s, <<>>, G)
  /\ Places(<<>>) = {}
<1>1. Places(<<>>) = {}
  BY DEF Places
<1>2. QED BY <1>1 DEF Shifted

\* What comes before an operation has its own place.
LEMMA BeforePlaced ==
  ASSUME NEW s, NEW z \in Places(s), NEW e \in z.before
  PROVE  \E x \in Places(s) : x.it = e
<1>1. PICK i \in DOMAIN s : z = [it |-> s[i], before |-> Earlier(s, i), after |-> Later(s, i)]
  BY DEF Places
<1>2. PICK j \in DOMAIN s : e = s[j]
  BY <1>1 DEF Earlier
<1>3. PICK x : x = [it |-> s[j], before |-> Earlier(s, j), after |-> Later(s, j)]
  OBVIOUS
<1>4. x \in Places(s) /\ x.it = e
  BY <1>2, <1>3 DEF Places
<1>5. QED BY <1>4

\* h is the first operation of s, and t the others.
Headed(s, t, h) ==
  \E y \in Places(s) :
    /\ y.it = h /\ y.before = {}
    /\ \A z \in Places(t) :
         /\ z.it \in y.after
         /\ \E x \in Places(s) :
              /\ x.it = z.it /\ z.before \subseteq x.before /\ h \in x.before
              /\ x.before \subseteq z.before \cup {h} /\ z.after \subseteq x.after

LEMMA HeadPlace ==
  ASSUME NEW s \in Seq(Operation), s # <<>>, Ordered(s), NEW t, t = Tail(s), NEW h, h = Head(s)
  PROVE  Headed(s, t, h)
<1>2. /\ Dropped(s, 1, t) /\ 1 \in DOMAIN s /\ s[1] = h /\ h \in Operation
      /\ Earlier(s, 1) = {} /\ Earlier(s, 2) = {h}
      /\ \A i \in DOMAIN t : h \in Earlier(s, i + 1) /\ t[i] \in Later(s, 1)
  <2>1. /\ Dropped(s, 1, Tail(s)) /\ 1 \in DOMAIN s /\ s[1] = Head(s) /\ Head(s) \in Operation
        /\ Earlier(s, 1) = {} /\ Earlier(s, 2) = {Head(s)}
        /\ \A i \in DOMAIN Tail(s) : Head(s) \in Earlier(s, i + 1) /\ Tail(s)[i] \in Later(s, 1)
    BY DroppedTail
  <2>2. QED BY <2>1
<1>3. PICK y : y = [it |-> s[1], before |-> Earlier(s, 1), after |-> Later(s, 1)]
  OBVIOUS
<1>4. y \in Places(s) /\ y.it = h /\ y.before = {} /\ y.after = Later(s, 1)
  BY <1>2, <1>3 DEF Places
<1>5. ASSUME NEW z \in Places(t)
      PROVE  /\ z.it \in y.after
             /\ \E x \in Places(s) :
                  /\ x.it = z.it /\ z.before \subseteq x.before /\ h \in x.before
                  /\ x.before \subseteq z.before \cup {h} /\ z.after \subseteq x.after
  <2>1. PICK i \in DOMAIN t : z = [it |-> t[i], before |-> Earlier(t, i), after |-> Later(t, i)]
    BY DEF Places
  <2>2. /\ i + 1 \in DOMAIN s /\ t[i] = s[i + 1]
        /\ Earlier(t, i) \subseteq Earlier(s, i + 1)
        /\ Earlier(s, i + 1) \subseteq Earlier(t, i) \cup Earlier(s, 1 + 1)
        /\ Later(t, i) \subseteq Later(s, i + 1)
    BY <1>2 DEF Dropped
  <2>3. h \in Earlier(s, i + 1) /\ t[i] \in Later(s, 1) /\ Earlier(s, 1 + 1) = {h}
    BY <1>2
  <2>4. PICK x : x = [it |-> s[i + 1], before |-> Earlier(s, i + 1), after |-> Later(s, i + 1)]
    OBVIOUS
  <2>5. x \in Places(s)
    BY <2>2, <2>4 DEF Places
  <2>6. QED BY <1>4, <2>1, <2>2, <2>3, <2>4, <2>5
<1>6. QED BY <1>4, <1>5 DEF Headed

\* The primary copy is the next to be written only after the backup.
LEMMA AfterBackup ==
  ASSUME NEW s \in Seq(Operation), NEW t \in Seq(Operation), NEW k \in Nat, k > 0, Ordered(s),
         Dropped(s, k, t), t # <<>>, Head(t).op = "primary"
  PROVE  \E x \in Earlier(s, k + 1) : x.op = "backup"
<1>1. PICK n \in Nat : DOMAIN t = 1..n /\ n # 0
  BY EmptySeq, LenProperties
<1>2. 1 \in DOMAIN t /\ Head(t) = t[1]
  BY <1>1
<1>3. 1 + k \in DOMAIN s /\ s[1 + k].op = "primary"
  BY <1>2 DEF Dropped
<1>4. PICK j \in Nat : j = 1 + k
  OBVIOUS
<1>5. s[j - 1].op = "backup" /\ j - 1 = k /\ j > 1
  <2>1. j > 1 /\ j - 1 = k
    BY <1>4
  <2>2. QED BY <1>3, <1>4, <2>1 DEF Ordered
<1>6. k \in DOMAIN s
  <2>1. PICK m \in Nat : DOMAIN s = 1..m
    BY LenProperties
  <2>2. QED BY <1>3, <2>1
<1>7. s[k] \in Earlier(s, k + 1)
  <2>1. k < k + 1
    OBVIOUS
  <2>2. QED BY <1>6, <2>1 DEF Earlier
<1>8. QED BY <1>5, <1>7

\* A process does its next operation h.
LEMMA ExecFacts ==
  ASSUME TInv, NEW p \in Procs, NEW w, Up(p, w), Done(p), NEW h, h = Head(plan[p])
  PROVE  /\ h \in Operation /\ h.op = w /\ running \in Slots
         /\ \A q \in Procs : q # p => plan'[q] = plan[q]
         /\ \A q \in Procs : Shifted(plan[q], plan'[q], {h})
         /\ \A q \in Procs : plan[q] = <<>> => plan'[q] = <<>>
         /\ \A q \in Procs : Up(q, "primary")' => Up(q, "primary") \/ w = "backup"
         /\ Headed(plan[p], plan'[p], h)
<1>1. plan[p] # <<>> /\ h \in Operation /\ h.op = w /\ running \in Slots
  BY UpFacts
<1>2. PICK s, t : s = plan[p] /\ t = plan'[p]
  OBVIOUS
<1>3. s \in Seq(Operation) /\ Ordered(s) /\ s # <<>> /\ h = Head(s) /\ plan \in [Procs -> Seq(Operation)]
  BY <1>1, <1>2 DEF TInv, Planned
<1>4. t = Tail(s) /\ \A q \in Procs : q # p => plan'[q] = plan[q]
  BY <1>2, <1>3 DEF Done
<1>5. /\ Dropped(s, 1, Tail(s)) /\ 1 \in DOMAIN s /\ s[1] = Head(s) /\ Head(s) \in Operation
      /\ Earlier(s, 1) = {} /\ Earlier(s, 2) = {Head(s)}
      /\ \A i \in DOMAIN Tail(s) : Head(s) \in Earlier(s, i + 1) /\ Tail(s)[i] \in Later(s, 1)
  BY <1>3, DroppedTail
<1>6. Dropped(s, 1, t) /\ Earlier(s, 1 + 1) = {h}
  BY <1>3, <1>4, <1>5
<1>7. Shifted(s, t, {h})
  <2>1. Shifted(s, t, Earlier(s, 1 + 1))
    BY <1>6, ShiftedDropped
  <2>2. QED BY <1>6, <2>1
<1>8. \A q \in Procs : Shifted(plan[q], plan'[q], {h})
  BY <1>2, <1>4, <1>7, ShiftedSame
<1>9. \A q \in Procs : plan[q] = <<>> => plan'[q] = <<>>
  BY <1>1, <1>4
<1>10. ASSUME NEW q \in Procs, Up(q, "primary")'
       PROVE  Up(q, "primary") \/ w = "backup"
  <2>1. CASE q # p
    BY <1>4, <1>10, <2>1 DEF Up
  <2>2. CASE q = p
    <3>1. t # <<>> /\ Head(t).op = "primary"
      BY <1>2, <1>10, <2>2 DEF Up
    <3>2. t \in Seq(Operation)
      BY <1>6 DEF Dropped
    <3>3. \E x \in Earlier(s, 1 + 1) : x.op = "backup"
      <4>1. 1 > 0 /\ 1 \in Nat
        OBVIOUS
      <4>2. QED BY <1>3, <1>6, <3>1, <3>2, <4>1, AfterBackup
    <3>4. QED BY <1>1, <1>6, <2>2, <3>3
  <2>3. QED BY <2>1, <2>2
<1>11. Headed(s, t, h)
  BY <1>3, <1>4, HeadPlace
<1>12. QED BY <1>1, <1>2, <1>4, <1>8, <1>9, <1>10, <1>11

\* Any operation but the writing of a backup copy.
LEMMA MoveFacts ==
  ASSUME TInv, NEW p \in Procs, NEW w, w # "backup", Up(p, w), Done(p), NEW h, h = Head(plan[p])
  PROVE  /\ h \in Operation /\ h.op = w /\ running \in Slots
         /\ \A q \in Procs : q # p => plan'[q] = plan[q]
         /\ \A q \in Procs : Shifted(plan[q], plan'[q], {h})
         /\ \A q \in Procs : plan[q] = <<>> => plan'[q] = <<>>
         /\ \A q \in Procs : Up(q, "primary")' => Up(q, "primary")
         /\ Headed(plan[p], plan'[p], h)
<1>1. /\ h \in Operation /\ h.op = w /\ running \in Slots
      /\ \A q \in Procs : q # p => plan'[q] = plan[q]
      /\ \A q \in Procs : Shifted(plan[q], plan'[q], {h})
      /\ \A q \in Procs : plan[q] = <<>> => plan'[q] = <<>>
      /\ Headed(plan[p], plan'[p], h)
  BY ExecFacts
<1>2. ASSUME NEW q \in Procs, Up(q, "primary")' PROVE Up(q, "primary") \/ w = "backup"
  BY <1>2, ExecFacts
<1>3. QED BY <1>1, <1>2

\* The operations that bear on the way back.
Key == {"latch", "backup", "primary", "cmdline", "erase", "flash"}

\* Some other operations have gone, or whole plans.
LEMMA Trimmed ==
  ASSUME WInv, NEW G, \A x \in G : x.op \notin Key,
         UNCHANGED <<primary, backup, cmdline, image, running, latch, proven, tears>>,
         \A q \in Procs : Shifted(plan[q], plan'[q], G),
         \A q \in Procs : Up(q, "primary")' => Up(q, "primary"),
         Up("boot", "latch") => Up("boot", "latch")',
         plan["update"] = <<>> => plan'["update"] = <<>>
  PROVE  WInv'
<1>1. DiskInv'
  BY DEF WInv, DiskInv, OneCopyReadable, Copies, SoundState, OnlyOf, Loaded
<1>2. TearInv'
  BY DEF WInv, TearInv
<1>3. LatchInv'
  BY DEF WInv, LatchInv
<1>4. ASSUME NEW p \in {"boot", "fail"}, NEW z \in Places(plan'[p]) PROVE ScriptOp(p, z)'
  <2>1. PICK y \in Places(plan[p]) :
          /\ y.it = z.it /\ z.before \subseteq y.before
          /\ y.before \subseteq z.before \cup G /\ z.after \subseteq y.after
    BY DEF Shifted, Procs
  <2>2. ScriptOp(p, y)
    BY DEF WInv, ScriptInv
  <2>3. /\ Some(y.before, "cmdline") => Some(z.before, "cmdline")
        /\ Some(y.before, "latch") => Some(z.before, "latch")
    BY <2>1 DEF Some, Key
  <2>4. OnlyOf(running)' <=> OnlyOf(running)
    BY DEF OnlyOf, Copies
  <2>5. QED BY <2>1, <2>2, <2>3, <2>4 DEF ScriptOp, SoundState
<1>5. ASSUME NEW z \in Places(plan'["success"]) PROVE SuccessOp(z)'
  <2>1. PICK y \in Places(plan["success"]) :
          /\ y.it = z.it /\ z.before \subseteq y.before
          /\ y.before \subseteq z.before \cup G /\ z.after \subseteq y.after
    BY DEF Shifted, Procs
  <2>2. SuccessOp(y)
    BY DEF WInv, SuccessInv
  <2>3. OnlyOf(running)' <=> OnlyOf(running)
    BY DEF OnlyOf, Copies
  <2>4. QED BY <2>1, <2>2, <2>3 DEF SuccessOp
<1>6. ASSUME NEW z \in Places(plan'["update"]) PROVE UpdateOp(z)'
  <2>1. PICK y \in Places(plan["update"]) :
          /\ y.it = z.it /\ z.before \subseteq y.before
          /\ y.before \subseteq z.before \cup G /\ z.after \subseteq y.after
    BY DEF Shifted, Procs
  <2>2. UpdateOp(y)
    BY DEF WInv, UpdateInv
  <2>3. /\ \A c \in {"erase", "flash", "backup", "primary"} : Some(y.before, c) <=> Some(z.before, c)
    BY <2>1 DEF Some, Key
  <2>4. Loaded' = Loaded
    BY DEF Loaded
  <2>5. SwitchOp(y) => SwitchOp(z)'
    BY <2>1, <2>3 DEF SwitchOp
  <2>6. QED BY <2>1, <2>2, <2>4, <2>5 DEF UpdateOp, SoundState
<1>7. QED BY <1>1, <1>2, <1>3, <1>4, <1>5, <1>6 DEF WInv, ScriptInv, SuccessInv, UpdateInv

-----------------------------------------------------------------------------
(* Writing a copy of the bootstate.                                         *)

\* What makes it safe for process p to write st.
Fitting(p, st) ==
  /\ SoundState(st)
  /\ cmdline \notin proven => st.pending = cmdline
  /\ \A s \in Slots : s \in {cmdline, running} /\ st.pending = s =>
       /\ s = running /\ Inactive(s) \in proven /\ OnlyOf(s)
       /\ st.status \in Trying /\ (primary = Bad => latch)
  /\ \A s \in Slots : s \in {cmdline, running} /\ Loaded.pending = s => st.pending \in {None, s}
  /\ p # "update" => st.pending \in {None, running}
  /\ p = "fail" => st.pending = running \/ cmdline # running
  /\ p = "success" => plan["update"] = <<>>
  /\ p = "update" => /\ running \in proven /\ cmdline = running
                     /\ st.pending \in {None, Inactive(running)}

\* What is loaded is one of the copies.
LEMMA LoadedCopy ==
  ASSUME TInv, WInv
  PROVE  /\ Loaded \in Copies /\ Loaded \in BootState
         /\ cmdline \in Slots /\ None \notin Slots /\ "off" \notin Slots
         /\ \A s \in Slots : Inactive(s) \in Slots /\ Inactive(s) # s /\ Inactive(Inactive(s)) = s
         /\ \A s, t \in Slots : s # t => t = Inactive(s)
<1>1. Loaded \in Copies
  BY DEF WInv, DiskInv, OneCopyReadable, Loaded, Copies
<1>2. Loaded \in BootState
  BY LoadedType DEF TInv
<1>3. QED BY <1>1, <1>2, OtherSlot DEF TInv, Stored

LEMMA HeadWrite ==
  ASSUME TInv, WInv, NEW p \in Procs, NEW w \in Writing, Up(p, w), Done(p), NEW h, h = Head(plan[p])
  PROVE  Fitting(p, h.st) /\ h.st \in BootState /\ h.st # Bad
<1>1. h \in Operation /\ h.op = w /\ running \in Slots /\ Headed(plan[p], plan'[p], h)
  BY ExecFacts
<1>2. PICK y \in Places(plan[p]) : y.it = h /\ y.before = {}
  BY <1>1 DEF Headed
<1>3. PICK st : st = h.st
  OBVIOUS
<1>4. st \in BootState /\ st # Bad /\ st.pending \in Slots \cup {None}
  BY <1>1, <1>3, Carried, StateFields
<1>5. /\ Loaded \in Copies /\ cmdline \in Slots /\ None \notin Slots /\ "off" \notin Slots
      /\ \A s \in Slots : Inactive(s) \in Slots /\ Inactive(s) # s /\ Inactive(Inactive(s)) = s
      /\ \A s, t \in Slots : s # t => t = Inactive(s)
  BY LoadedCopy
<1>6. ~Some({}, "cmdline") /\ ~Some({}, "latch")
  BY DEF Some
<1>7. cmdline \notin proven => Inactive(cmdline) \in proven
  BY DEF WInv, DiskInv
<1>8. CASE p \in {"boot", "fail"}
  <2>1. ScriptOp(p, y) /\ p # "success" /\ p # "update"
    BY <1>2, <1>8 DEF WInv, ScriptInv
  <2>2. CASE st.pending = None
    <3>1. cmdline \in proven /\ (p = "fail" => cmdline # running)
      BY <1>1, <1>2, <1>3, <1>6, <2>1, <2>2 DEF ScriptOp
    <3>2. SoundState(st)
      BY <2>2 DEF SoundState
    <3>3. QED BY <1>3, <1>4, <1>5, <2>1, <2>2, <3>1, <3>2 DEF Fitting
  <2>3. CASE st.pending # None
    <3>1. /\ st.pending = running /\ SoundState(st) /\ st.status \in Trying
          /\ primary = Bad => latch
          /\ Inactive(running) \in proven /\ OnlyOf(running)
      BY <1>1, <1>2, <1>3, <1>6, <2>1, <2>3 DEF ScriptOp
    <3>2. cmdline \notin proven => cmdline = running
      BY <1>1, <1>5, <3>1
    <3>3. Loaded.pending \in {None, running}
      BY <1>5, <3>1 DEF OnlyOf
    <3>4. QED BY <1>1, <1>3, <1>4, <1>5, <2>1, <3>1, <3>2, <3>3 DEF Fitting
  <2>4. QED BY <2>2, <2>3
<1>9. CASE p = "success"
  <2>1. SuccessOp(y)
    BY <1>2, <1>9 DEF WInv, SuccessInv
  <2>2. st.pending = None /\ Slots \subseteq proven /\ plan["update"] = <<>>
    BY <1>1, <1>2, <1>3, <2>1 DEF SuccessOp
  <2>3. SoundState(st)
    BY <2>2 DEF SoundState
  <2>4. QED BY <1>3, <1>4, <1>5, <1>9, <2>2, <2>3 DEF Fitting
<1>10. CASE p = "update"
  <2>1. UpdateOp(y)
    BY <1>2, <1>10 DEF WInv, UpdateInv
  <2>2. /\ running \in proven /\ Loaded.pending \in {None, Inactive(running)} /\ cmdline = running
        /\ st.pending \in {None, Inactive(running)} /\ SoundState(st)
    BY <1>1, <1>2, <1>3, <2>1 DEF UpdateOp, Writing
  <2>3. QED BY <1>1, <1>3, <1>4, <1>5, <1>10, <2>2 DEF Fitting
<1>11. QED BY <1>8, <1>9, <1>10 DEF Procs

\* The plans after a copy is written, when it is known to fit.
LEMMA WrittenScript ==
  ASSUME TInv, Lives, WInv, NEW p \in Procs, NEW h, h.op \in Writing, plan[p] # <<>>, Fitting(p, h.st),
         \A q \in Procs : Shifted(plan[q], plan'[q], {h}),
         \A q \in Procs : plan[q] = <<>> => plan'[q] = <<>>,
         UNCHANGED <<cmdline, running, proven, latch>>,
         Copies' \subseteq Copies \cup {h.st}, primary' = Bad => primary = Bad
  PROVE  ScriptInv'
<1>1. SUFFICES ASSUME NEW q \in {"boot", "fail"}, NEW z \in Places(plan'[q]) PROVE ScriptOp(q, z)'
  BY DEF ScriptInv
<1>2. PICK y \in Places(plan[q]) :
        /\ y.it = z.it /\ z.before \subseteq y.before
        /\ y.before \subseteq z.before \cup {h} /\ z.after \subseteq y.after
  BY DEF Shifted, Procs
<1>3. ScriptOp(q, y)
  BY DEF WInv, ScriptInv
<1>4. plan[q] # <<>>
  BY ShiftedSame
<1>5. p # "update"
  BY <1>4 DEF Lives
<1>6. h.st.pending \in {None, running}
  BY <1>5 DEF Fitting
<1>7. OnlyOf(running) => OnlyOf(running)'
  BY <1>6 DEF OnlyOf
<1>8. /\ Some(y.before, "cmdline") => Some(z.before, "cmdline")
      /\ Some(y.before, "latch") => Some(z.before, "latch")
  BY <1>2 DEF Some, Writing
<1>9. QED BY <1>2, <1>3, <1>7, <1>8 DEF ScriptOp, SoundState

LEMMA WroteBackup ==
  ASSUME TInv, TInv', Lives, WInv, NEW p \in Procs, WriteBackup(p)
  PROVE  WInv'
<1>1. PICK h : h = Head(plan[p])
  OBVIOUS
<1>2. /\ Up(p, "backup") /\ Done(p) /\ backup' = h.st
      /\ UNCHANGED <<primary, cmdline, image, running, latch, srv, proven, tears>>
  BY <1>1 DEF WriteBackup, ghost
<1>3. /\ h \in Operation /\ h.op = "backup" /\ running \in Slots
      /\ \A q \in Procs : q # p => plan'[q] = plan[q]
      /\ \A q \in Procs : Shifted(plan[q], plan'[q], {h})
      /\ \A q \in Procs : plan[q] = <<>> => plan'[q] = <<>>
      /\ Headed(plan[p], plan'[p], h)
  BY <1>1, <1>2, ExecFacts
<1>4. PICK st : st = h.st
  OBVIOUS
<1>5. Fitting(p, st) /\ st \in BootState /\ st # Bad /\ backup' = st
  BY <1>1, <1>2, <1>4, HeadWrite DEF Writing
<1>6. /\ Loaded \in Copies /\ cmdline \in Slots /\ None \notin Slots
      /\ \A s \in Slots : Inactive(s) \in Slots /\ Inactive(s) # s
  BY LoadedCopy
<1>7. Copies' \subseteq Copies \cup {st} /\ (primary = Bad => Copies' = {st} /\ Loaded' = st)
      /\ (primary # Bad => Loaded' = Loaded)
  BY <1>2, <1>5 DEF Copies, Loaded
<1>8. DiskInv'
  <2>1. OneCopyReadable' /\ \A c \in Copies' : SoundState(c)'
    BY <1>5, <1>7 DEF OneCopyReadable, WInv, DiskInv, SoundState, Fitting
  <2>2. /\ \A s \in proven' : image'[s].whole
        /\ image'[cmdline'].whole /\ (running' # "off" => image'[running'].whole)
        /\ primary' = Bad => tears' = 1
    BY <1>2 DEF WInv, DiskInv
  <2>3. cmdline' \notin proven' => Inactive(cmdline') \in proven' /\ \A c \in Copies' : c.pending = cmdline'
    BY <1>2, <1>5, <1>7 DEF WInv, DiskInv, Fitting
  <2>4. ASSUME NEW s \in Slots, s \in {cmdline, running}, Loaded'.pending = s
        PROVE  Inactive(s) \in proven /\ \A c \in Copies' : c.pending \in {None, s}
    <3>1. CASE primary = Bad
      BY <1>5, <1>7, <2>4, <3>1 DEF Fitting
    <3>2. CASE primary # Bad
      <4>1. Inactive(s) \in proven /\ OnlyOf(s)
        BY <1>7, <2>4, <3>2 DEF WInv, DiskInv
      <4>2. st.pending \in {None, s}
        BY <1>5, <1>7, <2>4, <3>2 DEF Fitting
      <4>3. QED BY <1>7, <4>1, <4>2 DEF OnlyOf
    <3>3. QED BY <3>1, <3>2
  <2>5. QED BY <1>2, <2>1, <2>2, <2>3, <2>4 DEF DiskInv, OnlyOf
<1>9. TearInv'
  BY <1>2, <1>5, <1>6 DEF TearInv, Fitting
<1>10. LatchInv'
  <2>1. SUFFICES ASSUME primary = Bad
                 PROVE  /\ st.pending = cmdline => st.status \in Trying
                        /\ st.pending = running => latch
    BY <1>2, <1>5 DEF LatchInv
  <2>2. QED BY <1>3, <1>5, <1>6, <2>1 DEF Fitting
<1>11. ScriptInv'
  <2>1. plan[p] # <<>> /\ h.op \in Writing /\ (primary' = Bad => primary = Bad)
    BY <1>2, <1>3 DEF Up, Writing
  <2>2. QED BY <1>2, <1>3, <1>4, <1>5, <1>7, <2>1, WrittenScript
<1>12. SuccessInv'
  <2>1. SUFFICES ASSUME NEW z \in Places(plan'["success"]) PROVE SuccessOp(z)'
    BY DEF SuccessInv
  <2>2. PICK y \in Places(plan["success"]) :
          /\ y.it = z.it /\ z.before \subseteq y.before
          /\ y.before \subseteq z.before \cup {h} /\ z.after \subseteq y.after
    BY <1>3 DEF Shifted, Procs
  <2>3. SuccessOp(y)
    BY DEF WInv, SuccessInv
  <2>4. ASSUME z.it.op \in Writing PROVE OnlyOf(running)' /\ plan'["update"] = <<>>
    <3>1. OnlyOf(running) /\ plan["update"] = <<>>
      BY <2>2, <2>3, <2>4 DEF SuccessOp
    <3>2. p # "update" /\ plan'["update"] = <<>>
      BY <1>2, <1>3, <3>1 DEF Up, Procs
    <3>3. QED BY <1>2, <1>5, <1>7, <3>1, <3>2 DEF OnlyOf, Fitting
  <2>5. QED BY <1>2, <2>2, <2>3, <2>4 DEF SuccessOp
<1>13. UpdateInv'
  <2>1. SUFFICES ASSUME NEW z \in Places(plan'["update"]) PROVE UpdateOp(z)'
    BY DEF UpdateInv
  <2>2. plan["update"] # <<>>
    BY <1>3, ShiftedSame DEF Procs
  <2>3. p = "update"
    <3>1. p # "success"
      BY <1>5, <2>2 DEF Fitting
    <3>2. plan["boot"] = <<>> /\ plan["fail"] = <<>>
      BY <2>2 DEF Lives
    <3>3. QED BY <1>2, <3>1, <3>2 DEF Up, Procs
  <2>4. PICK y \in Places(plan["update"]) :
          /\ y.it = z.it /\ z.before \subseteq y.before /\ h \in y.before
          /\ y.before \subseteq z.before \cup {h} /\ z.after \subseteq y.after
    BY <1>3, <2>3 DEF Headed
  <2>5. UpdateOp(y)
    BY DEF WInv, UpdateInv
  <2>6. \A c \in {"erase", "flash", "primary"} : Some(y.before, c) <=> Some(z.before, c)
    BY <1>3, <2>4 DEF Some
  <2>7. Loaded'.pending \in {None, Inactive(running)}
    BY <1>5, <1>7, <2>3, <2>5 DEF UpdateOp, Fitting
  <2>8. ASSUME SwitchOp(y) PROVE SwitchOp(z)'
    <3>1. backup' # Bad /\ backup'.pending = Inactive(running)
      BY <1>3, <1>4, <1>5, <2>4, <2>8 DEF SwitchOp, Writing
    <3>2. QED BY <1>2, <2>4, <2>6, <2>8, <3>1 DEF SwitchOp
  <2>9. QED BY <1>2, <2>4, <2>5, <2>7, <2>8 DEF UpdateOp, SoundState
<1>14. QED BY <1>8, <1>9, <1>10, <1>11, <1>12, <1>13 DEF WInv

LEMMA WrotePrimary ==
  ASSUME TInv, TInv', Lives, WInv, NEW p \in Procs, WritePrimary(p)
  PROVE  WInv'
<1>1. PICK h : h = Head(plan[p])
  OBVIOUS
<1>2. /\ Up(p, "primary") /\ Done(p) /\ primary' = h.st
      /\ UNCHANGED <<backup, cmdline, image, running, latch, srv, proven, tears>>
  BY <1>1 DEF WritePrimary, ghost
<1>3. /\ h \in Operation /\ h.op = "primary" /\ running \in Slots
      /\ \A q \in Procs : q # p => plan'[q] = plan[q]
      /\ \A q \in Procs : Shifted(plan[q], plan'[q], {h})
      /\ \A q \in Procs : plan[q] = <<>> => plan'[q] = <<>>
      /\ \A q \in Procs : Up(q, "primary")' => Up(q, "primary")
      /\ Headed(plan[p], plan'[p], h)
  BY <1>1, <1>2, MoveFacts
<1>4. PICK st : st = h.st
  OBVIOUS
<1>5. Fitting(p, st) /\ st \in BootState /\ st # Bad /\ primary' = st
  BY <1>1, <1>2, <1>4, HeadWrite DEF Writing
<1>6. /\ Loaded \in Copies /\ cmdline \in Slots /\ None \notin Slots
      /\ \A s \in Slots : Inactive(s) \in Slots /\ Inactive(s) # s
  BY LoadedCopy
<1>7. Copies' \subseteq Copies \cup {st} /\ Loaded' = st
  BY <1>2, <1>5 DEF Copies, Loaded
<1>8. DiskInv'
  <2>1. OneCopyReadable' /\ \A c \in Copies' : SoundState(c)'
    BY <1>5, <1>7 DEF OneCopyReadable, WInv, DiskInv, SoundState, Fitting
  <2>2. /\ \A s \in proven' : image'[s].whole
        /\ image'[cmdline'].whole /\ (running' # "off" => image'[running'].whole)
        /\ primary' = Bad => tears' = 1
    BY <1>2, <1>5 DEF WInv, DiskInv
  <2>3. cmdline' \notin proven' => Inactive(cmdline') \in proven' /\ \A c \in Copies' : c.pending = cmdline'
    BY <1>2, <1>5, <1>7 DEF WInv, DiskInv, Fitting
  <2>4. ASSUME NEW s \in Slots, s \in {cmdline, running}, Loaded'.pending = s
        PROVE  Inactive(s) \in proven /\ \A c \in Copies' : c.pending \in {None, s}
    BY <1>5, <1>7, <2>4 DEF Fitting, OnlyOf
  <2>5. QED BY <1>2, <2>1, <2>2, <2>3, <2>4 DEF DiskInv, OnlyOf
<1>9. TearInv'
  BY <1>2, <1>3 DEF WInv, TearInv
<1>10. LatchInv'
  BY <1>5 DEF LatchInv
<1>11. ScriptInv'
  <2>1. plan[p] # <<>> /\ h.op \in Writing /\ (primary' = Bad => primary = Bad)
    BY <1>2, <1>3, <1>5 DEF Up, Writing
  <2>2. QED BY <1>2, <1>3, <1>4, <1>5, <1>7, <2>1, WrittenScript
<1>12. SuccessInv'
  <2>1. SUFFICES ASSUME NEW z \in Places(plan'["success"]) PROVE SuccessOp(z)'
    BY DEF SuccessInv
  <2>2. PICK y \in Places(plan["success"]) :
          /\ y.it = z.it /\ z.before \subseteq y.before
          /\ y.before \subseteq z.before \cup {h} /\ z.after \subseteq y.after
    BY <1>3 DEF Shifted, Procs
  <2>3. SuccessOp(y)
    BY DEF WInv, SuccessInv
  <2>4. ASSUME z.it.op \in Writing
        PROVE  /\ OnlyOf(running)' /\ plan'["update"] = <<>>
               /\ st.pending = running \/ cmdline # running
    <3>1. OnlyOf(running) /\ plan["update"] = <<>>
      BY <2>2, <2>3, <2>4 DEF SuccessOp
    <3>2. p # "update" /\ plan'["update"] = <<>>
      BY <1>2, <1>3, <3>1 DEF Up, Procs
    <3>3. p # "success"
      <4>1. SUFFICES ASSUME p = "success" PROVE FALSE
        OBVIOUS
      <4>2. PICK x \in Places(plan["success"]) : x.it = h /\ z.it \in x.after
        BY <1>3, <4>1 DEF Headed
      <4>3. SuccessOp(x)
        BY DEF WInv, SuccessInv
      <4>4. QED BY <1>3, <2>4, <4>2, <4>3 DEF SuccessOp
    <3>4. p # "boot"
      <4>1. plan["success"] # <<>>
        BY <2>2, ShiftedSame
      <4>2. QED BY <1>2, <4>1 DEF Lives, Up
    <3>5. p = "fail"
      BY <3>2, <3>3, <3>4 DEF Procs
    <3>6. QED BY <1>2, <1>5, <1>7, <3>1, <3>2, <3>5 DEF OnlyOf, Fitting
  <2>5. QED BY <1>2, <1>5, <2>2, <2>3, <2>4 DEF SuccessOp
<1>13. UpdateInv'
  <2>1. SUFFICES ASSUME NEW z \in Places(plan'["update"]) PROVE UpdateOp(z)'
    BY DEF UpdateInv
  <2>2. plan["update"] # <<>>
    BY <1>3, ShiftedSame DEF Procs
  <2>3. p = "update"
    <3>1. p # "success"
      BY <1>5, <2>2 DEF Fitting
    <3>2. plan["boot"] = <<>> /\ plan["fail"] = <<>>
      BY <2>2 DEF Lives
    <3>3. QED BY <1>2, <3>1, <3>2 DEF Up, Procs
  <2>4. PICK y \in Places(plan["update"]) :
          /\ y.it = z.it /\ z.before \subseteq y.before /\ h \in y.before
          /\ y.before \subseteq z.before \cup {h} /\ z.after \subseteq y.after
    BY <1>3, <2>3 DEF Headed
  <2>5. UpdateOp(y)
    BY DEF WInv, UpdateInv
  <2>6. \A c \in {"erase", "flash", "backup"} : Some(y.before, c) <=> Some(z.before, c)
    BY <1>3, <2>4 DEF Some
  <2>7. Loaded'.pending \in {None, Inactive(running)}
    BY <1>5, <1>7, <2>3, <2>5 DEF UpdateOp, Fitting
  <2>8. ASSUME SwitchOp(y) PROVE SwitchOp(z)'
    <3>1. primary' # Bad /\ primary'.pending = Inactive(running)
      BY <1>3, <1>4, <1>5, <2>4, <2>8 DEF SwitchOp, Writing
    <3>2. QED BY <1>2, <2>4, <2>6, <2>8, <3>1 DEF SwitchOp
  <2>9. QED BY <1>2, <2>4, <2>5, <2>7, <2>8 DEF UpdateOp, SoundState
<1>14. QED BY <1>8, <1>9, <1>10, <1>11, <1>12, <1>13 DEF WInv

-----------------------------------------------------------------------------
(* The other operations that bear on the way back.                          *)

LEMMA Latched ==
  ASSUME TInv, TInv', Lives, WInv, NEW p \in Procs, Latch(p)
  PROVE  WInv'
<1>1. PICK h : h = Head(plan[p])
  OBVIOUS
<1>2. /\ Up(p, "latch") /\ Done(p) /\ latch' = TRUE
      /\ UNCHANGED <<primary, backup, cmdline, image, running, srv, proven, tears>>
  BY DEF Latch, disk, ghost
<1>3. /\ h \in Operation /\ h.op = "latch" /\ running \in Slots
      /\ \A q \in Procs : q # p => plan'[q] = plan[q]
      /\ \A q \in Procs : Shifted(plan[q], plan'[q], {h})
      /\ \A q \in Procs : plan[q] = <<>> => plan'[q] = <<>>
      /\ \A q \in Procs : Up(q, "primary")' => Up(q, "primary")
      /\ Headed(plan[p], plan'[p], h)
  BY <1>1, <1>2, MoveFacts
<1>4. DiskInv'
  BY <1>2 DEF WInv, DiskInv, OneCopyReadable, Copies, SoundState, OnlyOf, Loaded
<1>5. TearInv'
  BY <1>2, <1>3 DEF WInv, TearInv
<1>6. LatchInv'
  BY <1>2 DEF WInv, LatchInv
<1>7. OnlyOf(running)' <=> OnlyOf(running)
  BY <1>2 DEF OnlyOf, Copies
<1>8. ASSUME NEW q \in {"boot", "fail"}, NEW z \in Places(plan'[q]) PROVE ScriptOp(q, z)'
  <2>1. PICK y \in Places(plan[q]) :
          /\ y.it = z.it /\ z.before \subseteq y.before
          /\ y.before \subseteq z.before \cup {h} /\ z.after \subseteq y.after
    BY <1>3 DEF Shifted, Procs
  <2>2. ScriptOp(q, y)
    BY DEF WInv, ScriptInv
  <2>3. Some(y.before, "cmdline") => Some(z.before, "cmdline")
    BY <1>3, <2>1 DEF Some
  <2>4. QED BY <1>2, <1>7, <2>1, <2>2, <2>3 DEF ScriptOp, SoundState
<1>9. ASSUME NEW z \in Places(plan'["success"]) PROVE SuccessOp(z)'
  <2>1. PICK y \in Places(plan["success"]) :
          /\ y.it = z.it /\ z.before \subseteq y.before
          /\ y.before \subseteq z.before \cup {h} /\ z.after \subseteq y.after
    BY <1>3 DEF Shifted, Procs
  <2>2. SuccessOp(y)
    BY DEF WInv, SuccessInv
  <2>3. plan["update"] = <<>> => plan'["update"] = <<>>
    BY <1>3 DEF Procs
  <2>4. QED BY <1>2, <1>7, <2>1, <2>2, <2>3 DEF SuccessOp
<1>10. ASSUME NEW z \in Places(plan'["update"]) PROVE UpdateOp(z)'
  <2>1. PICK y \in Places(plan["update"]) :
          /\ y.it = z.it /\ z.before \subseteq y.before
          /\ y.before \subseteq z.before \cup {h} /\ z.after \subseteq y.after
    BY <1>3 DEF Shifted, Procs
  <2>2. UpdateOp(y)
    BY DEF WInv, UpdateInv
  <2>3. \A c \in {"erase", "flash", "backup", "primary"} : Some(y.before, c) <=> Some(z.before, c)
    BY <1>3, <2>1 DEF Some
  <2>4. Loaded' = Loaded
    BY <1>2 DEF Loaded
  <2>5. SwitchOp(y) => SwitchOp(z)'
    BY <1>2, <2>1, <2>3 DEF SwitchOp
  <2>6. QED BY <1>2, <2>1, <2>2, <2>4, <2>5 DEF UpdateOp, SoundState
<1>11. QED BY <1>4, <1>5, <1>6, <1>8, <1>9, <1>10 DEF WInv, ScriptInv, SuccessInv, UpdateInv

\* A rollback points the machine back at the proven slot.
LEMMA PointedBack ==
  ASSUME TInv, TInv', Lives, WInv, NEW p \in {"boot", "fail"}, RewriteCmdline(p)
  PROVE  WInv'
<1>0. p \in Procs
  BY DEF Procs
<1>1. PICK h : h = Head(plan[p])
  OBVIOUS
<1>2. /\ Up(p, "cmdline") /\ Done(p) /\ cmdline' = h.slot
      /\ UNCHANGED <<primary, backup, image, running, latch, srv, proven, tears>>
  BY <1>1 DEF RewriteCmdline, ghost
<1>3. /\ h \in Operation /\ h.op = "cmdline" /\ running \in Slots
      /\ \A q \in Procs : q # p => plan'[q] = plan[q]
      /\ \A q \in Procs : Shifted(plan[q], plan'[q], {h})
      /\ \A q \in Procs : plan[q] = <<>> => plan'[q] = <<>>
      /\ \A q \in Procs : Up(q, "primary")' => Up(q, "primary")
      /\ Headed(plan[p], plan'[p], h)
  BY <1>0, <1>1, <1>2, MoveFacts
<1>4. PICK y \in Places(plan[p]) : y.it = h /\ y.before = {}
  BY <1>3 DEF Headed
<1>5. cmdline' = Inactive(running) /\ Inactive(running) \in proven /\ OnlyOf(running)
  <2>1. ScriptOp(p, y)
    BY <1>4 DEF WInv, ScriptInv
  <2>2. QED BY <1>2, <1>3, <1>4, <2>1 DEF ScriptOp
<1>6. /\ Loaded \in Copies /\ cmdline \in Slots /\ None \notin Slots
      /\ \A s \in Slots : Inactive(s) \in Slots /\ Inactive(s) # s
  BY LoadedCopy
<1>7. Loaded' = Loaded /\ Copies' = Copies /\ (OnlyOf(running)' <=> OnlyOf(running))
  BY <1>2 DEF Loaded, Copies, OnlyOf
<1>8. Loaded.pending \in {None, running} /\ \A c \in Copies : c.pending # Inactive(running)
  BY <1>3, <1>5, <1>6 DEF OnlyOf
<1>9. plan["update"] = <<>> /\ plan'["update"] = <<>>
  <2>1. plan[p] # <<>>
    BY <1>2 DEF Up
  <2>2. plan["update"] = <<>>
    BY <2>1 DEF Lives
  <2>3. QED BY <1>3, <2>2 DEF Procs
<1>10. DiskInv'
  <2>1. OneCopyReadable' /\ \A c \in Copies' : SoundState(c)'
    BY <1>2, <1>7 DEF OneCopyReadable, WInv, DiskInv, SoundState
  <2>2. /\ \A s \in proven' : image'[s].whole
        /\ image'[cmdline'].whole /\ (running' # "off" => image'[running'].whole)
        /\ primary' = Bad => tears' = 1
    BY <1>2, <1>5 DEF WInv, DiskInv
  <2>3. cmdline' \in proven'
    BY <1>2, <1>5
  <2>4. ASSUME NEW s \in Slots, s \in {cmdline', running}, Loaded.pending = s
        PROVE  Inactive(s) \in proven /\ \A c \in Copies : c.pending \in {None, s}
    <3>1. s = running
      BY <1>5, <1>6, <1>8, <2>4
    <3>2. QED BY <1>5, <3>1 DEF OnlyOf
  <2>5. QED BY <1>2, <1>7, <2>1, <2>2, <2>3, <2>4 DEF DiskInv, OnlyOf
<1>11. TearInv'
  <2>1. SUFFICES ASSUME NEW q \in Procs, Up(q, "primary")'
                 PROVE  backup # Bad /\ backup.pending # Inactive(running)
    BY <1>2, <1>5 DEF TearInv
  <2>2. backup # Bad
    BY <1>3, <2>1 DEF WInv, TearInv
  <2>3. QED BY <1>8, <2>2 DEF Copies
<1>12. LatchInv'
  <2>1. SUFFICES ASSUME primary = Bad
                 PROVE  /\ backup.pending # Inactive(running)
                        /\ backup.pending = running => latch
    BY <1>2, <1>5 DEF LatchInv
  <2>2. backup \in Copies
    BY <2>1 DEF WInv, DiskInv, OneCopyReadable, Copies
  <2>3. ~Up("boot", "latch")
    <3>1. CASE p = "boot"
      BY <1>2, <3>1 DEF Up
    <3>2. CASE p = "fail"
      BY <1>2, <3>2 DEF Up, Lives
    <3>3. QED BY <3>1, <3>2
  <2>4. running # "off"
    BY <1>3, OtherSlot
  <2>5. QED BY <1>8, <2>1, <2>2, <2>3, <2>4 DEF WInv, LatchInv
<1>13. ASSUME NEW q \in {"boot", "fail"}, NEW z \in Places(plan'[q]) PROVE ScriptOp(q, z)'
  <2>1. PICK x \in Places(plan[q]) :
          /\ x.it = z.it /\ z.before \subseteq x.before
          /\ x.before \subseteq z.before \cup {h} /\ z.after \subseteq x.after
    BY <1>3 DEF Shifted, Procs
  <2>2. ScriptOp(q, x)
    BY DEF WInv, ScriptInv
  <2>3. Some(x.before, "latch") => Some(z.before, "latch")
    BY <1>3, <2>1 DEF Some
  <2>4. cmdline' \in proven' /\ cmdline' # running'
    BY <1>2, <1>3, <1>5, <1>6
  <2>5. QED BY <1>2, <1>7, <2>1, <2>2, <2>3, <2>4 DEF ScriptOp, SoundState
<1>14. ASSUME NEW z \in Places(plan'["success"]) PROVE SuccessOp(z)'
  <2>1. PICK x \in Places(plan["success"]) :
          /\ x.it = z.it /\ z.before \subseteq x.before
          /\ x.before \subseteq z.before \cup {h} /\ z.after \subseteq x.after
    BY <1>3 DEF Shifted, Procs
  <2>2. SuccessOp(x)
    BY DEF WInv, SuccessInv
  <2>3. cmdline' # running'
    BY <1>2, <1>3, <1>5, <1>6
  <2>4. QED BY <1>2, <1>7, <1>9, <2>1, <2>2, <2>3 DEF SuccessOp
<1>15. UpdateInv'
  BY <1>9, ShiftedSame DEF UpdateInv
<1>16. QED BY <1>10, <1>11, <1>12, <1>13, <1>14, <1>15 DEF WInv, ScriptInv, SuccessInv

\* An update does one of its own operations: nobody else has one that bears
\* on the way back.
LEMMA UpdateAlone ==
  ASSUME TInv, Lives, WInv, plan["update"] # <<>>
  PROVE  /\ plan["boot"] = <<>> /\ plan["fail"] = <<>>
         /\ \A z \in Places(plan["success"]) : z.it.op \notin Writing
         /\ ~Up("boot", "latch") /\ ~Up("success", "primary")
<1>1. plan["boot"] = <<>> /\ plan["fail"] = <<>>
  BY DEF Lives
<1>2. \A z \in Places(plan["success"]) : z.it.op \notin Writing
  BY DEF WInv, SuccessInv, SuccessOp
<1>3. ~Up("success", "primary")
  <2>1. SUFFICES ASSUME Up("success", "primary") PROVE FALSE
    OBVIOUS
  <2>2. PICK s : s = plan["success"]
    OBVIOUS
  <2>3. s \in Seq(Operation) /\ Ordered(s) /\ s # <<>> /\ Head(s).op = "primary"
    BY <2>1, <2>2 DEF TInv, Planned, Up, Procs
  <2>4. PICK t, h : t = Tail(s) /\ h = Head(s)
    OBVIOUS
  <2>5. Headed(s, t, h)
    BY <2>3, <2>4, HeadPlace
  <2>6. QED BY <1>2, <2>2, <2>3, <2>4, <2>5 DEF Headed, Writing
<1>4. QED BY <1>1, <1>2, <1>3 DEF Up

\* Whatever an update does, the scripts' part of the invariant stays.
LEMMA UpdateApart ==
  ASSUME TInv, Lives, WInv, plan["update"] # <<>>, \A q \in Procs : q # "update" => plan'[q] = plan[q]
  PROVE  ScriptInv' /\ SuccessInv'
<1>1. /\ plan["boot"] = <<>> /\ plan["fail"] = <<>>
      /\ \A z \in Places(plan["success"]) : z.it.op \notin Writing
  BY UpdateAlone
<1>2. plan'["boot"] = <<>> /\ plan'["fail"] = <<>> /\ plan'["success"] = plan["success"]
  BY <1>1 DEF Procs
<1>3. ScriptInv'
  BY <1>2, ShiftedSame DEF ScriptInv
<1>4. ASSUME NEW z \in Places(plan["success"]) PROVE SuccessOp(z)'
  <2>1. SuccessOp(z) /\ z.it.op \notin Writing
    BY <1>1 DEF WInv, SuccessInv
  <2>2. QED BY <2>1 DEF SuccessOp, Writing
<1>5. QED BY <1>2, <1>3, <1>4 DEF SuccessInv

\* An update points the machine at the new slot.
LEMMA Switched ==
  ASSUME TInv, TInv', Lives, WInv, RewriteCmdline("update")
  PROVE  WInv'
<1>0. "update" \in Procs
  BY DEF Procs
<1>1. PICK h : h = Head(plan["update"])
  OBVIOUS
<1>2. /\ Up("update", "cmdline") /\ Done("update") /\ cmdline' = h.slot
      /\ UNCHANGED <<primary, backup, image, running, latch, srv, proven, tears>>
  BY <1>1 DEF RewriteCmdline, ghost
<1>3. /\ h \in Operation /\ h.op = "cmdline" /\ running \in Slots
      /\ \A q \in Procs : q # "update" => plan'[q] = plan[q]
      /\ \A q \in Procs : Shifted(plan[q], plan'[q], {h})
      /\ \A q \in Procs : plan[q] = <<>> => plan'[q] = <<>>
      /\ \A q \in Procs : Up(q, "primary")' => Up(q, "primary")
      /\ Headed(plan["update"], plan'["update"], h)
  BY <1>0, <1>1, <1>2, MoveFacts
<1>4. PICK y \in Places(plan["update"]) :
        /\ y.it = h /\ y.before = {}
        /\ \A z \in Places(plan'["update"]) :
             /\ z.it \in y.after
             /\ \E x \in Places(plan["update"]) :
                  /\ x.it = z.it /\ z.before \subseteq x.before /\ h \in x.before
                  /\ x.before \subseteq z.before \cup {h} /\ z.after \subseteq x.after
  BY <1>3 DEF Headed
<1>5. UpdateOp(y)
  BY DEF WInv, UpdateInv
<1>6. PICK new : new = Inactive(running)
  OBVIOUS
<1>7. /\ cmdline' = new /\ running \in proven /\ cmdline = running
      /\ image[new].whole /\ backup # Bad /\ backup.pending = new
      /\ primary # Bad /\ primary.pending = new
      /\ \A x \in y.after : x.op = "reboot"
  <2>1. ~Some({}, "flash") /\ ~Some({}, "backup") /\ ~Some({}, "primary")
    BY DEF Some
  <2>2. SwitchOp(y) /\ cmdline' = new /\ running \in proven /\ cmdline = running
    BY <1>2, <1>3, <1>4, <1>5, <1>6 DEF UpdateOp
  <2>3. QED BY <1>4, <1>6, <2>1, <2>2 DEF SwitchOp
<1>8. /\ None \notin Slots /\ new \in Slots /\ new # running /\ Inactive(new) = running
  BY <1>3, <1>6, OtherSlot
<1>9. Loaded' = primary /\ Copies' = {primary, backup} /\ Copies' = Copies
  BY <1>2, <1>7 DEF Loaded, Copies
<1>10. plan["update"] # <<>>
  BY <1>2 DEF Up
<1>11. ScriptInv' /\ SuccessInv'
  BY <1>3, <1>10, UpdateApart
<1>12. DiskInv'
  <2>1. OneCopyReadable' /\ \A c \in Copies' : SoundState(c)'
    BY <1>2, <1>7, <1>9 DEF OneCopyReadable, WInv, DiskInv, SoundState
  <2>2. /\ \A s \in proven' : image'[s].whole
        /\ image'[cmdline'].whole /\ (running' # "off" => image'[running'].whole)
        /\ primary' = Bad => tears' = 1
    BY <1>2, <1>7 DEF WInv, DiskInv
  <2>3. Inactive(cmdline') \in proven' /\ \A c \in Copies' : c.pending = cmdline'
    BY <1>2, <1>7, <1>8, <1>9
  <2>4. ASSUME NEW s \in Slots, Loaded'.pending = s
        PROVE  Inactive(s) \in proven' /\ \A c \in Copies' : c.pending \in {None, s}
    BY <1>2, <1>7, <1>8, <1>9, <2>4
  <2>5. QED BY <2>1, <2>2, <2>3, <2>4 DEF DiskInv, OnlyOf
<1>13. TearInv'
  <2>1. ASSUME NEW q \in Procs, Up(q, "primary")' PROVE FALSE
    <3>1. Up(q, "primary")
      BY <1>3, <2>1
    <3>2. q # "update"
      BY <1>2, <3>1 DEF Up
    <3>3. QED BY <1>10, <3>1, <3>2, UpdateAlone DEF Up, Procs
  <2>2. QED BY <2>1 DEF TearInv
<1>14. LatchInv'
  BY <1>2, <1>7 DEF LatchInv
<1>15. ASSUME NEW z \in Places(plan'["update"]) PROVE UpdateOp(z)'
  <2>1. z.it.op = "reboot"
    BY <1>4, <1>7
  <2>2. running' \in proven' /\ Loaded'.pending \in {None, Inactive(running')}
    BY <1>2, <1>6, <1>7, <1>9
  <2>3. QED BY <2>1, <2>2 DEF UpdateOp, Writing
<1>16. QED BY <1>11, <1>12, <1>13, <1>14, <1>15 DEF WInv, UpdateInv

\* An update erases or writes the new slot, the one the machine neither runs
\* nor boots.
LEMMA Erased ==
  ASSUME TInv, TInv', Lives, WInv, Erase("update") \/ Flash("update")
  PROVE  WInv'
<1>0. "update" \in Procs
  BY DEF Procs
<1>1. PICK h, w : h = Head(plan["update"]) /\ w = h.op
  OBVIOUS
<1>2. /\ w \in {"erase", "flash"} /\ Up("update", w) /\ Done("update")
      /\ UNCHANGED <<primary, backup, cmdline, running, latch, srv, tears>>
  BY <1>1 DEF Erase, Flash, ghost, Up
<1>3. /\ h \in Operation /\ h.op = w /\ running \in Slots
      /\ \A q \in Procs : q # "update" => plan'[q] = plan[q]
      /\ \A q \in Procs : Shifted(plan[q], plan'[q], {h})
      /\ \A q \in Procs : plan[q] = <<>> => plan'[q] = <<>>
      /\ \A q \in Procs : Up(q, "primary")' => Up(q, "primary")
      /\ Headed(plan["update"], plan'["update"], h)
  <2>1. w # "backup"
    BY <1>2
  <2>2. QED BY <1>0, <1>1, <1>2, <2>1, MoveFacts
<1>4. PICK y \in Places(plan["update"]) :
        /\ y.it = h /\ y.before = {}
        /\ \A z \in Places(plan'["update"]) :
             /\ z.it \in y.after
             /\ \E x \in Places(plan["update"]) :
                  /\ x.it = z.it /\ z.before \subseteq x.before /\ h \in x.before
                  /\ x.before \subseteq z.before \cup {h} /\ z.after \subseteq x.after
  BY <1>3 DEF Headed
<1>5. UpdateOp(y)
  BY DEF WInv, UpdateInv
<1>6. PICK new : new = Inactive(running)
  OBVIOUS
<1>7. /\ running \in proven /\ cmdline = running /\ Loaded.pending \in {None, new}
      /\ w = "erase" => h.slot = new
      /\ w = "flash" => h.st.slot = new
  BY <1>2, <1>3, <1>4, <1>5, <1>6 DEF UpdateOp
<1>8. /\ None \notin Slots /\ new \in Slots /\ new # running /\ Inactive(new) = running
  BY <1>3, <1>6, OtherSlot
<1>9. /\ image'[running] = image[running]
      /\ w = "erase" => proven' = proven \ {new} /\ image'[new].whole = FALSE
      /\ w = "flash" => proven' = proven /\ image'[new].whole = TRUE
  <2>0. image \in [Slots -> [ver : Versions, whole : BOOLEAN]]
    BY DEF TInv, Stored
  <2>1. CASE w = "erase"
    <3>1. image' = [image EXCEPT ![new].whole = FALSE] /\ proven' = proven \ {new}
      BY <1>1, <1>7, <2>1 DEF Erase, Flash, Up
    <3>2. image'[running] = image[running] /\ image'[new] = [image[new] EXCEPT !.whole = FALSE]
      BY <1>3, <1>8, <2>0, <3>1
    <3>3. image'[new].whole = FALSE
      BY <1>8, <2>0, <3>2
    <3>4. QED BY <2>1, <3>1, <3>2, <3>3
  <2>2. CASE w = "flash"
    <3>1. image' = [image EXCEPT ![new] = [ver |-> h.st.ver, whole |-> TRUE]] /\ proven' = proven
      BY <1>1, <1>7, <2>2 DEF Erase, Flash, Up, ghost
    <3>2. image'[running] = image[running] /\ image'[new] = [ver |-> h.st.ver, whole |-> TRUE]
      BY <1>3, <1>8, <2>0, <3>1
    <3>3. QED BY <2>2, <3>1, <3>2
  <2>3. QED BY <1>2, <2>1, <2>2
<1>10. plan["update"] # <<>>
  BY <1>2 DEF Up
<1>11. ScriptInv' /\ SuccessInv'
  BY <1>3, <1>10, UpdateApart
<1>12. Loaded' = Loaded /\ Copies' = Copies
  BY <1>2 DEF Loaded, Copies
<1>13. running \in proven' /\ proven' \subseteq Slots /\ \A s \in Slots : s = running \/ s = new
  <2>1. proven \subseteq Slots
    BY DEF TInv, Stored
  <2>2. QED BY <1>2, <1>3, <1>6, <1>7, <1>8, <1>9, <2>1, OtherSlot
<1>14. DiskInv'
  <2>1. OneCopyReadable' /\ \A c \in Copies' : SoundState(c)'
    BY <1>2, <1>12 DEF OneCopyReadable, WInv, DiskInv, SoundState
  <2>2. image'[running].whole
    BY <1>7, <1>9 DEF WInv, DiskInv
  <2>3. \A s \in proven' : image'[s].whole
    <3>1. new \in proven' => image'[new].whole
      BY <1>2, <1>9
    <3>2. QED BY <1>13, <2>2, <3>1
  <2>4. primary' = Bad => tears' = 1
    BY <1>2 DEF WInv, DiskInv
  <2>5. \A s \in Slots : ~(s \in {cmdline', running'} /\ Loaded'.pending = s)
    BY <1>2, <1>3, <1>7, <1>8, <1>12
  <2>6. QED BY <1>2, <1>7, <1>13, <2>1, <2>2, <2>3, <2>4, <2>5 DEF DiskInv
<1>15. TearInv'
  <2>1. ASSUME NEW q \in Procs, Up(q, "primary")' PROVE FALSE
    <3>1. Up(q, "primary")
      BY <1>3, <2>1
    <3>2. q # "update"
      BY <1>2, <3>1 DEF Up
    <3>3. QED BY <1>10, <3>1, <3>2, UpdateAlone DEF Up, Procs
  <2>2. QED BY <2>1 DEF TearInv
<1>16. LatchInv'
  <2>1. ~Up("boot", "latch")
    BY <1>10, UpdateAlone
  <2>2. QED BY <1>2, <2>1 DEF WInv, LatchInv
<1>17. ASSUME NEW z \in Places(plan'["update"]) PROVE UpdateOp(z)'
  <2>1. PICK x \in Places(plan["update"]) :
          /\ x.it = z.it /\ z.before \subseteq x.before /\ h \in x.before
          /\ x.before \subseteq z.before \cup {h} /\ z.after \subseteq x.after
    BY <1>4
  <2>2. UpdateOp(x)
    BY DEF WInv, UpdateInv
  <2>3. \A c \in {"backup", "primary"} : Some(x.before, c) <=> Some(z.before, c)
    BY <1>2, <1>3, <2>1 DEF Some
  <2>4. ASSUME SwitchOp(x) PROVE SwitchOp(z)'
    <3>1. /\ Some(z.before, "erase") => Some(z.before, "flash")
          /\ Some(z.before, "flash") \/ image'[new].whole
      <4>1. CASE w = "erase"
        <5>1. Some(x.before, "erase")
          BY <1>3, <2>1, <4>1 DEF Some
        <5>2. Some(x.before, "flash")
          BY <2>4, <5>1 DEF SwitchOp
        <5>3. Some(z.before, "flash")
          BY <1>3, <2>1, <4>1, <5>2 DEF Some
        <5>4. QED BY <5>3
      <4>2. CASE w = "flash"
        <5>1. ~Some(z.before, "erase")
          <6>1. SUFFICES ASSUME NEW e \in z.before, e.op = "erase" PROVE FALSE
            BY DEF Some
          <6>2. PICK u \in Places(plan'["update"]) : u.it = e
            BY BeforePlaced
          <6>3. PICK v \in Places(plan["update"]) : v.it = e /\ h \in v.before
            BY <1>4, <6>2
          <6>4. UpdateOp(v)
            BY DEF WInv, UpdateInv
          <6>5. QED BY <6>1, <6>3, <6>4 DEF UpdateOp
        <5>2. QED BY <1>9, <4>2, <5>1
      <4>3. QED BY <1>2, <4>1, <4>2
    <3>2. QED BY <1>2, <1>6, <2>1, <2>3, <2>4, <3>1 DEF SwitchOp
  <2>5. QED BY <1>2, <1>7, <1>12, <1>13, <2>1, <2>2, <2>4 DEF UpdateOp, SoundState
<1>18. QED BY <1>11, <1>14, <1>15, <1>16, <1>17 DEF WInv, UpdateInv

\* An operation that does not bear on the way back.
LEMMA OtherOp ==
  ASSUME TInv, WInv, NEW p \in Procs, NEW w, w \notin Key, Up(p, w), Done(p),
         UNCHANGED <<primary, backup, cmdline, image, running, latch, proven, tears>>
  PROVE  WInv'
<1>1. PICK h : h = Head(plan[p])
  OBVIOUS
<1>2. w # "backup" /\ w # "latch"
  BY DEF Key
<1>3. /\ h \in Operation /\ h.op = w /\ running \in Slots
      /\ \A q \in Procs : q # p => plan'[q] = plan[q]
      /\ \A q \in Procs : Shifted(plan[q], plan'[q], {h})
      /\ \A q \in Procs : plan[q] = <<>> => plan'[q] = <<>>
      /\ \A q \in Procs : Up(q, "primary")' => Up(q, "primary")
      /\ Headed(plan[p], plan'[p], h)
  BY <1>1, <1>2, MoveFacts
<1>4. ASSUME Up("boot", "latch") PROVE Up("boot", "latch")'
  <2>1. p # "boot"
    BY <1>2, <1>4 DEF Up
  <2>2. plan'["boot"] = plan["boot"]
    BY <1>3, <2>1 DEF Procs
  <2>3. QED BY <1>4, <2>2 DEF Up
<1>5. plan["update"] = <<>> => plan'["update"] = <<>>
  BY <1>3 DEF Procs
<1>6. PICK G : G = {h}
  OBVIOUS
<1>7. (\A x \in G : x.op \notin Key) /\ \A q \in Procs : Shifted(plan[q], plan'[q], G)
  BY <1>3, <1>6
<1>8. QED BY <1>3, <1>4, <1>5, <1>7, Trimmed

\* The machine goes down: what the files must then say.
LEMMA WentDown ==
  ASSUME TInv, WInv, GoDown, UNCHANGED <<cmdline, image, proven>>,
         Copies' \subseteq Copies, OneCopyReadable', primary' = Bad => tears' = 1,
         /\ primary' = Bad /\ backup'.pending = cmdline => backup'.status \in Trying
         /\ Loaded'.pending = cmdline => Inactive(cmdline) \in proven /\ \A c \in Copies' : c.pending \in {None, cmdline}
  PROVE  WInv'
<1>1. running' = "off" /\ plan' = NoPlans /\ "off" \notin Slots
  BY OtherSlot DEF GoDown
<1>2. \A p \in Procs : plan'[p] = <<>>
  BY <1>1, EmptyPlans
<1>3. DiskInv'
  <2>1. \A c \in Copies' : SoundState(c)'
    BY DEF WInv, DiskInv, SoundState
  <2>2. (\A s \in proven' : image'[s].whole) /\ image'[cmdline'].whole
    BY DEF WInv, DiskInv
  <2>3. cmdline' \notin proven' => Inactive(cmdline') \in proven' /\ \A c \in Copies' : c.pending = cmdline'
    BY DEF WInv, DiskInv
  <2>4. \A s \in Slots : s \in {cmdline', running'} /\ Loaded'.pending = s =>
          Inactive(s) \in proven' /\ \A c \in Copies' : c.pending \in {None, s}
    BY <1>1
  <2>5. QED BY <1>1, <2>1, <2>2, <2>3, <2>4 DEF DiskInv, OnlyOf
<1>4. TearInv'
  BY <1>2 DEF TearInv, Up
<1>5. LatchInv'
  BY <1>1 DEF LatchInv
<1>6. ScriptInv' /\ SuccessInv' /\ UpdateInv'
  BY <1>2, ShiftedSame DEF ScriptInv, SuccessInv, UpdateInv, Procs
<1>7. QED BY <1>3, <1>4, <1>5, <1>6 DEF WInv

\* A reboot.
LEMMA Rebooted ==
  ASSUME TInv, WInv, GoDown, UNCHANGED <<primary, backup, cmdline, image, proven, tears>>
  PROVE  WInv'
<1>1. Copies' = Copies /\ Loaded' = Loaded /\ cmdline \in Slots
  BY DEF Copies, Loaded, TInv, Stored
<1>2. OneCopyReadable' /\ (primary' = Bad => tears' = 1)
  BY DEF WInv, DiskInv, OneCopyReadable
<1>3. /\ primary' = Bad /\ backup'.pending = cmdline => backup'.status \in Trying
      /\ Loaded'.pending = cmdline => Inactive(cmdline) \in proven /\ \A c \in Copies' : c.pending \in {None, cmdline}
  BY <1>1 DEF WInv, DiskInv, LatchInv, OnlyOf
<1>4. QED BY <1>1, <1>2, <1>3, WentDown

\* Each operation of each process.
LEMMA WayExec ==
  ASSUME TInv, TInv', Lives, WInv, NEW p \in Procs, Exec(p)
  PROVE  WInv'
<1>1. CASE WriteBackup(p)
  BY <1>1, WroteBackup
<1>2. CASE WritePrimary(p)
  BY <1>2, WrotePrimary
<1>3. CASE Latch(p)
  BY <1>3, Latched
<1>4. CASE Mirror(p) \/ UartCommit(p) \/ UartMark(p)
  BY <1>4, OtherOp DEF Mirror, UartCommit, UartMark, ghost, Key
<1>5. CASE Prepare(p)
  BY <1>5, OtherOp DEF Prepare, disk, ghost, Key
<1>6. CASE UartRestore(p) \/ UartConfig(p)
  BY <1>6, OtherOp DEF UartRestore, UartConfig, Key
<1>7. CASE UartReboot(p)
  <2>1. CASE MayReboot
    BY <1>7, <2>1, Rebooted DEF UartReboot, ghost
  <2>2. CASE ~MayReboot
    BY <1>7, <2>2, OtherOp DEF UartReboot, ghost, Key
  <2>3. QED BY <2>1, <2>2
<1>8. CASE Reboot(p)
  BY <1>8, Rebooted DEF Reboot, disk, ghost
<1>9. CASE RewriteCmdline(p) \/ Erase(p) \/ Flash(p)
  <2>1. PICK w \in {"cmdline", "erase", "flash"} : Up(p, w) /\ Done(p)
    BY <1>9 DEF RewriteCmdline, Erase, Flash
  <2>2. PICK h : h = Head(plan[p])
    OBVIOUS
  <2>3. h.op = w /\ Headed(plan[p], plan'[p], h)
    BY <2>1, <2>2, ExecFacts
  <2>4. PICK y \in Places(plan[p]) : y.it = h
    BY <2>3 DEF Headed
  <2>5. CASE p = "success"
    <3>1. SuccessOp(y)
      BY <2>4, <2>5 DEF WInv, SuccessInv
    <3>2. QED BY <2>3, <2>4, <3>1 DEF SuccessOp
  <2>6. CASE p \in {"boot", "fail"}
    <3>1. ScriptOp(p, y)
      BY <2>4, <2>6 DEF WInv, ScriptInv
    <3>2. w = "cmdline"
      BY <2>3, <2>4, <3>1 DEF ScriptOp
    <3>3. RewriteCmdline(p)
      BY <1>9, <2>1, <3>2 DEF Erase, Flash, Up
    <3>4. QED BY <2>6, <3>3, PointedBack
  <2>7. CASE p = "update"
    BY <1>9, <2>7, Switched, Erased
  <2>8. QED BY <2>5, <2>6, <2>7 DEF Procs
<1>10. QED BY <1>1, <1>2, <1>3, <1>4, <1>5, <1>6, <1>7, <1>8, <1>9 DEF Exec

-----------------------------------------------------------------------------
(* Faults.                                                                  *)

\* An update that cannot switch takes its marker back.
LEMMA TakenBack ==
  ASSUME TInv, Lives, WInv, OpFails("update"), Head(plan["update"]).op = "cmdline"
  PROVE  WInv'
<1>1. PICK s, t, h, new : s = plan["update"] /\ t = Tail(s) /\ h = Head(s) /\ new = Inactive(running)
  OBVIOUS
<1>2. s \in Seq(Operation) /\ Ordered(s) /\ s # <<>> /\ h.op = "cmdline" /\ plan["update"] # <<>>
  BY <1>1 DEF TInv, Planned, OpFails, Procs
<1>3. PICK y \in Places(plan["update"]) : y.it = h
  <2>1. Headed(s, t, h)
    BY <1>1, <1>2, HeadPlace
  <2>2. QED BY <1>1, <2>1 DEF Headed
<1>4. running \in proven /\ Loaded.pending \in {None, new} /\ cmdline = running
  <2>1. UpdateOp(y)
    BY DEF WInv, UpdateInv
  <2>2. QED BY <1>1, <1>2, <1>3, <2>1 DEF UpdateOp
<1>5. running \in Slots
  BY <1>4 DEF TInv, Stored
<1>6. UNCHANGED <<primary, backup, cmdline, image, running, latch, proven, tears>>
  BY DEF OpFails, disk
<1>7. PICK st, ops : st = State("idle", running, None, None, None) /\ ops = WriteBoth(st)
  OBVIOUS
<1>8. st \in BootState /\ st.pending = None
  BY <1>5, <1>7, StateTypes DEF Statuses, State
<1>9. /\ ops \in Seq(Operation) /\ Formed(ops)
      /\ \A x \in ToSet(ops) : x.op \in {"backup", "primary"} /\ x.st = st
  BY <1>7, <1>8, SaveFacts
<1>10. plan'["update"] = ops /\ \A q \in Procs : q # "update" => plan'[q] = plan[q]
  <2>1. AfterFailure("update") = ops
    BY <1>1, <1>2, <1>7 DEF AfterFailure, Tolerated, UartOps, MigrateOps
  <2>2. QED BY <2>1 DEF OpFails, Procs
<1>11. ScriptInv' /\ SuccessInv'
  BY <1>2, <1>10, UpdateApart
<1>12. DiskInv'
  BY <1>6 DEF WInv, DiskInv, OneCopyReadable, Copies, SoundState, OnlyOf, Loaded
<1>13. TearInv'
  <2>1. ~Up("update", "primary")'
    <3>1. ops # <<>> => ops[1].op # "primary" /\ Head(ops) = ops[1]
      BY <1>9, FormedOrdered
    <3>2. QED BY <1>10, <3>1 DEF Up
  <2>2. \A q \in Procs : Up(q, "primary")' => Up(q, "primary")
    BY <1>10, <2>1 DEF Up
  <2>3. QED BY <1>6, <2>2 DEF WInv, TearInv
<1>14. LatchInv'
  <2>1. plan'["boot"] = plan["boot"]
    BY <1>10 DEF Procs
  <2>2. QED BY <1>6, <2>1 DEF WInv, LatchInv, Up
<1>15. ASSUME NEW z \in Places(plan'["update"]) PROVE UpdateOp(z)'
  <2>1. z.it \in ToSet(ops)
    BY <1>10 DEF Places, ToSet
  <2>2. z.it.op \in {"backup", "primary"} /\ z.it.st = st
    BY <1>9, <2>1
  <2>3. Loaded' = Loaded /\ SoundState(st)
    BY <1>6, <1>8 DEF Loaded, SoundState
  <2>4. QED BY <1>1, <1>4, <1>6, <1>8, <2>2, <2>3 DEF UpdateOp, SoundState
<1>16. QED BY <1>11, <1>12, <1>13, <1>14, <1>15 DEF WInv, UpdateInv

LEMMA WayOpFails ==
  ASSUME TInv, Lives, WInv, NEW p \in Procs, OpFails(p)
  PROVE  WInv'
<1>1. PICK s, t, h : s = plan[p] /\ t = plan'[p] /\ h = Head(s)
  OBVIOUS
<1>2. s \in Seq(Operation) /\ Ordered(s) /\ s # <<>> /\ h.op \in Fallible
  BY <1>1 DEF TInv, Planned, OpFails
<1>3. UNCHANGED <<primary, backup, cmdline, image, running, latch, proven, tears>>
  BY DEF OpFails, disk
<1>4. /\ t = AfterFailure(p)
      /\ \A q \in Procs : q # p => plan'[q] = plan[q] \/ (plan'[q] = <<>> /\ q = "update")
  BY <1>1 DEF OpFails
<1>5. plan["update"] = <<>> => plan'["update"] = <<>>
  <2>1. CASE p = "update"
    BY <1>1, <1>2, <2>1
  <2>2. CASE p # "update"
    BY <1>4, <2>2 DEF Procs
  <2>3. QED BY <2>1, <2>2
<1>6. Up("boot", "latch") => Up("boot", "latch")'
  <2>1. CASE p = "boot"
    BY <1>1, <1>2, <2>1 DEF Up, Fallible, UartOps, MigrateOps
  <2>2. CASE p # "boot"
    <3>1. plan'["boot"] = plan["boot"]
      BY <1>4, <2>2 DEF Procs
    <3>2. QED BY <3>1 DEF Up
  <2>3. QED BY <2>1, <2>2
<1>7. CASE Tolerated(h)
  <2>1. PICK k \in {1, 2, 3} : k = GivenUp(h)
    BY DEF GivenUp
  <2>2. t = SubSeq(s, GivenUp(Head(s)) + 1, Len(s))
    BY <1>1, <1>4, <1>7 DEF AfterFailure
  <2>3. /\ Dropped(s, GivenUp(Head(s)), SubSeq(s, GivenUp(Head(s)) + 1, Len(s)))
        /\ \A x \in Earlier(s, GivenUp(Head(s)) + 1) : x.op \in UartOps
    BY <1>1, <1>2, <1>7, DroppedFailed
  <2>4. Dropped(s, k, t) /\ \A x \in Earlier(s, k + 1) : x.op \in UartOps
    BY <1>1, <2>1, <2>2, <2>3
  <2>5. PICK G : G = Earlier(s, k + 1)
    OBVIOUS
  <2>6. Shifted(s, t, G)
    BY <2>4, <2>5, ShiftedDropped
  <2>7. \A x \in G : x.op \notin Key /\ x.op # "backup"
    BY <2>4, <2>5 DEF Key, UartOps, MigrateOps
  <2>8. \A q \in Procs : Shifted(plan[q], plan'[q], G)
    BY <1>1, <1>4, <2>6, ShiftedSame
  <2>9. ASSUME NEW q \in Procs, Up(q, "primary")' PROVE Up(q, "primary")
    <3>1. CASE q # p
      BY <1>4, <2>9, <3>1 DEF Up
    <3>2. CASE q = p
      <4>1. t # <<>> /\ Head(t).op = "primary"
        BY <1>1, <2>9, <3>2 DEF Up
      <4>2. t \in Seq(Operation) /\ k \in Nat /\ k > 0
        BY <2>1, <2>4 DEF Dropped
      <4>3. \E x \in Earlier(s, k + 1) : x.op = "backup"
        BY <1>2, <2>4, <4>1, <4>2, AfterBackup
      <4>4. QED BY <2>5, <2>7, <4>3
    <3>3. QED BY <3>1, <3>2
  <2>10. QED BY <1>3, <1>5, <1>6, <2>7, <2>8, <2>9, Trimmed
<1>8. CASE ~Tolerated(h) /\ p = "update" /\ h.op = "cmdline"
  BY <1>1, <1>8, TakenBack
<1>9. CASE ~Tolerated(h) /\ ~(p = "update" /\ h.op = "cmdline")
  <2>1. t = <<>>
    BY <1>1, <1>4, <1>9 DEF AfterFailure
  <2>2. PICK G : G = {}
    OBVIOUS
  <2>3. \A q \in Procs : Shifted(plan[q], plan'[q], G)
    BY <1>1, <1>4, <2>1, ShiftedSame
  <2>4. \A q \in Procs : Up(q, "primary")' => Up(q, "primary")
    BY <1>1, <1>4, <2>1 DEF Up
  <2>5. QED BY <1>3, <1>5, <1>6, <2>2, <2>3, <2>4, Trimmed
<1>10. QED BY <1>7, <1>8, <1>9

\* What goes wrong with the migration's marker or count does not bear on the
\* way back.
LEMMA WayUart ==
  ASSUME TInv, WInv, NEW p \in Procs, UartMarkLost(p) \/ UartRebootFails(p)
  PROVE  WInv'
<1>1. CASE UartMarkLost(p)
  BY <1>1, OtherOp DEF UartMarkLost, Key
<1>2. CASE UartRebootFails(p)
  <2>1. CASE GoDown
    BY <1>2, <2>1, Rebooted DEF UartRebootFails
  <2>2. CASE Done(p) /\ UNCHANGED <<running, latch, srv, config>>
    BY <1>2, <2>2, OtherOp DEF UartRebootFails, Key
  <2>3. QED BY <1>2, <2>1, <2>2 DEF UartRebootFails
<1>3. QED BY <1>1, <1>2

\* At most one file is ever torn, and never the last readable copy.
LEMMA WayPowerLoss ==
  ASSUME TInv, WInv, MaxTears <= 1, PowerLoss
  PROVE  WInv'
<1>1. GoDown /\ UNCHANGED <<cmdline, image, proven>>
  BY DEF PowerLoss
<1>2. PICK torn \in {{}} \cup {{f} : f \in Exposed \cap {"backup", "primary"}} :
        /\ tears + Cardinality(torn) <= MaxTears
        /\ tears' = tears + Cardinality(torn)
        /\ backup' = IF "backup" \in torn THEN Bad ELSE backup
        /\ primary' = IF "primary" \in torn THEN Bad ELSE primary
  BY DEF PowerLoss
<1>3. tears \in Nat /\ MaxTears \in Nat /\ cmdline \in Slots
  BY BoundAssumption DEF TInv, Stored
<1>4. CASE torn = {}
  <2>1. Cardinality(torn) = 0
    BY <1>4, FS_EmptySet
  <2>2. UNCHANGED <<primary, backup, tears>>
    BY <1>2, <1>3, <1>4, <2>1
  <2>3. QED BY <1>1, <2>2, Rebooted
<1>5. CASE torn = {"backup"} \/ torn = {"primary"}
  <2>1. Cardinality(torn) = 1
    BY <1>5, FS_Singleton
  <2>2. tears = 0 /\ tears' = 1
    BY <1>2, <1>3, <2>1
  <2>3. primary # Bad
    BY <2>2 DEF WInv, DiskInv
  <2>4. CASE torn = {"backup"}
    <3>1. primary' = primary /\ backup' = Bad
      BY <1>2, <2>4
    <3>2. Copies' \subseteq Copies /\ OneCopyReadable' /\ Loaded' = Loaded
      BY <2>3, <3>1 DEF Copies, OneCopyReadable, Loaded
    <3>3. Loaded'.pending = cmdline => Inactive(cmdline) \in proven /\ \A c \in Copies' : c.pending \in {None, cmdline}
      BY <1>3, <3>2 DEF WInv, DiskInv, OnlyOf
    <3>4. QED BY <1>1, <2>3, <3>1, <3>2, <3>3, WentDown
  <2>5. CASE torn = {"primary"}
    <3>1. primary' = Bad /\ backup' = backup
      BY <1>2, <2>5
    <3>2. PICK p \in Procs : Up(p, "primary")
      BY <2>5 DEF Exposed, Up
    <3>3. /\ backup # Bad
          /\ backup.pending = cmdline => Inactive(cmdline) \in proven /\ backup.status \in Trying
      BY <3>2 DEF WInv, TearInv
    <3>4. Copies' = {backup} /\ Copies' \subseteq Copies /\ OneCopyReadable' /\ Loaded' = backup
      BY <3>1, <3>3 DEF Copies, OneCopyReadable, Loaded
    <3>5. /\ backup'.pending = cmdline => backup'.status \in Trying
          /\ Loaded'.pending = cmdline =>
               Inactive(cmdline) \in proven /\ \A c \in Copies' : c.pending \in {None, cmdline}
      BY <3>1, <3>3, <3>4
    <3>6. QED BY <1>1, <2>2, <3>1, <3>4, <3>5, WentDown
  <2>6. QED BY <1>5, <2>4, <2>5
<1>6. QED BY <1>4, <1>5

-----------------------------------------------------------------------------
(* New plans.                                                               *)

\* A plan is dropped, or nothing happens to the plans.
LEMMA WayQuiet ==
  ASSUME TInv, WInv, UNCHANGED <<primary, backup, cmdline, image, running, latch, proven, tears>>,
         \A q \in Procs : plan'[q] = plan[q] \/ (plan'[q] = <<>> /\ q = "update")
  PROVE  WInv'
<1>1. PICK G : G = {}
  OBVIOUS
<1>2. \A q \in Procs : Shifted(plan[q], plan'[q], G)
  BY ShiftedSame
<1>3. \A q \in Procs : Up(q, "primary")' => Up(q, "primary")
  BY DEF Up
<1>4. plan'["boot"] = plan["boot"] /\ (plan["update"] = <<>> => plan'["update"] = <<>>)
  BY DEF Procs
<1>5. QED BY <1>1, <1>2, <1>3, <1>4, Trimmed DEF Up

\* The rollback that start or fail plans for the candidate it runs on.
LEMMA RollbackPlanned ==
  ASSUME NEW s \in Slots, NEW st \in BootState, st.pending = s, SoundState(st), NEW ops,
         ops = RollbackPlan(s, st)
  PROVE  /\ ops \in Seq(Operation) /\ Formed(ops) /\ ops # <<>> /\ Head(ops).op = "latch"
         /\ \A z \in Places(ops) :
              /\ z.it.op \notin {"erase", "flash"}
              /\ z.it.op = "cmdline" => z.it.slot = Inactive(s)
              /\ z.it.op \in Writing => Some(z.before, "latch")
              /\ z.it.op \in Writing =>
                   \/ z.it.st.pending = None /\ Some(z.before, "cmdline")
                   \/ /\ z.it.st.pending = s /\ SoundState(z.it.st)
                      /\ z.it.st.status \in Trying
<1>1. st.lastGood = Inactive(s)
  BY OtherSlot DEF SoundState
<1>2. /\ ops \in Seq(Operation) /\ Formed(ops) /\ ops # <<>> /\ ops[1].op = "latch"
      /\ \A i \in DOMAIN ops :
           /\ ops[i].op \notin {"erase", "flash", "uart_mark", "uart_config"}
           /\ ops[i].op = "cmdline" => ops[i].slot = Inactive(s)
           /\ ops[i].op \in Writing =>
                \/ ops[i].st = [st EXCEPT !.status = "rollback_required"]
                \/ /\ ops[i].st = State("idle", st.lastGood, None, None, st.ver)
                   /\ \E j \in DOMAIN ops : j < i /\ ops[j].op = "cmdline"
  BY <1>1, RollbackFacts
<1>3. PICK rr, idle : /\ rr = [st EXCEPT !.status = "rollback_required"]
                      /\ idle = State("idle", st.lastGood, None, None, st.ver)
  OBVIOUS
<1>4. /\ rr.pending = s /\ SoundState(rr) /\ rr.status \in Trying /\ idle.pending = None
  BY <1>1, <1>3 DEF BootState, SoundState, Trying, State
<1>5. PICK n \in Nat : DOMAIN ops = 1..n /\ n # 0
  BY <1>2, EmptySeq, LenProperties
<1>6. 1 \in DOMAIN ops /\ Head(ops) = ops[1]
  BY <1>5
<1>7. ASSUME NEW z \in Places(ops)
      PROVE  /\ z.it.op \notin {"erase", "flash"}
             /\ z.it.op = "cmdline" => z.it.slot = Inactive(s)
             /\ z.it.op \in Writing => Some(z.before, "latch")
             /\ z.it.op \in Writing =>
                  \/ z.it.st.pending = None /\ Some(z.before, "cmdline")
                  \/ z.it.st.pending = s /\ SoundState(z.it.st) /\ z.it.st.status \in Trying
  <2>1. PICK i \in DOMAIN ops : z.it = ops[i] /\ z.before = Earlier(ops, i)
    BY DEF Places
  <2>2. ASSUME z.it.op \in Writing PROVE Some(z.before, "latch")
    <3>1. i # 1
      BY <1>2, <2>1, <2>2 DEF Writing
    <3>2. 1 < i
      BY <1>5, <3>1
    <3>3. ops[1] \in z.before
      BY <1>6, <2>1, <3>2 DEF Earlier
    <3>4. QED BY <1>2, <3>3 DEF Some
  <2>3. ASSUME \E j \in DOMAIN ops : j < i /\ ops[j].op = "cmdline" PROVE Some(z.before, "cmdline")
    BY <2>1, <2>3 DEF Some, Earlier
  <2>4. /\ z.it.op \notin {"erase", "flash"}
        /\ z.it.op = "cmdline" => z.it.slot = Inactive(s)
        /\ z.it.op \in Writing =>
             z.it.st = rr \/ (z.it.st = idle /\ \E j \in DOMAIN ops : j < i /\ ops[j].op = "cmdline")
    BY <1>2, <1>3, <2>1
  <2>5. QED BY <1>4, <2>2, <2>3, <2>4
<1>8. QED BY <1>2, <1>6, <1>7

LEMMA WayPowerOn ==
  ASSUME TInv, Lives, WInv, PowerOn
  PROVE  WInv'
<1>1. PICK s, st, ops : s = cmdline /\ st = Loaded /\ ops = StartPlan(s, st)
  OBVIOUS
<1>2. /\ Loaded \in Copies /\ Loaded \in BootState
      /\ cmdline \in Slots /\ None \notin Slots /\ "off" \notin Slots
      /\ \A r \in Slots : Inactive(r) \in Slots /\ Inactive(r) # r /\ Inactive(Inactive(r)) = r
      /\ \A r, t \in Slots : r # t => t = Inactive(r)
  BY LoadedCopy
<1>3. st \in BootState /\ st \in Copies /\ s \in Slots /\ s # None /\ s # "off" /\ SoundState(st)
  BY <1>1, <1>2 DEF WInv, DiskInv
<1>4. /\ running' = s /\ running = "off" /\ cmdline = s /\ image[s].whole
      /\ UNCHANGED <<primary, backup, cmdline, image, latch, srv, proven, tears>>
  BY <1>1 DEF PowerOn, ghost
<1>5. plan = NoPlans /\ \A q \in Procs : plan[q] = <<>>
  BY <1>4, EmptyPlans DEF TInv, OffIdle
<1>6. plan'["boot"] = ops /\ \A q \in Procs : q # "boot" => plan'[q] = <<>>
  <2>1. plan' = [plan EXCEPT !["boot"] = ops] /\ DOMAIN plan = Procs
    BY <1>1 DEF PowerOn, TInv, Planned
  <2>2. QED BY <1>5, <2>1 DEF Procs
<1>7. Loaded' = st /\ Copies' = Copies
  BY <1>1, <1>4 DEF Loaded, Copies
<1>8. st.pending = s => Inactive(s) \in proven /\ OnlyOf(s)
  BY <1>1, <1>3 DEF WInv, DiskInv
<1>9. OnlyOf(running)' <=> OnlyOf(s)
  BY <1>4, <1>7 DEF OnlyOf
<1>10. primary = Bad => st = backup
  BY <1>1, <1>3 DEF Loaded, Copies, WInv, DiskInv, OneCopyReadable
<1>11. /\ \A z \in Places(ops) : ScriptOp("boot", z)'
       /\ LatchInv'
       /\ ~Up("boot", "primary")'
  <2>1. CASE st.pending = s /\ st.status \in Trying
    <3>1. ops = RollbackPlan(s, st)
      BY <1>1, <2>1 DEF TrialFailed, StartPlan, Trying
    <3>2. /\ ops \in Seq(Operation) /\ Formed(ops) /\ ops # <<>> /\ Head(ops).op = "latch"
          /\ \A z \in Places(ops) :
               /\ z.it.op \notin {"erase", "flash"}
               /\ z.it.op = "cmdline" => z.it.slot = Inactive(s)
               /\ z.it.op \in Writing => Some(z.before, "latch")
               /\ z.it.op \in Writing =>
                    \/ z.it.st.pending = None /\ Some(z.before, "cmdline")
                    \/ z.it.st.pending = s /\ SoundState(z.it.st) /\ z.it.st.status \in Trying
      BY <1>3, <2>1, <3>1, RollbackPlanned
    <3>3. ASSUME NEW z \in Places(ops) PROVE ScriptOp("boot", z)'
      BY <1>3, <1>4, <1>8, <1>9, <2>1, <3>2 DEF ScriptOp, SoundState
    <3>4. Up("boot", "latch")' /\ ~Up("boot", "primary")'
      BY <1>6, <3>2 DEF Up
    <3>5. LatchInv'
      BY <1>4, <1>10, <2>1, <3>4 DEF LatchInv
    <3>6. QED BY <3>3, <3>4, <3>5
  <2>2. CASE st.pending = s /\ st.status \notin Trying
    <3>1. ~TrialFailed(s, st) /\ primary # Bad
      BY <1>4, <1>10, <2>2 DEF TrialFailed, Trying, WInv, LatchInv
    <3>2. st.lastGood = Inactive(s) /\ st.lastGood # None
      BY <1>2, <1>3, <2>2 DEF SoundState
    <3>3. PICK w : w = [st EXCEPT !.status = "booting", !.lastGood = IF @ = None THEN s ELSE @]
      OBVIOUS
    <3>4. w.pending = s /\ w.lastGood = Inactive(s) /\ w.status \in Trying
      BY <1>3, <2>2, <3>2, <3>3 DEF BootState, Trying
    <3>5. ops \in Seq(Operation) /\ Formed(ops) /\ Starting(ops, w)
      BY <1>1, <1>3, <2>2, <3>1, <3>3, StartFacts
    <3>6. ASSUME NEW z \in Places(ops) PROVE ScriptOp("boot", z)'
      <4>1. PICK i \in DOMAIN ops : z.it = ops[i]
        BY DEF Places
      <4>2. z.it.op \in {"backup", "primary", "mirror", "uart_commit"} \cup MigrateOps
            /\ (z.it.op \in Writing => z.it.st = w)
        BY <3>5, <4>1 DEF Starting
      <4>3. SoundState(w)
        BY <3>4 DEF SoundState
      <4>4. QED BY <1>3, <1>4, <1>8, <1>9, <2>2, <3>1, <3>4, <4>2, <4>3 DEF ScriptOp, SoundState, MigrateOps
    <3>7. LatchInv'
      BY <1>4, <3>1 DEF LatchInv
    <3>8. ~Up("boot", "primary")'
      BY <1>6, <3>5, FormedOrdered DEF Up
    <3>9. QED BY <3>6, <3>7, <3>8
  <2>3. CASE st.pending # s
    <3>1. ~TrialFailed(s, st) /\ s \in proven
      BY <1>3, <1>4, <2>3 DEF TrialFailed, WInv, DiskInv
    <3>2. PICK w : w = State("idle", s, None, None, st.rolled)
      OBVIOUS
    <3>3. w.pending = None
      BY <3>2 DEF State
    <3>4. ops \in Seq(Operation) /\ Formed(ops) /\ Starting(ops, w)
      BY <1>1, <1>3, <2>3, <3>1, <3>2, StartFacts
    <3>5. ASSUME NEW z \in Places(ops) PROVE ScriptOp("boot", z)'
      <4>1. PICK i \in DOMAIN ops : z.it = ops[i]
        BY DEF Places
      <4>2. z.it.op \in {"backup", "primary", "mirror", "uart_commit"} \cup MigrateOps
            /\ (z.it.op \in Writing => z.it.st = w)
        BY <3>4, <4>1 DEF Starting
      <4>3. QED BY <1>4, <3>1, <3>3, <4>2 DEF ScriptOp, MigrateOps
    <3>6. LatchInv'
      BY <1>4, <1>10, <2>3 DEF LatchInv
    <3>7. ~Up("boot", "primary")'
      BY <1>6, <3>4, FormedOrdered DEF Up
    <3>8. QED BY <3>5, <3>6, <3>7
  <2>4. QED BY <2>1, <2>2, <2>3
<1>12. ScriptInv' /\ SuccessInv' /\ UpdateInv'
  BY <1>6, <1>11, ShiftedSame DEF ScriptInv, SuccessInv, UpdateInv, Procs
<1>13. TearInv'
  BY <1>6, <1>11 DEF TearInv, Up
<1>14. DiskInv'
  BY <1>1, <1>4, <1>7 DEF WInv, DiskInv, OneCopyReadable, SoundState, OnlyOf
<1>15. QED BY <1>11, <1>12, <1>13, <1>14 DEF WInv

LEMMA WayFailBegin ==
  ASSUME TInv, Lives, WInv, FailBegin
  PROVE  WInv'
<1>1. PICK s, st, ops : /\ s = running /\ st = Loaded
                        /\ ops = IF st.pending = s THEN RollbackPlan(s, st) ELSE <<>>
  OBVIOUS
<1>2. /\ Loaded \in Copies /\ Loaded \in BootState
      /\ cmdline \in Slots /\ None \notin Slots /\ "off" \notin Slots
      /\ \A r \in Slots : Inactive(r) \in Slots /\ Inactive(r) # r /\ Inactive(Inactive(r)) = r
      /\ \A r, t \in Slots : r # t => t = Inactive(r)
  BY LoadedCopy
<1>3. /\ srv = "exited" /\ plan' = [plan EXCEPT !["fail"] = ops]
      /\ UNCHANGED <<primary, backup, cmdline, image, running, latch, proven, tears>>
  BY <1>1 DEF FailBegin, disk, ghost
<1>4. s \in Slots /\ st \in BootState /\ SoundState(st) /\ s # None
  BY <1>1, <1>2, <1>3 DEF TInv, OffIdle, Stored, WInv, DiskInv
<1>5. plan'["fail"] = ops /\ \A q \in Procs : q # "fail" => plan'[q] = plan[q]
  <2>1. DOMAIN plan = Procs
    BY DEF TInv, Planned
  <2>2. QED BY <1>3, <2>1 DEF Procs
<1>6. OnlyOf(running)' <=> OnlyOf(running)
  BY <1>3 DEF OnlyOf, Copies
<1>7. /\ \A z \in Places(ops) : ScriptOp("fail", z)'
      /\ ~Up("fail", "primary")'
  <2>1. CASE st.pending = s
    <3>1. Inactive(s) \in proven /\ OnlyOf(s)
      BY <1>1, <1>4, <2>1 DEF WInv, DiskInv
    <3>2. /\ ops \in Seq(Operation) /\ Formed(ops) /\ ops # <<>> /\ Head(ops).op = "latch"
          /\ \A z \in Places(ops) :
               /\ z.it.op \notin {"erase", "flash"}
               /\ z.it.op = "cmdline" => z.it.slot = Inactive(s)
               /\ z.it.op \in Writing => Some(z.before, "latch")
               /\ z.it.op \in Writing =>
                    \/ z.it.st.pending = None /\ Some(z.before, "cmdline")
                    \/ z.it.st.pending = s /\ SoundState(z.it.st) /\ z.it.st.status \in Trying
      BY <1>1, <1>4, <2>1, RollbackPlanned
    <3>3. ASSUME NEW z \in Places(ops) PROVE ScriptOp("fail", z)'
      BY <1>1, <1>3, <1>4, <1>6, <3>1, <3>2 DEF ScriptOp, SoundState
    <3>4. ~Up("fail", "primary")'
      BY <1>5, <3>2 DEF Up
    <3>5. QED BY <3>3, <3>4
  <2>2. CASE st.pending # s
    BY <1>1, <1>5, <2>2, ShiftedSame DEF Up
  <2>3. QED BY <2>1, <2>2
<1>8. plan'["boot"] = plan["boot"] /\ plan'["success"] = plan["success"] /\ plan'["update"] = plan["update"]
  BY <1>5 DEF Procs
<1>9. ASSUME NEW z \in Places(plan["boot"]) PROVE ScriptOp("boot", z)'
  <2>1. ScriptOp("boot", z)
    BY DEF WInv, ScriptInv
  <2>2. QED BY <1>3, <1>6, <2>1 DEF ScriptOp, SoundState
<1>10. ScriptInv'
  BY <1>5, <1>7, <1>8, <1>9 DEF ScriptInv
<1>11. ASSUME NEW z \in Places(plan["success"]) PROVE SuccessOp(z)'
  <2>1. SuccessOp(z)
    BY DEF WInv, SuccessInv
  <2>2. QED BY <1>3, <1>6, <1>8, <2>1 DEF SuccessOp
<1>12. UpdateInv'
  <2>1. plan["update"] = <<>>
    BY <1>3 DEF Lives
  <2>2. QED BY <1>8, <2>1, ShiftedSame DEF UpdateInv
<1>13. TearInv'
  <2>1. \A q \in Procs : Up(q, "primary")' => Up(q, "primary")
    BY <1>5, <1>7 DEF Up
  <2>2. QED BY <1>3, <2>1 DEF WInv, TearInv
<1>14. LatchInv'
  BY <1>3, <1>8 DEF WInv, LatchInv, Up
<1>15. DiskInv'
  BY <1>3 DEF WInv, DiskInv, OneCopyReadable, Copies, SoundState, OnlyOf, Loaded
<1>16. QED BY <1>8, <1>10, <1>11, <1>12, <1>13, <1>14, <1>15 DEF WInv, SuccessInv

\* A plan that is not empty has an operation.
LEMMA SomePlace ==
  ASSUME TInv, NEW p \in Procs, plan[p] # <<>>
  PROVE  \E z \in Places(plan[p]) : z.it = Head(plan[p])
<1>1. PICK s : s = plan[p]
  OBVIOUS
<1>2. s \in Seq(Operation) /\ s # <<>>
  BY <1>1 DEF TInv, Planned
<1>3. PICK n \in Nat : DOMAIN s = 1..n /\ n # 0
  BY <1>2, EmptySeq, LenProperties
<1>4. 1 \in DOMAIN s /\ s[1] = Head(s)
  BY <1>2, <1>3
<1>5. PICK z : z = [it |-> s[1], before |-> Earlier(s, 1), after |-> Later(s, 1)]
  OBVIOUS
<1>6. z \in Places(s)
  BY <1>4, <1>5 DEF Places
<1>7. QED BY <1>1, <1>4, <1>5, <1>6

\* What success plans writes the accepted state, with nothing to follow it.
LEMMA SuccessPlanned ==
  ASSUME NEW s \in Slots, NEW st \in BootState, NEW ops, ops = SuccessPlan(s, st), NEW z \in Places(ops)
  PROVE  /\ z.it.op \in {"backup", "primary", "mirror", "uart_commit"}
         /\ z.it.op \in Writing => z.it.st.pending = None
         /\ z.it.op = "primary" => \A x \in z.after : x.op \notin Writing
<1>1. PICK w : w = State("idle", s, None, None, st.rolled)
  OBVIOUS
<1>2. /\ ops \in Seq(Operation)
      /\ \A i \in DOMAIN ops :
           /\ ops[i].op \in {"backup", "primary", "mirror", "uart_commit"}
           /\ ops[i].op \in Writing => i <= 2 /\ ops[i].st = State("idle", s, None, None, st.rolled)
           /\ ops[i].op = "primary" => i = 2
  BY SuccessFacts
<1>3. w.pending = None
  BY <1>1 DEF State
<1>4. PICK i \in DOMAIN ops : z.it = ops[i] /\ z.after = Later(ops, i)
  BY DEF Places
<1>5. ASSUME z.it.op = "primary", NEW x \in z.after PROVE x.op \notin Writing
  <2>1. PICK j \in DOMAIN ops : x = ops[j] /\ j > i
    BY <1>4, <1>5 DEF Later
  <2>2. i = 2
    BY <1>2, <1>4, <1>5
  <2>3. PICK n \in Nat : DOMAIN ops = 1..n
    BY <1>2, LenProperties
  <2>4. j \in Nat
    BY <2>3
  <2>5. ~(j <= 2)
    BY <2>1, <2>2, <2>4
  <2>6. QED BY <1>2, <2>1, <2>5
<1>6. QED BY <1>1, <1>2, <1>3, <1>4, <1>5

LEMMA WayMarkSuccess ==
  ASSUME TInv, Lives, WInv, MarkSuccess
  PROVE  WInv'
<1>1. PICK s, st, ops : s = running /\ st = Loaded /\ ops = SuccessPlan(s, st)
  OBVIOUS
<1>2. /\ Loaded \in Copies /\ Loaded \in BootState
      /\ cmdline \in Slots /\ None \notin Slots /\ "off" \notin Slots
      /\ \A r \in Slots : Inactive(r) \in Slots /\ Inactive(r) # r /\ Inactive(Inactive(r)) = r
      /\ \A r, t \in Slots : r # t => t = Inactive(r)
  BY LoadedCopy
<1>3. /\ srv = "up" /\ ~latch /\ st.pending = s
      /\ plan' = [plan EXCEPT !["success"] = ops] /\ proven' = proven \cup {s}
      /\ UNCHANGED <<primary, backup, cmdline, image, running, latch, tears>>
  BY <1>1 DEF MarkSuccess, disk
<1>4. s \in Slots /\ running # "off" /\ st \in BootState /\ s # None
  BY <1>1, <1>2, <1>3 DEF TInv, OffIdle, Stored
<1>5. plan["boot"] = <<>> /\ plan["fail"] = <<>>
  BY <1>3 DEF Lives
<1>6. Inactive(s) \in proven /\ OnlyOf(s) /\ image[s].whole
  BY <1>1, <1>3, <1>4 DEF WInv, DiskInv
<1>7. primary # Bad /\ st = primary
  <2>1. ASSUME primary = Bad PROVE FALSE
    <3>1. Loaded = backup
      BY <2>1 DEF WInv, DiskInv, OneCopyReadable, Loaded
    <3>2. QED BY <1>1, <1>3, <1>4, <1>5, <2>1, <3>1 DEF WInv, LatchInv, Up
  <2>2. QED BY <1>1, <2>1 DEF Loaded
<1>8. plan["update"] = <<>>
  <2>1. SUFFICES ASSUME plan["update"] # <<>> PROVE FALSE
    OBVIOUS
  <2>2. PICK z \in Places(plan["update"]) : TRUE
    BY <2>1, SomePlace DEF Procs
  <2>3. Loaded.pending \in {None, Inactive(running)}
    BY <2>2 DEF WInv, UpdateInv, UpdateOp
  <2>4. QED BY <1>1, <1>2, <1>3, <1>4, <2>3
<1>9. /\ plan'["success"] = ops /\ plan'["boot"] = <<>> /\ plan'["fail"] = <<>> /\ plan'["update"] = <<>>
  <2>1. DOMAIN plan = Procs
    BY DEF TInv, Planned
  <2>2. QED BY <1>3, <1>5, <1>8, <2>1 DEF Procs
<1>10. Slots \subseteq proven'
  BY <1>2, <1>3, <1>4, <1>6
<1>11. Copies' = Copies /\ Loaded' = Loaded
  BY <1>3 DEF Copies, Loaded
<1>12. ASSUME NEW z \in Places(ops) PROVE SuccessOp(z)'
  <2>1. /\ z.it.op \in {"backup", "primary", "mirror", "uart_commit"}
        /\ z.it.op \in Writing => z.it.st.pending = None
        /\ z.it.op = "primary" => \A x \in z.after : x.op \notin Writing
    BY <1>1, <1>4, SuccessPlanned
  <2>2. primary' # Bad /\ primary'.pending = running'
    BY <1>1, <1>3, <1>7
  <2>3. OnlyOf(running)'
    BY <1>1, <1>3, <1>6, <1>11 DEF OnlyOf
  <2>4. QED BY <1>9, <1>10, <2>1, <2>2, <2>3 DEF SuccessOp
<1>13. SuccessInv' /\ ScriptInv' /\ UpdateInv'
  BY <1>9, <1>12, ShiftedSame DEF SuccessInv, ScriptInv, UpdateInv
<1>14. ~Up("success", "primary")'
  <2>1. ops \in Seq(Operation) /\ Formed(ops)
    BY <1>1, <1>4, SuccessFacts
  <2>2. QED BY <1>9, <2>1, FormedOrdered DEF Up
<1>15. TearInv'
  BY <1>9, <1>14 DEF TearInv, Up, Procs
<1>16. LatchInv'
  BY <1>3, <1>7 DEF LatchInv
<1>17. DiskInv'
  <2>1. \A r \in proven' : image'[r].whole
    BY <1>3, <1>6 DEF WInv, DiskInv
  <2>2. \A r \in Slots : Inactive(r) \in proven'
    BY <1>2, <1>10
  <2>3. \A r \in Slots : OnlyOf(r) => OnlyOf(r)'
    BY <1>11 DEF OnlyOf
  <2>4. QED BY <1>2, <1>3, <1>10, <1>11, <2>1, <2>2, <2>3 DEF WInv, DiskInv, OneCopyReadable, SoundState
<1>18. QED BY <1>13, <1>15, <1>16, <1>17 DEF WInv

\* What a place of an update's plan is.
LEMMA UpdatePlaces ==
  ASSUME NEW s \in Slots, NEW v \in Versions, NEW ops, ops = UpdatePlan(s, v), NEW z \in Places(ops),
         NEW w, w = State("pending", s, Inactive(s), v, None)
  PROVE  /\ z.it.op \in {"erase", "flash", "backup", "primary", "cmdline", "reboot"}
         /\ z.it.op \in Writing => z.it.st = w
         /\ z.it.op \in {"cmdline", "erase"} => z.it.slot = Inactive(s)
         /\ z.it.op = "flash" => z.it.st.slot = Inactive(s)
         /\ z.it.op = "erase" => z.before = {}
         /\ z.it.op = "cmdline" =>
              /\ \A x \in z.before : x.op \in Writing => x.st = w
              /\ \A x \in z.after : x.op = "reboot"
              /\ Some(z.before, "flash") /\ Some(z.before, "backup") /\ Some(z.before, "primary")
<1>1. /\ DOMAIN ops = 1..6
      /\ ops[1].op = "erase" /\ ops[1].slot = Inactive(s)
      /\ ops[2].op = "flash" /\ ops[2].st = [slot |-> Inactive(s), ver |-> v]
      /\ ops[3].op = "backup" /\ ops[3].st = w
      /\ ops[4].op = "primary" /\ ops[4].st = w
      /\ ops[5].op = "cmdline" /\ ops[5].slot = Inactive(s)
      /\ ops[6].op = "reboot"
  BY UpdateFacts
<1>2. PICK i \in DOMAIN ops : z.it = ops[i] /\ z.before = Earlier(ops, i) /\ z.after = Later(ops, i)
  BY DEF Places
<1>3. \A j \in DOMAIN ops : j \in {1, 2, 3, 4, 5, 6}
  BY <1>1
<1>4. ops[2].st.slot = Inactive(s)
  BY <1>1
<1>5. Earlier(ops, 1) = {}
  BY <1>1 DEF Earlier
<1>6. Earlier(ops, 5) = {ops[1], ops[2], ops[3], ops[4]}
  <2>1. {k \in DOMAIN ops : k < 5} = {1, 2, 3, 4}
    BY <1>1
  <2>2. QED BY <2>1 DEF Earlier
<1>7. Later(ops, 5) = {ops[6]}
  <2>1. {k \in DOMAIN ops : k > 5} = {6}
    BY <1>1
  <2>2. QED BY <2>1 DEF Later
<1>8. z.it.op \in {"erase", "flash", "backup", "primary", "cmdline", "reboot"}
      /\ (z.it.op \in Writing => z.it.st = w)
      /\ (z.it.op \in {"cmdline", "erase"} => z.it.slot = Inactive(s))
      /\ (z.it.op = "flash" => z.it.st.slot = Inactive(s))
  BY <1>1, <1>2, <1>3, <1>4 DEF Writing
<1>9. z.it.op = "erase" => z.before = {}
  BY <1>1, <1>2, <1>3, <1>5
<1>10. ASSUME z.it.op = "cmdline"
       PROVE  /\ \A x \in z.before : x.op \in Writing => x.st = w
              /\ \A x \in z.after : x.op = "reboot"
              /\ Some(z.before, "flash") /\ Some(z.before, "backup") /\ Some(z.before, "primary")
  <2>1. z.before = {ops[1], ops[2], ops[3], ops[4]} /\ z.after = {ops[6]}
    BY <1>1, <1>2, <1>3, <1>6, <1>7, <1>10
  <2>2. QED BY <1>1, <2>1 DEF Some, Writing
<1>11. QED BY <1>8, <1>9, <1>10

\* An update begins on a proven slot, with nothing of another one left.
LEMMA WayBeginUpdate ==
  ASSUME TInv, Lives, WInv, ~ApplyWhilePending, NEW v \in Versions, BeginUpdate(v)
  PROVE  WInv'
<1>1. PICK s, ops, w : /\ s = running /\ ops = UpdatePlan(s, v)
                       /\ w = State("pending", s, Inactive(s), v, None)
  OBVIOUS
<1>2. /\ Loaded \in Copies /\ Loaded \in BootState
      /\ cmdline \in Slots /\ None \notin Slots /\ "off" \notin Slots
      /\ \A r \in Slots : Inactive(r) \in Slots /\ Inactive(r) # r /\ Inactive(Inactive(r)) = r
      /\ \A r, t \in Slots : r # t => t = Inactive(r)
  BY LoadedCopy
<1>3. /\ srv = "up" /\ plan["update"] = <<>> /\ Loaded.pending = None /\ cmdline = s
      /\ plan' = [plan EXCEPT !["update"] = ops]
      /\ UNCHANGED <<primary, backup, cmdline, image, running, latch, proven, tears>>
  BY <1>1 DEF BeginUpdate, Settled, disk, ghost
<1>4. s \in Slots /\ s # None
  BY <1>2, <1>3
<1>5. s \in proven
  BY <1>2, <1>3, <1>4 DEF WInv, DiskInv
<1>6. plan["boot"] = <<>> /\ plan["fail"] = <<>>
  BY <1>3 DEF Lives
<1>7. plan'["update"] = ops /\ \A q \in Procs : q # "update" => plan'[q] = plan[q]
  <2>1. DOMAIN plan = Procs
    BY DEF TInv, Planned
  <2>2. QED BY <1>3, <2>1 DEF Procs
<1>8. w.pending = Inactive(s) /\ w.lastGood = s /\ SoundState(w)
  BY <1>1, <1>2, <1>4 DEF State, SoundState
<1>9. Loaded' = Loaded
  BY <1>3 DEF Loaded
<1>10. ASSUME NEW z \in Places(ops) PROVE UpdateOp(z)'
  <2>1. /\ z.it.op \in {"erase", "flash", "backup", "primary", "cmdline", "reboot"}
        /\ z.it.op \in Writing => z.it.st = w
        /\ z.it.op \in {"cmdline", "erase"} => z.it.slot = Inactive(s)
        /\ z.it.op = "flash" => z.it.st.slot = Inactive(s)
        /\ z.it.op = "erase" => z.before = {}
        /\ z.it.op = "cmdline" =>
             /\ \A x \in z.before : x.op \in Writing => x.st = w
             /\ \A x \in z.after : x.op = "reboot"
             /\ Some(z.before, "flash") /\ Some(z.before, "backup") /\ Some(z.before, "primary")
    BY <1>1, <1>4, UpdatePlaces
  <2>2. z.it.op = "cmdline" => SwitchOp(z)'
    BY <1>1, <1>3, <1>8, <2>1 DEF SwitchOp
  <2>3. z.it.op \in Writing => z.it.st.pending \in {None, Inactive(s)} /\ SoundState(z.it.st)'
    BY <1>8, <2>1 DEF SoundState
  <2>4. running' = s /\ s \in proven' /\ Loaded'.pending = None /\ cmdline' = s
    BY <1>1, <1>3, <1>5, <1>9
  <2>5. QED BY <2>1, <2>2, <2>3, <2>4 DEF UpdateOp
<1>11. UpdateInv'
  BY <1>7, <1>10 DEF UpdateInv
<1>12. ASSUME NEW z \in Places(plan["success"]) PROVE SuccessOp(z)'
  <2>1. SuccessOp(z)
    BY DEF WInv, SuccessInv
  <2>2. z.it.op \notin Writing
    BY <1>1, <1>3, <1>4, <2>1 DEF SuccessOp, Loaded
  <2>3. QED BY <2>1, <2>2 DEF SuccessOp, Writing
<1>13. SuccessInv' /\ ScriptInv'
  <2>1. plan'["boot"] = <<>> /\ plan'["fail"] = <<>> /\ plan'["success"] = plan["success"]
    BY <1>6, <1>7 DEF Procs
  <2>2. QED BY <1>12, <2>1, ShiftedSame DEF SuccessInv, ScriptInv
<1>14. \A q \in Procs : Up(q, "primary")' => Up(q, "primary")
  <2>1. ops \in Seq(Operation) /\ Formed(ops)
    BY <1>1, <1>4, UpdateFacts
  <2>2. ~Up("update", "primary")'
    BY <1>7, <2>1, FormedOrdered DEF Up
  <2>3. QED BY <1>7, <2>2 DEF Up
<1>15. TearInv'
  BY <1>3, <1>14 DEF WInv, TearInv
<1>16. LatchInv'
  <2>1. plan'["boot"] = plan["boot"]
    BY <1>7 DEF Procs
  <2>2. QED BY <1>3, <2>1 DEF WInv, LatchInv, Up
<1>17. DiskInv'
  BY <1>3 DEF WInv, DiskInv, OneCopyReadable, Copies, SoundState, OnlyOf, Loaded
<1>18. QED BY <1>11, <1>13, <1>15, <1>16, <1>17 DEF WInv

-----------------------------------------------------------------------------
(* Which scripts run beside each other, and the theorems.                   *)

LEMMA LivesDown == GoDown => Lives'
<1>1. GoDown => srv' = "off" /\ \A q \in Procs : plan'[q] = <<>>
  BY EmptyPlans DEF GoDown
<1>2. QED BY <1>1 DEF Lives, Procs

LEMMA LivesExec ==
  ASSUME TInv, Lives, NEW p \in Procs, Exec(p)
  PROVE  Lives'
<1>1. ASSUME NEW w, Up(p, w), Done(p), srv' = srv PROVE Lives'
  <2>1. PICK h : h = Head(plan[p])
    OBVIOUS
  <2>2. \A q \in Procs : plan[q] = <<>> => plan'[q] = <<>>
    BY <1>1, <2>1, ExecFacts
  <2>3. QED BY <1>1, <2>2 DEF Lives, Procs
<1>2. CASE WriteBackup(p)
  BY <1>1, <1>2 DEF WriteBackup
<1>3. CASE WritePrimary(p)
  BY <1>1, <1>3 DEF WritePrimary
<1>4. CASE Mirror(p)
  BY <1>1, <1>4 DEF Mirror
<1>5. CASE Latch(p)
  BY <1>1, <1>5 DEF Latch
<1>6. CASE Prepare(p)
  BY <1>1, <1>6 DEF Prepare
<1>7. CASE UartRestore(p)
  BY <1>1, <1>7 DEF UartRestore
<1>8. CASE UartCommit(p)
  BY <1>1, <1>8 DEF UartCommit
<1>9. CASE RewriteCmdline(p)
  BY <1>1, <1>9 DEF RewriteCmdline
<1>10. CASE Erase(p)
  BY <1>1, <1>10 DEF Erase
<1>11. CASE Flash(p)
  BY <1>1, <1>11 DEF Flash
<1>12. CASE UartMark(p)
  BY <1>1, <1>12 DEF UartMark
<1>13. CASE UartConfig(p)
  BY <1>1, <1>13 DEF UartConfig
<1>14. CASE UartReboot(p)
  BY <1>1, <1>14, LivesDown DEF UartReboot
<1>15. CASE Reboot(p)
  BY <1>15, LivesDown DEF Reboot
<1>16. QED BY <1>2, <1>3, <1>4, <1>5, <1>6, <1>7, <1>8, <1>9, <1>10, <1>11, <1>12, <1>13, <1>14, <1>15 DEF Exec

LEMMA LivesOpFails ==
  ASSUME TInv, Lives, NEW p \in Procs, OpFails(p)
  PROVE  Lives'
<1>1. plan[p] # <<>>
  BY DEF OpFails
<1>2. \A q \in Procs : plan[q] = <<>> => plan'[q] = <<>>
  BY <1>1 DEF OpFails
<1>3. CASE p = "success" /\ srv = "up" /\ ~Tolerated(Head(plan[p]))
  <2>1. srv' = "exited" /\ plan'["update"] = <<>>
    BY <1>3 DEF OpFails, Procs
  <2>2. QED BY <1>2, <1>3, <2>1 DEF Lives, Procs
<1>4. CASE ~(p = "success" /\ srv = "up" /\ ~Tolerated(Head(plan[p])))
  <2>1. srv' = srv
    BY <1>4 DEF OpFails
  <2>2. QED BY <1>2, <2>1 DEF Lives, Procs
<1>5. QED BY <1>3, <1>4

LEMMA LivesUart ==
  ASSUME TInv, Lives, NEW p \in Procs, UartMarkLost(p) \/ UartRebootFails(p)
  PROVE  Lives'
<1>1. ASSUME NEW w, Up(p, w), Done(p), srv' = srv PROVE Lives'
  <2>1. PICK h : h = Head(plan[p])
    OBVIOUS
  <2>2. \A q \in Procs : plan[q] = <<>> => plan'[q] = <<>>
    BY <1>1, <2>1, ExecFacts
  <2>3. QED BY <1>1, <2>2 DEF Lives, Procs
<1>2. CASE UartMarkLost(p)
  BY <1>1, <1>2 DEF UartMarkLost
<1>3. CASE UartRebootFails(p)
  BY <1>1, <1>3, LivesDown DEF UartRebootFails
<1>4. QED BY <1>2, <1>3

LEMMA LivesStep == TInv /\ Lives /\ [Next]_vars => Lives'
<1>1. SUFFICES ASSUME TInv, Lives, [Next]_vars PROVE Lives'
  OBVIOUS
<1>2. DOMAIN plan = Procs
  BY <1>1 DEF TInv, Planned
<1>3. CASE PowerOn
  <2>1. \A q \in Procs : plan[q] = <<>>
    BY <1>1, <1>3, EmptyPlans DEF PowerOn, TInv, OffIdle
  <2>2. srv' = "off" /\ \A q \in Procs : q # "boot" => plan'[q] = <<>>
    BY <1>1, <1>2, <1>3, <2>1 DEF PowerOn, TInv, OffIdle, Procs
  <2>3. QED BY <2>2 DEF Lives, Procs
<1>4. CASE Launch
  BY <1>1, <1>4 DEF Launch, Lives
<1>5. CASE MarkSuccess
  <2>1. srv' = "up" /\ srv = "up" /\ \A q \in Procs : q # "success" => plan'[q] = plan[q]
    BY <1>2, <1>5 DEF MarkSuccess, Procs
  <2>2. QED BY <1>1, <2>1 DEF Lives, Procs
<1>6. CASE RefuseSuccess \/ ServerExit
  <2>1. /\ srv' = "exited" /\ srv = "up" /\ plan'["update"] = <<>>
        /\ \A q \in Procs : q # "update" => plan'[q] = plan[q]
    BY <1>2, <1>6 DEF RefuseSuccess, ServerExit, Procs
  <2>2. QED BY <1>1, <2>1 DEF Lives, Procs
<1>7. CASE FailBegin
  <2>1. srv' = "failing" /\ srv = "exited" /\ \A q \in Procs : q # "fail" => plan'[q] = plan[q]
    BY <1>2, <1>7 DEF FailBegin, Procs
  <2>2. QED BY <1>1, <2>1 DEF Lives, Procs
<1>8. CASE Respawn
  BY <1>1, <1>8 DEF Respawn, Lives
<1>9. ASSUME NEW v \in Versions, AutoUpdate(v) \/ ManualUpdate(v) PROVE Lives'
  <2>1. srv' = "up" /\ srv = "up" /\ \A q \in Procs : q # "update" => plan'[q] = plan[q]
    BY <1>2, <1>9 DEF AutoUpdate, ManualUpdate, BeginUpdate, Procs
  <2>2. QED BY <1>1, <2>1 DEF Lives, Procs
<1>10. ASSUME NEW p \in Procs, Exec(p) \/ OpFails(p) \/ UartMarkLost(p) \/ UartRebootFails(p) PROVE Lives'
  BY <1>1, <1>10, LivesExec, LivesOpFails, LivesUart
<1>11. CASE PowerLoss
  BY <1>11, LivesDown DEF PowerLoss
<1>12. CASE UNCHANGED vars
  BY <1>1, <1>12 DEF vars, system, Lives
<1>13. QED BY <1>1, <1>3, <1>4, <1>5, <1>6, <1>7, <1>8, <1>9, <1>10, <1>11, <1>12 DEF Next

\* The way back survives every step.  The update that may begin while an
\* earlier one is undecided is left out, and so is a second torn file.
LEMMA WayStep ==
  ASSUME ~ApplyWhilePending, MaxTears <= 1
  PROVE  TInv /\ Lives /\ WInv /\ [Next]_vars => WInv'
<1>1. SUFFICES ASSUME TInv, Lives, WInv, [Next]_vars PROVE WInv'
  OBVIOUS
<1>2. TInv' /\ DOMAIN plan = Procs
  BY <1>1, TypeStep DEF TInv, Planned
<1>3. CASE PowerOn
  BY <1>1, <1>3, WayPowerOn
<1>4. CASE Launch \/ Respawn
  BY <1>1, <1>4, WayQuiet DEF Launch, Respawn, disk, ghost
<1>5. CASE MarkSuccess
  BY <1>1, <1>5, WayMarkSuccess
<1>6. CASE RefuseSuccess \/ ServerExit
  <2>1. /\ UNCHANGED <<primary, backup, cmdline, image, running, latch, proven, tears>>
        /\ \A q \in Procs : plan'[q] = plan[q] \/ (plan'[q] = <<>> /\ q = "update")
    BY <1>2, <1>6 DEF RefuseSuccess, ServerExit, disk, ghost
  <2>2. QED BY <1>1, <2>1, WayQuiet
<1>7. CASE FailBegin
  BY <1>1, <1>7, WayFailBegin
<1>8. ASSUME NEW v \in Versions, AutoUpdate(v) \/ ManualUpdate(v) PROVE WInv'
  <2>1. BeginUpdate(v)
    BY <1>8 DEF AutoUpdate, ManualUpdate
  <2>2. QED BY <1>1, <2>1, WayBeginUpdate
<1>9. ASSUME NEW p \in Procs, Exec(p) \/ OpFails(p) \/ UartMarkLost(p) \/ UartRebootFails(p) PROVE WInv'
  BY <1>1, <1>2, <1>9, WayExec, WayOpFails, WayUart
<1>10. CASE PowerLoss
  BY <1>1, <1>10, WayPowerLoss
<1>11. CASE UNCHANGED vars
  <2>1. /\ UNCHANGED <<primary, backup, cmdline, image, running, latch, proven, tears>>
        /\ \A q \in Procs : plan'[q] = plan[q] \/ (plan'[q] = <<>> /\ q = "update")
    BY <1>11 DEF vars, disk, system, ghost
  <2>2. QED BY <1>1, <2>1, WayQuiet
<1>12. QED BY <1>1, <1>3, <1>4, <1>5, <1>6, <1>7, <1>8, <1>9, <1>10, <1>11 DEF Next

LEMMA WayInit == Init => Lives /\ WInv
<1>1. SUFFICES ASSUME Init PROVE Lives /\ WInv
  OBVIOUS
<1>2. \A q \in Procs : plan[q] = <<>>
  BY <1>1, EmptyPlans DEF Init
<1>3. Lives /\ TearInv
  BY <1>2 DEF Lives, TearInv, Up, Procs
<1>4. ScriptInv /\ SuccessInv /\ UpdateInv
  BY <1>2, ShiftedSame DEF ScriptInv, SuccessInv, UpdateInv, Procs
<1>5. FactoryState \in BootState /\ FactoryState.pending = None
  BY ReleaseAssumption DEF FactoryState, State, BootState, Statuses, Slots
<1>6. primary # Bad /\ Copies = {FactoryState} /\ Loaded = FactoryState
  BY <1>1, <1>5, FileAssumption DEF Init, Copies, Loaded
<1>7. LatchInv
  BY <1>6 DEF LatchInv
<1>8. DiskInv
  BY <1>1, <1>5, <1>6, OtherSlot DEF Init, DiskInv, OneCopyReadable, SoundState, Slots
<1>9. QED BY <1>3, <1>4, <1>7, <1>8 DEF WInv

\* The way back is always on disk, through power losses, failed operations and
\* server exits between any two operations of the boot script and the update:
\* as long as no update begins while an earlier one is undecided, and at most
\* one bootstate file is torn.
THEOREM WayBackKept ==
  ASSUME ~ApplyWhilePending, MaxTears <= 1
  PROVE  Spec => []WayBack
<1>1. Init => TInv /\ Lives /\ WInv
  BY TypeInit, WayInit
<1>2. TInv /\ Lives /\ WInv /\ [Next]_vars => (TInv /\ Lives /\ WInv)'
  BY TypeStep, LivesStep, WayStep
<1>3. TInv /\ Lives /\ WInv => WayBack
  BY WInvWayBack
<1>4. QED BY <1>1, <1>2, <1>3, PTL DEF Spec

\* Under the same two conditions cmdline.txt never names a slot whose image is
\* only partly written.
THEOREM CmdlineAlwaysBootable ==
  ASSUME ~ApplyWhilePending, MaxTears <= 1
  PROVE  Spec => []CmdlineBootable
<1>1. Init => TInv /\ Lives /\ WInv
  BY TypeInit, WayInit
<1>2. TInv /\ Lives /\ WInv /\ [Next]_vars => (TInv /\ Lives /\ WInv)'
  BY TypeStep, LivesStep, WayStep
<1>3. TInv /\ Lives /\ WInv => CmdlineBootable
  BY WInvWayBack
<1>4. QED BY <1>1, <1>2, <1>3, PTL DEF Spec

-----------------------------------------------------------------------------
(* The boot configuration: the inductive invariant.                         *)

\* The candidate in slot s, as the migration of config.txt records it.
InSlot(s) == [slot |-> s, ver |-> image[s].ver]

\* The copies that count know the release of their candidate.
VerInv ==
  \A st \in Copies : \A s \in Slots :
    s \in {cmdline, running} /\ st.pending = s => st.ver = image[s].ver

\* The candidate that owes config.txt is the one to boot and on trial, in
\* whichever copy is left to load, and the marker is its own.
OwedInv ==
  uartOwed # None =>
    /\ cmdline = uartOwed /\ running \in {"off", uartOwed}
    /\ image[uartOwed].ver \in Migrating /\ uartPending = InSlot(uartOwed)
    /\ plan["success"] = <<>> /\ plan["update"] = <<>>
    /\ Loaded.pending = uartOwed
    /\ \A p \in Procs : Up(p, "primary") => backup # Bad /\ backup.pending = uartOwed

\* The operations that let go of a candidate.
LetsGo(o) ==
  \/ o.op \in {"cmdline", "uart_commit"}
  \/ o.op \in Writing /\ o.st.pending = None

\* start, and the rollback of start and fail: config.txt is given back first;
\* it is not changed before the marker is written, or has failed to be.
UartOp(p, z) ==
  /\ z.it.op \in Writing /\ z.it.st.pending # None => z.it.st.ver = image[running].ver
  /\ z.it.op = "uart_restore" => z.it.st = InSlot(running)
  /\ LetsGo(z.it) => uartOwed = None \/ Some(z.before, "uart_restore")
  /\ z.it.op = "uart_mark" => z.it.st = InSlot(running)
  /\ z.it.op = "uart_config" =>
       /\ p = "boot" /\ image[running].ver \in Migrating /\ cmdline = running
       /\ \A x \in z.before : x.op = "uart_mark"
       /\ Loaded.pending = running =>
            /\ unmarked \/ uartPending = InSlot(running) \/ Some(z.before, "uart_mark")
            /\ \A x \in z.after : ~LetsGo(x)

UartInv == \A p \in {"boot", "fail"} : \A z \in Places(plan[p]) : UartOp(p, z)

\* An update: image and copies are of one release when it switches.
SameOp(z) ==
  z.it.op = "cmdline" =>
    \E v \in Versions :
      /\ \A x \in z.before : x.op \in Writing \cup {"flash"} => x.st.ver = v
      /\ Some(z.before, "flash") \/ image[Inactive(running)].ver = v
      /\ Some(z.before, "backup") \/ backup.ver = v
      /\ Some(z.before, "primary") \/ primary.ver = v

SameInv == \A z \in Places(plan["update"]) : SameOp(z)

UInv == VerInv /\ OwedInv /\ UartInv /\ SameInv

\* What the invariant is for.
LEMMA UInvGivenBack == UInv => UartGivenBack
BY DEF UInv, OwedInv, UartGivenBack

LEMMA UartInit == Init => UInv
<1>1. SUFFICES ASSUME Init PROVE UInv
  OBVIOUS
<1>2. \A q \in Procs : plan[q] = <<>>
  BY <1>1, EmptyPlans DEF Init
<1>3. UartInv /\ SameInv
  BY <1>2, ShiftedSame DEF UartInv, SameInv, Procs
<1>4. OwedInv
  BY <1>1 DEF Init, OwedInv
<1>5. FactoryState.pending = None /\ None \notin Slots
  BY OtherSlot DEF FactoryState, State
<1>6. \A st \in Copies : st = FactoryState
  BY <1>1 DEF Init, Copies
<1>7. VerInv
  BY <1>5, <1>6 DEF VerInv
<1>8. QED BY <1>3, <1>4, <1>7 DEF UInv

-----------------------------------------------------------------------------
(* What leaves the boot configuration alone.                                *)

\* No copy is new and the images stay.
LEMMA VerKept ==
  ASSUME VerInv, Copies' \subseteq Copies, UNCHANGED <<cmdline, image>>,
         running' \in {running, cmdline, "off"}
  PROVE  VerInv'
<1>1. SUFFICES ASSUME NEW st \in Copies', NEW s \in Slots, s \in {cmdline, running'}, st.pending = s
               PROVE  st.ver = image[s].ver
  BY DEF VerInv
<1>2. s \in {cmdline, running}
  BY <1>1, OtherSlot
<1>3. QED BY <1>1, <1>2 DEF VerInv

\* Who owes config.txt goes on owing it.
LEMMA OwedKept ==
  ASSUME OwedInv, uartOwed' \in {uartOwed, None},
         UNCHANGED <<primary, backup, cmdline, image, uartPending>>,
         running' \in {running, cmdline, "off"},
         uartOwed # None /\ uartOwed' # None => plan'["success"] = <<>> /\ plan'["update"] = <<>>,
         \A q \in Procs : Up(q, "primary")' => Up(q, "primary")
  PROVE  OwedInv'
<1>1. SUFFICES ASSUME uartOwed' # None
               PROVE  /\ cmdline' = uartOwed' /\ running' \in {"off", uartOwed'}
                      /\ image'[uartOwed'].ver \in Migrating /\ uartPending' = InSlot(uartOwed)'
                      /\ plan'["success"] = <<>> /\ plan'["update"] = <<>>
                      /\ Loaded'.pending = uartOwed'
                      /\ \A p \in Procs : Up(p, "primary")' => backup' # Bad /\ backup'.pending = uartOwed'
  BY DEF OwedInv
<1>2. uartOwed' = uartOwed /\ uartOwed # None
  BY <1>1
<1>3. Loaded' = Loaded /\ InSlot(uartOwed)' = InSlot(uartOwed)
  BY <1>2 DEF Loaded, InSlot
<1>4. QED BY <1>2, <1>3 DEF OwedInv

\* The update is where it was, or has dropped operations that change neither
\* an image nor a copy.
LEMMA SameKept ==
  ASSUME SameInv, NEW G, Shifted(plan["update"], plan'["update"], G),
         \A x \in G : x.op \notin {"flash", "backup", "primary"},
         UNCHANGED <<primary, backup, running>>,
         image'[Inactive(running)].ver = image[Inactive(running)].ver
  PROVE  SameInv'
<1>1. SUFFICES ASSUME NEW z \in Places(plan'["update"]), z.it.op = "cmdline"
               PROVE  \E v \in Versions :
                        /\ \A x \in z.before : x.op \in Writing \cup {"flash"} => x.st.ver = v
                        /\ Some(z.before, "flash") \/ image'[Inactive(running)].ver = v
                        /\ Some(z.before, "backup") \/ backup.ver = v
                        /\ Some(z.before, "primary") \/ primary.ver = v
  BY DEF SameInv, SameOp
<1>2. PICK y \in Places(plan["update"]) :
        /\ y.it = z.it /\ z.before \subseteq y.before
        /\ y.before \subseteq z.before \cup G /\ z.after \subseteq y.after
  BY DEF Shifted
<1>3. PICK v \in Versions :
        /\ \A x \in y.before : x.op \in Writing \cup {"flash"} => x.st.ver = v
        /\ Some(y.before, "flash") \/ image[Inactive(running)].ver = v
        /\ Some(y.before, "backup") \/ backup.ver = v
        /\ Some(y.before, "primary") \/ primary.ver = v
  BY <1>1, <1>2 DEF SameInv, SameOp
<1>4. \A c \in {"flash", "backup", "primary"} : Some(y.before, c) => Some(z.before, c)
  BY <1>2 DEF Some
<1>5. QED BY <1>2, <1>3, <1>4

\* There is no update.
LEMMA SameNone ==
  ASSUME plan'["update"] = <<>>
  PROVE  SameInv'
BY ShiftedSame DEF SameInv

\* Beside a boot nothing else runs.
LEMMA BootAlone ==
  ASSUME Lives, plan["boot"] # <<>>
  PROVE  srv = "off" /\ plan["success"] = <<>> /\ plan["fail"] = <<>> /\ plan["update"] = <<>>
BY DEF Lives

\* config.txt is changed at the start of a boot, or not in this one.
LEMMA NoConfigLeft ==
  ASSUME TInv, Lives, UartInv, NEW p \in Procs, NEW w, w # "uart_mark", Up(p, w), Done(p),
         NEW q \in {"boot", "fail"}, NEW z \in Places(plan'[q])
  PROVE  z.it.op # "uart_config"
<1>1. SUFFICES ASSUME z.it.op = "uart_config" PROVE FALSE
  OBVIOUS
<1>2. PICK h : h = Head(plan[p])
  OBVIOUS
<1>3. /\ h.op = w /\ \A r \in Procs : Shifted(plan[r], plan'[r], {h})
      /\ Headed(plan[p], plan'[p], h) /\ plan[p] # <<>>
  BY <1>2, ExecFacts DEF Up
<1>4. PICK y \in Places(plan[q]) : y.it = z.it
  BY <1>3 DEF Shifted, Procs
<1>5. q = "boot" /\ plan["boot"] # <<>>
  <2>1. UartOp(q, y)
    BY <1>4 DEF UartInv
  <2>2. q = "boot"
    BY <1>1, <1>4, <2>1 DEF UartOp
  <2>3. QED BY <1>4, <2>2, ShiftedSame
<1>6. p = "boot"
  BY <1>3, <1>5, BootAlone DEF Procs
<1>7. PICK x \in Places(plan["boot"]) : x.it = z.it /\ h \in x.before
  BY <1>3, <1>5, <1>6 DEF Headed
<1>8. UartOp("boot", x)
  BY <1>7 DEF UartInv
<1>9. h.op = "uart_mark"
  BY <1>1, <1>7, <1>8 DEF UartOp
<1>10. QED BY <1>3, <1>9

\* A script does its next operation, and what is left still gives config.txt
\* back first.
LEMMA UartMoved ==
  ASSUME TInv, Lives, UartInv, NEW p \in Procs, NEW w, w # "uart_mark", Up(p, w), Done(p),
         UNCHANGED <<image, running>>,
         uartOwed' = None \/ (uartOwed' = uartOwed /\ w # "uart_restore")
  PROVE  UartInv'
<1>1. PICK h : h = Head(plan[p])
  OBVIOUS
<1>2. h.op = w /\ \A r \in Procs : Shifted(plan[r], plan'[r], {h})
  BY <1>1, ExecFacts
<1>3. SUFFICES ASSUME NEW q \in {"boot", "fail"}, NEW z \in Places(plan'[q]) PROVE UartOp(q, z)'
  BY DEF UartInv
<1>4. PICK y \in Places(plan[q]) :
        /\ y.it = z.it /\ z.before \subseteq y.before /\ y.before \subseteq z.before \cup {h}
  BY <1>2 DEF Shifted, Procs
<1>5. UartOp(q, y)
  BY DEF UartInv
<1>6. z.it.op # "uart_config"
  BY NoConfigLeft
<1>7. w # "uart_restore" /\ Some(y.before, "uart_restore") => Some(z.before, "uart_restore")
  BY <1>2, <1>4 DEF Some
<1>8. InSlot(running)' = InSlot(running)
  BY DEF InSlot
<1>9. LetsGo(z.it) => uartOwed' = None \/ Some(z.before, "uart_restore")
  BY <1>4, <1>5, <1>7 DEF UartOp
<1>10. LetsGo(z.it)' <=> LetsGo(z.it)
  BY DEF LetsGo
<1>11. QED BY <1>4, <1>5, <1>6, <1>8, <1>9, <1>10 DEF UartOp

-----------------------------------------------------------------------------
(* The operations, one by one.                                              *)

\* While config.txt is owed, only start and fail have anything to do, and
\* their next operation lets go of nothing.
LEMMA OwedAlone ==
  ASSUME TInv, OwedInv, UartInv, uartOwed # None, NEW p \in Procs, NEW w, Up(p, w), Done(p),
         NEW h, h = Head(plan[p])
  PROVE  /\ p \in {"boot", "fail"} /\ running = uartOwed /\ running \in Slots
         /\ ~LetsGo(h) /\ \E y \in Places(plan[p]) : y.it = h /\ y.before = {} /\ UartOp(p, y)
<1>1. p \in {"boot", "fail"}
  BY DEF OwedInv, Up, Procs
<1>2. running \in Slots /\ Headed(plan[p], plan'[p], h)
  BY ExecFacts
<1>3. running = uartOwed
  BY <1>2, OtherSlot DEF OwedInv
<1>4. PICK y \in Places(plan[p]) : y.it = h /\ y.before = {}
  BY <1>2 DEF Headed
<1>5. UartOp(p, y)
  BY <1>1 DEF UartInv
<1>6. ~LetsGo(h)
  BY <1>4, <1>5 DEF UartOp, Some
<1>7. QED BY <1>1, <1>2, <1>3, <1>4, <1>5, <1>6

\* Operations that change neither the copies nor the images nor cmdline.txt,
\* nor the marker of the migration.
LEMMA UartOther ==
  ASSUME TInv, Lives, UInv, NEW p \in Procs, NEW w, Up(p, w), Done(p),
         w \notin {"uart_mark", "backup", "primary", "flash"},
         UNCHANGED <<primary, backup, cmdline, image, running, uartPending>>,
         uartOwed' = None \/ (uartOwed' = uartOwed /\ w # "uart_restore")
  PROVE  UInv'
<1>1. PICK h : h = Head(plan[p])
  OBVIOUS
<1>2. /\ h.op = w
      /\ \A q \in Procs : Shifted(plan[q], plan'[q], {h})
      /\ \A q \in Procs : plan[q] = <<>> => plan'[q] = <<>>
      /\ \A q \in Procs : Up(q, "primary")' => Up(q, "primary")
  BY <1>1, MoveFacts
<1>3. VerInv'
  <2>1. Copies' \subseteq Copies
    BY DEF Copies
  <2>2. QED BY <2>1, VerKept DEF UInv
<1>4. OwedInv'
  <2>1. uartOwed # None => plan'["success"] = <<>> /\ plan'["update"] = <<>>
    BY <1>2 DEF UInv, OwedInv, Procs
  <2>2. QED BY <1>2, <2>1, OwedKept DEF UInv
<1>5. UartInv'
  BY UartMoved DEF UInv
<1>6. SameInv'
  <2>1. PICK G : G = {h}
    OBVIOUS
  <2>2. Shifted(plan["update"], plan'["update"], G) /\ \A x \in G : x.op \notin {"flash", "backup", "primary"}
    BY <1>2, <2>1 DEF Procs
  <2>3. QED BY <2>2, SameKept DEF UInv
<1>7. QED BY <1>3, <1>4, <1>5, <1>6 DEF UInv

\* config.txt is given back, if this candidate has changed it.
LEMMA UartRestored ==
  ASSUME TInv, Lives, UInv, NEW p \in Procs, UartRestore(p)
  PROVE  UInv'
<1>1. PICK h : h = Head(plan[p])
  OBVIOUS
<1>2. /\ Up(p, "uart_restore") /\ Done(p)
      /\ UNCHANGED <<primary, backup, cmdline, image, running, uartPending>>
  BY DEF UartRestore
<1>3. uartOwed' = None
  <2>1. CASE uartOwed # None
    <3>1. /\ running = uartOwed
          /\ \E y \in Places(plan[p]) : y.it = h /\ y.before = {} /\ UartOp(p, y)
      BY <1>1, <1>2, <2>1, OwedAlone DEF UInv
    <3>2. h.op = "uart_restore"
      BY <1>1, <1>2 DEF Up
    <3>3. h.st = InSlot(running)
      BY <3>1, <3>2 DEF UartOp
    <3>4. uartPending = h.st
      BY <2>1, <3>1, <3>3 DEF UInv, OwedInv
    <3>5. QED BY <1>1, <3>4 DEF UartRestore
  <2>2. CASE uartOwed = None
    BY <2>2 DEF UartRestore
  <2>3. QED BY <2>1, <2>2
<1>4. QED BY <1>2, <1>3, UartOther

\* The marker is forgotten: nothing was owed.
LEMMA UartCommitted ==
  ASSUME TInv, Lives, UInv, NEW p \in Procs, UartCommit(p)
  PROVE  UInv'
<1>1. PICK h : h = Head(plan[p])
  OBVIOUS
<1>2. /\ Up(p, "uart_commit") /\ Done(p)
      /\ UNCHANGED <<primary, backup, cmdline, image, running, uartOwed>>
  BY DEF UartCommit, ghost
<1>3. uartOwed = None
  <2>1. SUFFICES ASSUME uartOwed # None PROVE FALSE
    OBVIOUS
  <2>2. ~LetsGo(h)
    BY <1>1, <1>2, <2>1, OwedAlone DEF UInv
  <2>3. QED BY <1>1, <1>2, <2>2 DEF LetsGo, Up
<1>4. /\ h.op = "uart_commit"
      /\ \A q \in Procs : Shifted(plan[q], plan'[q], {h})
  BY <1>1, <1>2, MoveFacts
<1>5. VerInv'
  <2>1. Copies' \subseteq Copies
    BY <1>2 DEF Copies
  <2>2. QED BY <1>2, <2>1, VerKept DEF UInv
<1>6. OwedInv'
  BY <1>2, <1>3 DEF OwedInv
<1>7. UartInv'
  BY <1>2, UartMoved DEF UInv
<1>8. SameInv'
  <2>1. PICK G : G = {h}
    OBVIOUS
  <2>2. Shifted(plan["update"], plan'["update"], G) /\ \A x \in G : x.op \notin {"flash", "backup", "primary"}
    BY <1>4, <2>1 DEF Procs
  <2>3. QED BY <1>2, <2>2, SameKept DEF UInv
<1>9. QED BY <1>5, <1>6, <1>7, <1>8 DEF UInv

\* The marker is written, or fails to be, before config.txt is changed.
LEMMA UartMarking ==
  ASSUME TInv, Lives, UInv, NEW p \in Procs, Up(p, "uart_mark"), Done(p),
         UNCHANGED <<primary, backup, cmdline, image, running>>,
         unmarked' \/ uartPending' = InSlot(running), uartOwed' \in {uartOwed, None},
         uartOwed' # None => UNCHANGED uartPending
  PROVE  UInv'
<1>1. PICK h : h = Head(plan[p])
  OBVIOUS
<1>2. /\ h.op = "uart_mark" /\ running \in Slots
      /\ \A q \in Procs : Shifted(plan[q], plan'[q], {h})
      /\ \A q \in Procs : plan[q] = <<>> => plan'[q] = <<>>
      /\ \A q \in Procs : Up(q, "primary")' => Up(q, "primary")
  BY <1>1, MoveFacts
<1>3. VerInv'
  <2>1. Copies' \subseteq Copies
    BY DEF Copies
  <2>2. QED BY <2>1, VerKept DEF UInv
<1>4. OwedInv'
  <2>1. SUFFICES ASSUME uartOwed' # None PROVE OwedInv'
    BY DEF OwedInv
  <2>2. uartOwed' = uartOwed /\ UNCHANGED uartPending
    BY <2>1
  <2>3. plan'["success"] = <<>> /\ plan'["update"] = <<>>
    BY <1>2, <2>1, <2>2 DEF UInv, OwedInv, Procs
  <2>4. QED BY <1>2, <2>2, <2>3, OwedKept DEF UInv
<1>5. ASSUME NEW q \in {"boot", "fail"}, NEW z \in Places(plan'[q]) PROVE UartOp(q, z)'
  <2>1. PICK x \in Places(plan[q]) :
          /\ x.it = z.it /\ z.before \subseteq x.before
          /\ x.before \subseteq z.before \cup {h} /\ z.after \subseteq x.after
    BY <1>2 DEF Shifted, Procs
  <2>2. UartOp(q, x)
    BY DEF UInv, UartInv
  <2>3. Some(x.before, "uart_restore") => Some(z.before, "uart_restore")
    BY <1>2, <2>1 DEF Some
  <2>4. /\ InSlot(running)' = InSlot(running) /\ Loaded' = Loaded
        /\ unmarked' \/ uartPending' = InSlot(running)'
    BY DEF InSlot, Loaded
  <2>5. \A o : LetsGo(o)' <=> LetsGo(o)
    BY DEF LetsGo
  <2>6. /\ z.it.op \in Writing /\ z.it.st.pending # None => z.it.st.ver = image'[running'].ver
        /\ z.it.op = "uart_restore" => z.it.st = InSlot(running)'
        /\ LetsGo(z.it)' => uartOwed' = None \/ Some(z.before, "uart_restore")
        /\ z.it.op = "uart_mark" => z.it.st = InSlot(running)'
    BY <2>1, <2>2, <2>3, <2>4, <2>5 DEF UartOp
  <2>7. z.it.op = "uart_config" =>
          /\ q = "boot" /\ image'[running'].ver \in Migrating /\ cmdline' = running'
          /\ \A e \in z.before : e.op = "uart_mark"
          /\ Loaded'.pending = running' => \A e \in z.after : ~LetsGo(e)'
    BY <2>1, <2>2, <2>4, <2>5 DEF UartOp
  <2>8. QED BY <2>4, <2>6, <2>7 DEF UartOp
<1>6. SameInv'
  <2>1. PICK G : G = {h}
    OBVIOUS
  <2>2. Shifted(plan["update"], plan'["update"], G) /\ \A x \in G : x.op \notin {"flash", "backup", "primary"}
    BY <1>2, <2>1 DEF Procs
  <2>3. QED BY <2>2, SameKept DEF UInv
<1>7. QED BY <1>3, <1>4, <1>5, <1>6 DEF UInv, UartInv

LEMMA UartMarked ==
  ASSUME TInv, Lives, WInv, UInv, NEW p \in Procs, UartMark(p)
  PROVE  UInv'
<1>1. PICK h : h = Head(plan[p])
  OBVIOUS
<1>2. /\ Up(p, "uart_mark") /\ Done(p) /\ uartPending' = h.st
      /\ UNCHANGED <<primary, backup, cmdline, image, running, uartOwed>>
  BY <1>1 DEF UartMark
<1>3. h.op = "uart_mark" /\ running \in Slots /\ Headed(plan[p], plan'[p], h)
  BY <1>1, <1>2, MoveFacts
<1>4. PICK y \in Places(plan[p]) : y.it = h /\ y.before = {}
  BY <1>3 DEF Headed
<1>5. p \in {"boot", "fail"}
  <2>1. CASE p = "success"
    <3>1. SuccessOp(y)
      BY <2>1 DEF WInv, SuccessInv
    <3>2. QED BY <1>3, <1>4, <3>1 DEF SuccessOp
  <2>2. CASE p = "update"
    <3>1. UpdateOp(y)
      BY <2>2 DEF WInv, UpdateInv
    <3>2. QED BY <1>3, <1>4, <3>1 DEF UpdateOp
  <2>3. QED BY <2>1, <2>2 DEF Procs
<1>6. h.st = InSlot(running)
  <2>1. UartOp(p, y)
    BY <1>5 DEF UInv, UartInv
  <2>2. QED BY <1>3, <1>4, <2>1 DEF UartOp
<1>7. uartOwed # None => UNCHANGED uartPending
  <2>1. ASSUME uartOwed # None PROVE running = uartOwed
    BY <1>3, <2>1, OtherSlot DEF UInv, OwedInv
  <2>2. QED BY <1>2, <1>6, <2>1 DEF UInv, OwedInv
<1>8. QED BY <1>2, <1>6, <1>7, UartMarking

\* config.txt is changed: on trial, a candidate with its marker in place owes
\* it from now on.
LEMMA UartConfigured ==
  ASSUME TInv, Lives, WInv, UInv, NEW p \in Procs, UartConfig(p)
  PROVE  UInv'
<1>1. PICK h : h = Head(plan[p])
  OBVIOUS
<1>2. /\ Up(p, "uart_config") /\ Done(p)
      /\ uartOwed' = IF Loaded.pending = running /\ ~unmarked THEN running ELSE uartOwed
      /\ UNCHANGED <<primary, backup, cmdline, image, running, uartPending>>
  BY DEF UartConfig
<1>3. /\ h.op = "uart_config" /\ running \in Slots
      /\ \A q \in Procs : q # p => plan'[q] = plan[q]
      /\ \A q \in Procs : Shifted(plan[q], plan'[q], {h})
      /\ \A q \in Procs : plan[q] = <<>> => plan'[q] = <<>>
      /\ \A q \in Procs : Up(q, "primary")' => Up(q, "primary")
      /\ Headed(plan[p], plan'[p], h)
  BY <1>1, <1>2, MoveFacts
<1>4. PICK y \in Places(plan[p]) :
        y.it = h /\ y.before = {} /\ \A z \in Places(plan'[p]) : z.it \in y.after
  BY <1>3 DEF Headed
<1>5. p \in {"boot", "fail"}
  <2>1. CASE p = "success"
    <3>1. SuccessOp(y)
      BY <2>1 DEF WInv, SuccessInv
    <3>2. QED BY <1>3, <1>4, <3>1 DEF SuccessOp
  <2>2. CASE p = "update"
    <3>1. UpdateOp(y)
      BY <2>2 DEF WInv, UpdateInv
    <3>2. QED BY <1>3, <1>4, <3>1 DEF UpdateOp
  <2>3. QED BY <2>1, <2>2 DEF Procs
<1>6. /\ p = "boot" /\ image[running].ver \in Migrating /\ cmdline = running
      /\ Loaded.pending = running /\ ~unmarked =>
           uartPending = InSlot(running) /\ \A x \in y.after : ~LetsGo(x)
  <2>1. UartOp(p, y)
    BY <1>5 DEF UInv, UartInv
  <2>2. ~Some(y.before, "uart_mark")
    BY <1>4 DEF Some
  <2>3. QED BY <1>3, <1>4, <2>1, <2>2 DEF UartOp
<1>7. plan["success"] = <<>> /\ plan["fail"] = <<>> /\ plan["update"] = <<>>
  BY <1>2, <1>6, BootAlone DEF Up
<1>8. plan'["success"] = <<>> /\ plan'["fail"] = <<>> /\ plan'["update"] = <<>>
  BY <1>3, <1>7 DEF Procs
<1>9. SameInv'
  BY <1>8, SameNone
<1>10. VerInv'
  <2>1. Copies' \subseteq Copies
    BY <1>2 DEF Copies
  <2>2. QED BY <1>2, <2>1, VerKept DEF UInv
<1>11. CASE ~(Loaded.pending = running /\ ~unmarked)
  <2>1. uartOwed' = uartOwed
    BY <1>2, <1>11
  <2>2. UartInv'
    BY <1>2, <2>1, UartMoved DEF UInv
  <2>3. OwedInv'
    BY <1>2, <1>3, <1>8, <2>1, OwedKept DEF UInv
  <2>4. QED BY <1>9, <1>10, <2>2, <2>3 DEF UInv
<1>12. CASE Loaded.pending = running /\ ~unmarked
  <2>1. uartOwed' = running /\ Loaded' = Loaded
    BY <1>2, <1>12 DEF Loaded
  <2>2. \A q \in Procs : ~Up(q, "primary")'
    <3>1. \A q \in Procs : ~Up(q, "primary")
      BY <1>2, <1>6, <1>7 DEF Up, Procs
    <3>2. QED BY <1>3, <3>1
  <2>3. OwedInv'
    <3>1. uartPending' = InSlot(uartOwed)'
      BY <1>2, <1>6, <1>12, <2>1 DEF InSlot
    <3>2. QED BY <1>2, <1>6, <1>8, <1>12, <2>1, <2>2, <3>1 DEF OwedInv
  <2>4. ASSUME NEW q \in {"boot", "fail"}, NEW z \in Places(plan'[q]) PROVE UartOp(q, z)'
    <3>1. q = "boot"
      BY <1>8, ShiftedSame
    <3>2. PICK x \in Places(plan[q]) : x.it = z.it
      BY <1>3, <3>1 DEF Shifted, Procs
    <3>3. UartOp(q, x)
      BY DEF UInv, UartInv
    <3>4. ~LetsGo(z.it)
      BY <1>4, <1>6, <1>12, <3>1
    <3>5. z.it.op # "uart_config"
      BY <1>2, NoConfigLeft DEF UInv
    <3>6. InSlot(running)' = InSlot(running) /\ (LetsGo(z.it)' <=> LetsGo(z.it))
      BY <1>2 DEF InSlot, LetsGo
    <3>7. QED BY <1>2, <3>2, <3>3, <3>4, <3>5, <3>6 DEF UartOp
  <2>5. QED BY <1>9, <1>10, <2>3, <2>4 DEF UInv, UartInv
<1>13. QED BY <1>11, <1>12

\* What process p writes is of the release it runs, or not of a slot in use;
\* and it does not let go of a candidate that owes config.txt.
LEMMA WrittenVer ==
  ASSUME TInv, WInv, UInv, NEW p \in Procs, NEW w \in Writing, Up(p, w), Done(p),
         NEW h, h = Head(plan[p])
  PROVE  /\ \A s \in Slots : s \in {cmdline, running} /\ h.st.pending = s => h.st.ver = image[s].ver
         /\ uartOwed # None => h.st.pending = uartOwed
         /\ h.st # Bad
<1>1. h \in Operation /\ h.op = w /\ running \in Slots /\ Headed(plan[p], plan'[p], h)
  BY ExecFacts
<1>2. PICK y \in Places(plan[p]) : y.it = h /\ y.before = {}
  BY <1>1 DEF Headed
<1>3. Fitting(p, h.st) /\ h.st \in BootState /\ h.st # Bad
  BY HeadWrite
<1>4. h.op \in Writing /\ None \notin Slots
  BY <1>1, OtherSlot
<1>5. ASSUME NEW s \in Slots, s \in {cmdline, running}, h.st.pending = s PROVE h.st.ver = image[s].ver
  <2>1. s = running
    BY <1>3, <1>5 DEF Fitting
  <2>2. CASE p \in {"boot", "fail"}
    <3>1. UartOp(p, y)
      BY <2>2 DEF UInv, UartInv
    <3>2. QED BY <1>2, <1>4, <1>5, <2>1, <3>1 DEF UartOp
  <2>3. CASE p = "success"
    <3>1. SuccessOp(y)
      BY <2>3 DEF WInv, SuccessInv
    <3>2. QED BY <1>2, <1>4, <1>5, <3>1 DEF SuccessOp
  <2>4. CASE p = "update"
    <3>1. h.st.pending \in {None, Inactive(running)}
      BY <1>3, <2>4 DEF Fitting
    <3>2. QED BY <1>1, <1>4, <1>5, <2>1, <3>1, OtherSlot
  <2>5. QED BY <2>2, <2>3, <2>4 DEF Procs
<1>6. ASSUME uartOwed # None PROVE h.st.pending = uartOwed
  <2>1. p \in {"boot", "fail"} /\ running = uartOwed /\ ~LetsGo(h)
    BY <1>6, OwedAlone DEF UInv
  <2>2. h.st.pending # None
    BY <1>4, <2>1 DEF LetsGo
  <2>3. h.st.pending \in {None, running}
    BY <1>3, <2>1 DEF Fitting
  <2>4. QED BY <2>1, <2>2, <2>3
<1>7. QED BY <1>3, <1>5, <1>6

\* The update writes a copy, or the new image: they are of the same release.
LEMMA SameWritten ==
  ASSUME TInv, SameInv, NEW w \in {"flash", "backup", "primary"}, Up("update", w), Done("update"),
         NEW h, h = Head(plan["update"]), running' = running,
         w = "flash" => image'[Inactive(running)].ver = h.st.ver,
         w # "flash" => image' = image,
         backup' = IF w = "backup" THEN h.st ELSE backup,
         primary' = IF w = "primary" THEN h.st ELSE primary
  PROVE  SameInv'
<1>1. h.op = w /\ Headed(plan["update"], plan'["update"], h)
  BY ExecFacts DEF Procs
<1>2. SUFFICES ASSUME NEW z \in Places(plan'["update"]), z.it.op = "cmdline"
               PROVE  \E v \in Versions :
                        /\ \A x \in z.before : x.op \in Writing \cup {"flash"} => x.st.ver = v
                        /\ Some(z.before, "flash") \/ image'[Inactive(running)].ver = v
                        /\ Some(z.before, "backup") \/ backup'.ver = v
                        /\ Some(z.before, "primary") \/ primary'.ver = v
  BY DEF SameInv, SameOp
<1>3. PICK y \in Places(plan["update"]) :
        /\ y.it = z.it /\ z.before \subseteq y.before /\ h \in y.before
        /\ y.before \subseteq z.before \cup {h}
  BY <1>1 DEF Headed
<1>4. PICK v \in Versions :
        /\ \A x \in y.before : x.op \in Writing \cup {"flash"} => x.st.ver = v
        /\ Some(y.before, "flash") \/ image[Inactive(running)].ver = v
        /\ Some(y.before, "backup") \/ backup.ver = v
        /\ Some(y.before, "primary") \/ primary.ver = v
  BY <1>2, <1>3 DEF SameInv, SameOp
<1>5. h.st.ver = v
  BY <1>1, <1>3, <1>4 DEF Writing
<1>6. \A c \in {"flash", "backup", "primary"} : c # w /\ Some(y.before, c) => Some(z.before, c)
  BY <1>1, <1>3 DEF Some
<1>7. Some(z.before, "flash") \/ image'[Inactive(running)].ver = v
  BY <1>4, <1>5, <1>6
<1>8. Some(z.before, "backup") \/ backup'.ver = v
  BY <1>4, <1>5, <1>6
<1>9. Some(z.before, "primary") \/ primary'.ver = v
  BY <1>4, <1>5, <1>6
<1>10. QED BY <1>3, <1>4, <1>7, <1>8, <1>9

\* A copy of the bootstate is written.
LEMMA UartWrote ==
  ASSUME TInv, Lives, WInv, UInv, NEW p \in Procs, WriteBackup(p) \/ WritePrimary(p)
  PROVE  UInv'
<1>1. PICK h : h = Head(plan[p])
  OBVIOUS
<1>2. PICK w \in Writing :
        /\ Up(p, w) /\ Done(p) /\ UNCHANGED <<cmdline, image, running, uartPending, uartOwed>>
        /\ w = "backup" => backup' = h.st /\ primary' = primary
        /\ w = "primary" => primary' = h.st /\ backup' = backup
  <2>1. CASE WriteBackup(p)
    BY <1>1, <2>1 DEF WriteBackup, ghost, Writing
  <2>2. CASE WritePrimary(p)
    BY <1>1, <2>2 DEF WritePrimary, ghost, Writing
  <2>3. QED BY <2>1, <2>2
<1>3. /\ h.op = w /\ running \in Slots /\ Headed(plan[p], plan'[p], h)
      /\ \A q \in Procs : plan[q] = <<>> => plan'[q] = <<>>
  <2>1. Up(p, w) /\ Done(p)
    BY <1>2
  <2>2. QED BY <1>1, <2>1, ExecFacts
<1>4. /\ \A s \in Slots : s \in {cmdline, running} /\ h.st.pending = s => h.st.ver = image[s].ver
      /\ uartOwed # None => h.st.pending = uartOwed
      /\ h.st # Bad
  BY <1>1, <1>2, WrittenVer
<1>5. VerInv'
  <2>1. Copies' \subseteq Copies \cup {h.st}
    BY <1>2 DEF Copies, Writing
  <2>2. QED BY <1>2, <1>4, <2>1 DEF UInv, VerInv
<1>6. UartInv'
  BY <1>2, UartMoved DEF UInv, Writing
<1>7. OwedInv'
  <2>1. SUFFICES ASSUME uartOwed # None PROVE OwedInv'
    BY <1>2 DEF OwedInv
  <2>2. Loaded'.pending = uartOwed
    <3>1. Loaded.pending = uartOwed
      BY <2>1 DEF UInv, OwedInv
    <3>2. CASE w = "backup"
      BY <1>2, <1>4, <2>1, <3>1, <3>2 DEF Loaded
    <3>3. CASE w = "primary"
      BY <1>2, <1>4, <2>1, <3>3 DEF Loaded
    <3>4. QED BY <3>2, <3>3 DEF Writing
  <2>3. ASSUME NEW q \in Procs, Up(q, "primary")' PROVE backup' # Bad /\ backup'.pending = uartOwed
    <3>1. CASE w = "backup"
      BY <1>2, <1>4, <2>1, <3>1
    <3>2. CASE w = "primary"
      <4>1. \A r \in Procs : Up(r, "primary")' => Up(r, "primary")
        BY <1>1, <1>2, <3>2, MoveFacts
      <4>2. QED BY <1>2, <2>1, <2>3, <3>2, <4>1 DEF UInv, OwedInv
    <3>3. QED BY <3>1, <3>2 DEF Writing
  <2>4. plan'["success"] = <<>> /\ plan'["update"] = <<>>
    BY <1>3, <2>1 DEF UInv, OwedInv, Procs
  <2>5. InSlot(uartOwed)' = InSlot(uartOwed)
    BY <1>2 DEF InSlot
  <2>6. QED BY <1>2, <2>1, <2>2, <2>3, <2>4, <2>5 DEF UInv, OwedInv
<1>8. SameInv'
  <2>1. CASE p = "update"
    BY <1>1, <1>2, <2>1, SameWritten DEF UInv, Writing
  <2>2. CASE p # "update"
    <3>1. plan["update"] = <<>>
      <4>1. SUFFICES ASSUME plan["update"] # <<>> PROVE FALSE
        OBVIOUS
      <4>2. /\ plan["boot"] = <<>> /\ plan["fail"] = <<>>
            /\ \A z \in Places(plan["success"]) : z.it.op \notin Writing
        BY <4>1, UpdateAlone
      <4>3. p = "success"
        BY <1>2, <2>2, <4>2 DEF Up, Procs
      <4>4. QED BY <1>3, <4>2, <4>3 DEF Headed
    <3>2. QED BY <1>3, <3>1, SameNone DEF Procs
  <2>3. QED BY <2>1, <2>2
<1>9. QED BY <1>5, <1>6, <1>7, <1>8 DEF UInv

\* cmdline.txt is rewritten: by a rollback, when config.txt is given back, or
\* by an update, to a slot whose release both copies name.
LEMMA UartPointed ==
  ASSUME TInv, Lives, WInv, UInv, NEW p \in Procs, RewriteCmdline(p)
  PROVE  UInv'
<1>1. PICK h : h = Head(plan[p])
  OBVIOUS
<1>2. /\ Up(p, "cmdline") /\ Done(p) /\ cmdline' = h.slot
      /\ UNCHANGED <<primary, backup, image, running, uartPending, uartOwed>>
  BY <1>1 DEF RewriteCmdline, ghost
<1>3. /\ h.op = "cmdline" /\ running \in Slots
      /\ \A q \in Procs : Shifted(plan[q], plan'[q], {h})
      /\ Headed(plan[p], plan'[p], h)
  BY <1>1, <1>2, MoveFacts
<1>4. PICK y \in Places(plan[p]) : y.it = h /\ y.before = {}
  BY <1>3 DEF Headed
<1>5. uartOwed = None
  <2>1. SUFFICES ASSUME uartOwed # None PROVE FALSE
    OBVIOUS
  <2>2. ~LetsGo(h)
    BY <1>1, <1>2, <2>1, OwedAlone DEF UInv
  <2>3. QED BY <1>3, <2>2 DEF LetsGo
<1>6. OwedInv'
  BY <1>2, <1>5 DEF OwedInv
<1>7. UartInv'
  BY <1>2, UartMoved DEF UInv
<1>8. SameInv'
  <2>1. PICK G : G = {h}
    OBVIOUS
  <2>2. Shifted(plan["update"], plan'["update"], G) /\ \A x \in G : x.op \notin {"flash", "backup", "primary"}
    BY <1>3, <2>1 DEF Procs
  <2>3. QED BY <1>2, <2>2, SameKept DEF UInv
<1>9. Copies' = Copies
  BY <1>2 DEF Copies
<1>10. cmdline' = Inactive(running) /\ \A st \in Copies :
         st.pending = Inactive(running) => st.ver = image[Inactive(running)].ver
  <2>1. Inactive(running) \in Slots /\ Inactive(running) # running /\ None \notin Slots
    BY <1>3, OtherSlot
  <2>2. CASE p \in {"boot", "fail"}
    <3>1. ScriptOp(p, y)
      BY <2>2 DEF WInv, ScriptInv
    <3>2. h.slot = Inactive(running) /\ OnlyOf(running)
      BY <1>3, <1>4, <3>1 DEF ScriptOp
    <3>3. QED BY <1>2, <2>1, <3>2 DEF OnlyOf
  <2>3. CASE p = "success"
    <3>1. SuccessOp(y)
      BY <2>3 DEF WInv, SuccessInv
    <3>2. QED BY <1>3, <1>4, <3>1 DEF SuccessOp
  <2>4. CASE p = "update"
    <3>1. UpdateOp(y)
      BY <2>4 DEF WInv, UpdateInv
    <3>2. h.slot = Inactive(running)
      BY <1>3, <1>4, <3>1 DEF UpdateOp
    <3>3. PICK v \in Versions :
            /\ Some(y.before, "flash") \/ image[Inactive(running)].ver = v
            /\ Some(y.before, "backup") \/ backup.ver = v
            /\ Some(y.before, "primary") \/ primary.ver = v
      BY <1>3, <1>4, <2>4 DEF UInv, SameInv, SameOp
    <3>4. image[Inactive(running)].ver = v /\ backup.ver = v /\ primary.ver = v
      BY <1>4, <3>3 DEF Some
    <3>5. QED BY <1>2, <3>2, <3>4 DEF Copies
  <2>5. QED BY <2>2, <2>3, <2>4 DEF Procs
<1>11. VerInv'
  BY <1>2, <1>9, <1>10 DEF UInv, VerInv
<1>12. QED BY <1>6, <1>7, <1>8, <1>11 DEF UInv

\* The update writes the other slot.
LEMMA UartFlashed ==
  ASSUME TInv, Lives, WInv, UInv, NEW p \in Procs, Erase(p) \/ Flash(p)
  PROVE  UInv'
<1>1. PICK h : h = Head(plan[p])
  OBVIOUS
<1>2. PICK w \in {"erase", "flash"} :
        /\ Up(p, w) /\ Done(p)
        /\ UNCHANGED <<primary, backup, cmdline, running, uartPending, uartOwed>>
        /\ w = "erase" => image' = [image EXCEPT ![h.slot].whole = FALSE]
        /\ w = "flash" => image' = [image EXCEPT ![h.st.slot] = [ver |-> h.st.ver, whole |-> TRUE]]
  <2>1. CASE Erase(p)
    BY <1>1, <2>1 DEF Erase
  <2>2. CASE Flash(p)
    BY <1>1, <2>2 DEF Flash, ghost
  <2>3. QED BY <2>1, <2>2
<1>3. /\ h \in Operation /\ h.op = w /\ running \in Slots
      /\ \A q \in Procs : Shifted(plan[q], plan'[q], {h})
      /\ \A q \in Procs : plan[q] = <<>> => plan'[q] = <<>>
      /\ Headed(plan[p], plan'[p], h) /\ plan[p] # <<>>
  BY <1>1, <1>2, ExecFacts DEF Up
<1>4. PICK y \in Places(plan[p]) : y.it = h /\ y.before = {}
  BY <1>3 DEF Headed
<1>5. p = "update"
  <2>1. CASE p \in {"boot", "fail"}
    <3>1. ScriptOp(p, y)
      BY <2>1 DEF WInv, ScriptInv
    <3>2. QED BY <1>3, <1>4, <3>1 DEF ScriptOp
  <2>2. CASE p = "success"
    <3>1. SuccessOp(y)
      BY <2>2 DEF WInv, SuccessInv
    <3>2. QED BY <1>3, <1>4, <3>1 DEF SuccessOp
  <2>3. QED BY <2>1, <2>2 DEF Procs
<1>6. /\ cmdline = running
      /\ w = "erase" => h.slot = Inactive(running)
      /\ w = "flash" => h.st.slot = Inactive(running)
  <2>1. UpdateOp(y)
    BY <1>5 DEF WInv, UpdateInv
  <2>2. QED BY <1>3, <1>4, <2>1 DEF UpdateOp
<1>7. plan["boot"] = <<>> /\ plan["fail"] = <<>>
  BY <1>3, <1>5, UpdateAlone
<1>8. UartInv'
  BY <1>3, <1>7, ShiftedSame DEF UartInv, Procs
<1>9. OwedInv'
  <2>1. uartOwed = None
    BY <1>3, <1>5 DEF UInv, OwedInv
  <2>2. QED BY <1>2, <2>1 DEF OwedInv
<1>10. PICK new \in Slots : new = Inactive(running) /\ new # running
  BY <1>3, OtherSlot
<1>11. image \in [Slots -> [ver : Versions, whole : BOOLEAN]]
  BY DEF TInv, Stored
<1>12. image'[running] = image[running]
  <2>1. CASE w = "erase"
    BY <1>2, <1>3, <1>6, <1>10, <1>11, <2>1
  <2>2. CASE w = "flash"
    BY <1>2, <1>3, <1>6, <1>10, <1>11, <2>2
  <2>3. QED BY <2>1, <2>2
<1>13. VerInv'
  <2>1. Copies' = Copies
    BY <1>2 DEF Copies
  <2>2. QED BY <1>2, <1>6, <1>12, <2>1 DEF UInv, VerInv
<1>14. SameInv'
  <2>1. CASE w = "erase"
    <3>1. image'[new].ver = image[new].ver
      BY <1>2, <1>6, <1>10, <1>11, <2>1
    <3>2. PICK G : G = {h}
      OBVIOUS
    <3>3. Shifted(plan["update"], plan'["update"], G) /\ \A x \in G : x.op \notin {"flash", "backup", "primary"}
      BY <1>3, <2>1, <3>2 DEF Procs
    <3>4. QED BY <1>2, <1>10, <3>1, <3>3, SameKept DEF UInv
  <2>2. CASE w = "flash"
    <3>1. image'[new].ver = h.st.ver
      BY <1>2, <1>6, <1>10, <1>11, <2>2
    <3>2. QED BY <1>1, <1>2, <1>5, <1>10, <2>2, <3>1, SameWritten DEF UInv
  <2>3. QED BY <2>1, <2>2
<1>15. QED BY <1>8, <1>9, <1>13, <1>14 DEF UInv

\* The machine goes down: whoever owes config.txt is still the one to boot.
LEMMA UartDown ==
  ASSUME UInv, GoDown, UNCHANGED <<cmdline, image, uartPending, uartOwed>>, Copies' \subseteq Copies,
         uartOwed # None => Loaded'.pending = uartOwed
  PROVE  UInv'
<1>1. running' = "off" /\ \A q \in Procs : plan'[q] = <<>>
  BY EmptyPlans DEF GoDown
<1>2. UartInv' /\ SameInv'
  BY <1>1, ShiftedSame DEF UartInv, SameInv, Procs
<1>3. VerInv'
  BY <1>1, VerKept DEF UInv
<1>4. InSlot(uartOwed)' = InSlot(uartOwed)
  BY DEF InSlot
<1>5. OwedInv'
  BY <1>1, <1>4 DEF UInv, OwedInv, Up, Procs
<1>6. QED BY <1>2, <1>3, <1>5 DEF UInv

LEMMA UartRebooted ==
  ASSUME UInv, GoDown, UNCHANGED <<primary, backup, cmdline, image, uartPending, uartOwed>>
  PROVE  UInv'
<1>1. Copies' = Copies /\ Loaded' = Loaded
  BY DEF Copies, Loaded
<1>2. QED BY <1>1, UartDown DEF UInv, OwedInv

LEMMA UartExec ==
  ASSUME TInv, Lives, WInv, UInv, NEW p \in Procs, Exec(p)
  PROVE  UInv'
<1>1. CASE WriteBackup(p) \/ WritePrimary(p)
  BY <1>1, UartWrote
<1>2. CASE Mirror(p)
  BY <1>2, UartOther DEF Mirror, ghost
<1>3. CASE Latch(p)
  BY <1>3, UartOther DEF Latch, disk, ghost
<1>4. CASE Prepare(p)
  BY <1>4, UartOther DEF Prepare, disk, ghost
<1>5. CASE UartRestore(p) \/ UartCommit(p) \/ UartMark(p) \/ UartConfig(p)
  BY <1>5, UartRestored, UartCommitted, UartMarked, UartConfigured
<1>6. CASE RewriteCmdline(p) \/ Erase(p) \/ Flash(p)
  BY <1>6, UartPointed, UartFlashed
<1>7. CASE UartReboot(p)
  <2>1. CASE MayReboot
    BY <1>7, <2>1, UartRebooted DEF UartReboot, ghost
  <2>2. CASE ~MayReboot
    BY <1>7, <2>2, UartOther DEF UartReboot, ghost
  <2>3. QED BY <2>1, <2>2
<1>8. CASE Reboot(p)
  BY <1>8, UartRebooted DEF Reboot, disk, ghost
<1>9. QED BY <1>1, <1>2, <1>3, <1>4, <1>5, <1>6, <1>7, <1>8 DEF Exec

-----------------------------------------------------------------------------
(* The boot configuration in the plans of start and fail.                   *)

\* A place, by its position.
LEMMA PlaceAt ==
  ASSUME NEW s, NEW z \in Places(s)
  PROVE  \E i \in DOMAIN s : z.it = s[i] /\ z.before = Earlier(s, i) /\ z.after = Later(s, i)
BY DEF Places

\* A place of a concatenation is one of its first piece, or one of its second
\* with all of the first before it.
Glued(s, t, z) ==
  \/ \E y \in Places(s) : y.it = z.it /\ y.before = z.before
  \/ \E y \in Places(t) :
       /\ y.it = z.it /\ y.before \subseteq z.before
       /\ ToSet(s) \subseteq z.before /\ z.before \subseteq ToSet(s) \cup y.before

LEMMA GluePlaces ==
  ASSUME NEW s \in Seq(Operation), NEW t \in Seq(Operation), NEW u, u = s \o t, NEW z \in Places(u)
  PROVE  Glued(s, t, z)
<1>1. PICK n \in Nat, m \in Nat : n = Len(s) /\ m = Len(t) /\ DOMAIN s = 1..n /\ DOMAIN t = 1..m
  BY LenProperties
<1>2. /\ \A i \in 1..n : i \in DOMAIN u /\ u[i] = s[i]
      /\ \A k \in 1..m : n + k \in DOMAIN u /\ u[n + k] = t[k]
      /\ \A i \in DOMAIN u : i \in 1..n \/ \E k \in 1..m : i = n + k
  <2>1. /\ s \o t \in Seq(Operation) /\ Len(s) \in Nat /\ Len(t) \in Nat
        /\ \A i \in DOMAIN s : i \in DOMAIN (s \o t) /\ (s \o t)[i] = s[i]
        /\ \A k \in DOMAIN t : Len(s) + k \in DOMAIN (s \o t) /\ (s \o t)[Len(s) + k] = t[k]
        /\ \A i \in DOMAIN (s \o t) : i \in DOMAIN s \/ \E k \in DOMAIN t : i = Len(s) + k
    BY Join
  <2>2. QED BY <1>1, <2>1
<1>3. PICK i \in DOMAIN u : z.it = u[i] /\ z.before = Earlier(u, i)
  BY PlaceAt, Zenon
<1>4. CASE i \in 1..n
  <2>1. PICK y : y = [it |-> s[i], before |-> Earlier(s, i), after |-> Later(s, i)]
    OBVIOUS
  <2>2. y \in Places(s) /\ y.it = z.it
    BY <1>1, <1>2, <1>3, <1>4, <2>1 DEF Places
  <2>3. Earlier(s, i) = Earlier(u, i)
    <3>1. ASSUME NEW j \in 1..n, j < i PROVE s[j] \in Earlier(u, i)
      BY <1>2, <3>1 DEF Earlier
    <3>2. ASSUME NEW j \in DOMAIN u, j < i PROVE u[j] \in Earlier(s, i)
      <4>1. j \in 1..n
        BY <1>2, <1>4, <3>2
      <4>2. QED BY <1>1, <1>2, <3>2, <4>1 DEF Earlier
    <3>3. QED BY <1>1, <3>1, <3>2 DEF Earlier
  <2>4. QED BY <1>3, <2>1, <2>2, <2>3 DEF Glued
<1>5. CASE \E k \in 1..m : i = n + k
  <2>1. PICK k \in 1..m : i = n + k
    BY <1>5
  <2>2. PICK y : y = [it |-> t[k], before |-> Earlier(t, k), after |-> Later(t, k)]
    OBVIOUS
  <2>3. y \in Places(t) /\ y.it = z.it /\ y.before = Earlier(t, k)
    BY <1>1, <1>2, <1>3, <2>1, <2>2 DEF Places
  <2>4. ASSUME NEW j \in 1..m, j < k PROVE t[j] \in Earlier(u, i)
    <3>1. n + j < i
      BY <2>1, <2>4
    <3>2. QED BY <1>2, <3>1 DEF Earlier
  <2>5. ASSUME NEW j \in 1..n PROVE s[j] \in Earlier(u, i)
    <3>1. j < i
      BY <2>1
    <3>2. QED BY <1>2, <3>1 DEF Earlier
  <2>6. ASSUME NEW j \in DOMAIN u, j < i PROVE u[j] \in ToSet(s) \cup Earlier(t, k)
    <3>1. CASE j \in 1..n
      BY <1>1, <1>2, <3>1 DEF ToSet
    <3>2. CASE \E h \in 1..m : j = n + h
      <4>1. PICK h \in 1..m : j = n + h
        BY <3>2
      <4>2. h < k
        BY <2>1, <2>6, <4>1
      <4>3. QED BY <1>1, <1>2, <4>1, <4>2 DEF Earlier
    <3>3. QED BY <1>2, <3>1, <3>2
  <2>7. Earlier(t, k) \subseteq Earlier(u, i)
    BY <1>1, <2>4 DEF Earlier
  <2>8. ToSet(s) \subseteq Earlier(u, i)
    BY <1>1, <2>5 DEF ToSet
  <2>9. Earlier(u, i) \subseteq ToSet(s) \cup Earlier(t, k)
    BY <2>6 DEF Earlier
  <2>10. QED BY <1>3, <2>3, <2>7, <2>8, <2>9 DEF Glued
<1>6. QED BY <1>2, <1>4, <1>5

\* The operation of a place is one of the plan's.
LEMMA PlaceSet ==
  ASSUME NEW s, NEW z \in Places(s)
  PROVE  z.it \in ToSet(s) /\ z.before \subseteq ToSet(s) /\ z.after \subseteq ToSet(s)
BY DEF Places, ToSet, Earlier, Later

\* The undoing: the marker is forgotten after config.txt is given back.
LEMMA RestorePlaces ==
  ASSUME NEW s \in Slots, NEW c \in Candidate, NEW u,
         u = Uart(s, <<Op("uart_restore", c, None), Do("uart_commit")>>), NEW z \in Places(u)
  PROVE  /\ z.it.op \in {"uart_restore", "uart_commit"}
         /\ z.it.op = "uart_restore" => z.it.st = c
         /\ z.it.op = "uart_commit" => Some(z.before, "uart_restore")
<1>1. PICK a, b : a = Op("uart_restore", c, None) /\ b = Do("uart_commit")
  OBVIOUS
<1>2. a.op = "uart_restore" /\ a.st = c /\ b.op = "uart_commit"
  BY <1>1 DEF Op, Do
<1>3. u = <<a, b>>
  <2>1. u = <<a, b>> \/ u = <<>>
    BY <1>1 DEF Uart
  <2>2. QED BY <2>1, ShiftedSame
<1>4. DOMAIN u = 1..2 /\ u[1] = a /\ u[2] = b
  BY <1>3
<1>5. PICK i \in DOMAIN u : z.it = u[i] /\ z.before = Earlier(u, i)
  BY DEF Places
<1>6. i = 1 \/ i = 2
  BY <1>4
<1>7. CASE i = 1
  BY <1>2, <1>4, <1>5, <1>7
<1>8. CASE i = 2
  <2>1. 1 \in DOMAIN u /\ 1 < 2
    BY <1>4
  <2>2. a \in z.before
    BY <1>4, <1>5, <1>8, <2>1 DEF Earlier
  <2>3. QED BY <1>2, <1>4, <1>5, <1>8, <2>2 DEF Some
<1>9. QED BY <1>6, <1>7, <1>8

\* A rollback gives config.txt back, if the image knows of it, before it lets
\* go of the candidate.
LEMMA RollbackUart ==
  ASSUME NEW s \in Slots, NEW st \in BootState, st.pending = s, st.lastGood = Inactive(s), NEW ops,
         ops = RollbackPlan(s, st), NEW z \in Places(ops)
  PROVE  /\ z.it.op \notin {"uart_mark", "uart_config"}
         /\ z.it.op \in Writing /\ z.it.st.pending # None => z.it.st.ver = st.ver
         /\ z.it.op = "uart_restore" => z.it.st = [slot |-> s, ver |-> st.ver]
         /\ LetsGo(z.it) /\ image[s].ver \in Migrating => Some(z.before, "uart_restore")
<1>0. st.lastGood \notin {None, s} /\ st.lastGood \in Slots /\ st.ver \in Versions \cup {None} /\ s # None
  <2>1. Inactive(s) \in Slots /\ Inactive(s) # s /\ None \notin Slots
    BY OtherSlot
  <2>2. st.ver \in Versions \cup {None}
    BY DEF BootState
  <2>3. QED BY <2>1, <2>2
<1>1. PICK rr, idle, back, r1, hue, scrub, la, re, c :
        /\ rr = [st EXCEPT !.status = "rollback_required"]
        /\ idle = State("idle", st.lastGood, None, None, st.ver)
        /\ back = Op("cmdline", None, st.lastGood) /\ c = [slot |-> s, ver |-> st.ver]
        /\ la = Do("latch") /\ hue = Do("hue") /\ scrub = Do("scrub") /\ re = Do("reboot")
        /\ r1 = Uart(s, <<Op("uart_restore", c, None), Do("uart_commit")>>)
  OBVIOUS
<1>2. rr \in BootState /\ idle \in BootState /\ c \in Candidate
  BY <1>0, <1>1, StateFields, StateTypes DEF Statuses, Candidate
<1>3. rr.pending = s /\ rr.ver = st.ver /\ idle.pending = None
  BY <1>1 DEF BootState, State
<1>4. /\ la \in Operation /\ hue \in Operation /\ scrub \in Operation /\ re \in Operation /\ back \in Operation
      /\ la.op = "latch" /\ hue.op = "hue" /\ scrub.op = "scrub" /\ re.op = "reboot" /\ back.op = "cmdline"
  BY <1>0, <1>1 DEF Op, Do, Operation, Writing, Ops, UartOps, MigrateOps
<1>5. PICK s1, s2 : s1 = SaveState(rr) /\ s2 = SaveState(idle)
  OBVIOUS
<1>6. /\ s1 \in Seq(Operation) /\ Formed(s1)
      /\ \A x \in ToSet(s1) : x.op \in {"backup", "primary", "mirror"} /\ x.st = rr
  BY <1>2, <1>5, SaveFacts
<1>7. /\ s2 \in Seq(Operation) /\ Formed(s2)
      /\ \A x \in ToSet(s2) : x.op \in {"backup", "primary", "mirror"} /\ x.st = idle
  BY <1>2, <1>5, SaveFacts
<1>8. PICK l1, h1, m1, e1 : l1 = <<la>> /\ h1 = <<hue, scrub>> /\ m1 = <<back>> /\ e1 = <<re>>
  OBVIOUS
<1>9. /\ l1 \in Seq(Operation) /\ h1 \in Seq(Operation) /\ m1 \in Seq(Operation) /\ e1 \in Seq(Operation)
      /\ ToSet(l1) = {la} /\ ToSet(h1) = {hue, scrub} /\ ToSet(m1) = {back} /\ ToSet(e1) = {re}
  <2>1. l1 \in Seq(Operation) /\ ToSet(l1) = {la}
    BY <1>4, <1>8 DEF ToSet
  <2>2. h1 \in Seq(Operation) /\ ToSet(h1) = {hue, scrub}
    BY <1>4, <1>8 DEF ToSet
  <2>3. m1 \in Seq(Operation) /\ ToSet(m1) = {back}
    BY <1>4, <1>8 DEF ToSet
  <2>4. e1 \in Seq(Operation) /\ ToSet(e1) = {re}
    BY <1>4, <1>8 DEF ToSet
  <2>5. QED BY <2>1, <2>2, <2>3, <2>4
<1>10. r1 \in Seq(Operation)
  BY <1>1, <1>2, RestoreFacts
<1>11. PICK f1 : f1 = l1 \o s1
  OBVIOUS
<1>12. f1 \in Seq(Operation) /\ ToSet(f1) = ToSet(l1) \cup ToSet(s1)
  BY <1>6, <1>9, <1>11, ConcatSet
<1>13. PICK f2 : f2 = f1 \o h1
  OBVIOUS
<1>14. f2 \in Seq(Operation) /\ ToSet(f2) = ToSet(f1) \cup ToSet(h1)
  BY <1>9, <1>12, <1>13, ConcatSet
<1>15. PICK f3 : f3 = f2 \o r1
  OBVIOUS
<1>16. f3 \in Seq(Operation) /\ ToSet(f3) = ToSet(f2) \cup ToSet(r1)
  BY <1>10, <1>14, <1>15, ConcatSet
<1>17. PICK g : g = f3 \o m1
  OBVIOUS
<1>18. g \in Seq(Operation) /\ ToSet(g) = ToSet(f3) \cup ToSet(m1)
  BY <1>9, <1>16, <1>17, ConcatSet
<1>19. PICK t1 : t1 = g \o s2
  OBVIOUS
<1>20. t1 \in Seq(Operation)
  BY <1>7, <1>18, <1>19, ConcatSet
<1>21. ops = t1 \o e1
  BY <1>0, <1>1, <1>5, <1>8, <1>11, <1>13, <1>15, <1>17, <1>19 DEF RollbackPlan
<1>22. image[s].ver \in Migrating => Some(ToSet(f3), "uart_restore")
  <2>1. SUFFICES ASSUME image[s].ver \in Migrating PROVE Some(ToSet(r1), "uart_restore")
    BY <1>16 DEF Some
  <2>2. PICK a, b : a = Op("uart_restore", c, None) /\ b = Do("uart_commit")
    OBVIOUS
  <2>3. r1 = <<a, b>>
    BY <1>1, <2>1, <2>2 DEF Uart
  <2>4. a \in ToSet(r1) /\ a.op = "uart_restore"
    BY <2>2, <2>3 DEF ToSet, Op
  <2>5. QED BY <2>4 DEF Some
<1>23. CASE \E y \in Places(e1) : y.it = z.it
  <2>1. z.it = re
    BY <1>9, <1>23, PlaceSet
  <2>2. QED BY <1>4, <2>1 DEF LetsGo, Writing
<1>24. CASE \E y \in Places(s2) : y.it = z.it /\ ToSet(g) \subseteq z.before
  <2>1. z.it \in ToSet(s2) /\ ToSet(f3) \subseteq z.before
    BY <1>18, <1>24, PlaceSet
  <2>2. z.it.op \in {"backup", "primary", "mirror"} /\ z.it.st.pending = None
    BY <1>3, <1>7, <2>1
  <2>3. QED BY <1>22, <2>1, <2>2 DEF Some
<1>25. CASE \E y \in Places(m1) : y.it = z.it /\ ToSet(f3) \subseteq z.before
  <2>1. z.it = back /\ ToSet(f3) \subseteq z.before
    BY <1>9, <1>25, PlaceSet
  <2>2. QED BY <1>4, <1>22, <2>1 DEF Some, Writing
<1>26. CASE \E y \in Places(r1) : y.it = z.it /\ y.before \subseteq z.before
  <2>1. PICK y \in Places(r1) : y.it = z.it /\ y.before \subseteq z.before
    BY <1>26
  <2>2. /\ y.it.op \in {"uart_restore", "uart_commit"}
        /\ y.it.op = "uart_restore" => y.it.st = c
        /\ y.it.op = "uart_commit" => Some(y.before, "uart_restore")
    BY <1>1, <1>2, RestorePlaces
  <2>3. LetsGo(z.it) => z.it.op = "uart_commit"
    BY <2>1, <2>2 DEF LetsGo, Writing
  <2>4. QED BY <1>1, <2>1, <2>2, <2>3 DEF Some, Writing
<1>27. CASE z.it \in ToSet(f2)
  <2>1. z.it \in {la, hue, scrub} \/ (z.it.op \in {"backup", "primary", "mirror"} /\ z.it.st = rr)
    BY <1>6, <1>9, <1>12, <1>14, <1>27
  <2>2. QED BY <1>0, <1>3, <1>4, <2>1 DEF LetsGo, Writing
<1>28. ASSUME NEW y \in Places(f3), y.it = z.it, y.before = z.before
       PROVE  z.it \in ToSet(f2) \/ \E x \in Places(r1) : x.it = z.it /\ x.before \subseteq z.before
  <2>1. \/ \E x \in Places(f2) : x.it = y.it /\ x.before = y.before
        \/ \E x \in Places(r1) :
             /\ x.it = y.it /\ x.before \subseteq y.before
             /\ ToSet(f2) \subseteq y.before /\ y.before \subseteq ToSet(f2) \cup x.before
    <3>1. Glued(f2, r1, y)
      BY <1>10, <1>14, <1>15, <1>28, GluePlaces
    <3>2. QED BY <3>1 DEF Glued
  <2>2. QED BY <1>28, <2>1, PlaceSet
<1>29. \/ \E y \in Places(t1) : y.it = z.it /\ y.before = z.before
       \/ \E y \in Places(e1) : y.it = z.it
  <2>1. e1 \in Seq(Operation)
    BY <1>9
  <2>2. Glued(t1, e1, z)
    BY <1>20, <1>21, <2>1, GluePlaces
  <2>3. QED BY <2>2 DEF Glued
<1>30. ASSUME NEW y \in Places(t1), y.it = z.it, y.before = z.before
       PROVE  \/ \E x \in Places(g) : x.it = z.it /\ x.before = z.before
              \/ \E x \in Places(s2) : x.it = z.it /\ ToSet(g) \subseteq z.before
  <2>1. \/ \E x \in Places(g) : x.it = y.it /\ x.before = y.before
        \/ \E x \in Places(s2) :
             /\ x.it = y.it /\ x.before \subseteq y.before
             /\ ToSet(g) \subseteq y.before /\ y.before \subseteq ToSet(g) \cup x.before
    <3>1. Glued(g, s2, y)
      BY <1>7, <1>18, <1>19, <1>30, GluePlaces
    <3>2. QED BY <3>1 DEF Glued
  <2>2. QED BY <1>30, <2>1
<1>31. ASSUME NEW y \in Places(g), y.it = z.it, y.before = z.before
       PROVE  \/ \E x \in Places(f3) : x.it = z.it /\ x.before = z.before
              \/ \E x \in Places(m1) : x.it = z.it /\ ToSet(f3) \subseteq z.before
  <2>1. \/ \E x \in Places(f3) : x.it = y.it /\ x.before = y.before
        \/ \E x \in Places(m1) :
             /\ x.it = y.it /\ x.before \subseteq y.before
             /\ ToSet(f3) \subseteq y.before /\ y.before \subseteq ToSet(f3) \cup x.before
    <3>1. m1 \in Seq(Operation) /\ f3 \in Seq(Operation)
      BY <1>9, <1>16
    <3>2. Glued(f3, m1, y)
      BY <1>17, <1>31, <3>1, GluePlaces
    <3>3. QED BY <3>2 DEF Glued
  <2>2. QED BY <1>31, <2>1
<1>32. QED BY <1>23, <1>24, <1>25, <1>26, <1>27, <1>28, <1>29, <1>30, <1>31

\* The migration: on trial the candidate is recorded before config.txt is
\* changed.
LEMMA MigrateUart ==
  ASSUME NEW s \in Slots, NEW st \in BootState, NEW ops, ops = MigratePlan(s, st), NEW z \in Places(ops)
  PROVE  /\ z.it.op \in MigrateOps
         /\ z.it.op = "uart_mark" => st.pending = s /\ z.it.st = [slot |-> s, ver |-> st.ver]
         /\ z.it.op = "uart_config" =>
              /\ image[s].ver \in Migrating
              /\ \A x \in z.before : x.op = "uart_mark"
              /\ st.pending = s => Some(z.before, "uart_mark")
<1>1. PICK a, b, d : /\ a = Op("uart_mark", [slot |-> s, ver |-> st.ver], None)
                     /\ b = Do("uart_config") /\ d = Do("uart_reboot")
  OBVIOUS
<1>2. /\ a \in Operation /\ b \in Operation /\ d \in Operation
      /\ a.op = "uart_mark" /\ b.op = "uart_config" /\ d.op = "uart_reboot"
      /\ a.st = [slot |-> s, ver |-> st.ver]
  <2>1. [slot |-> s, ver |-> st.ver] \in Candidate
    BY DEF BootState, Candidate
  <2>2. QED BY <1>1, <2>1 DEF Op, Do, Operation, Writing, Ops, UartOps, MigrateOps
<1>3. PICK v, w : v = <<a>> /\ w = <<b, d>>
  OBVIOUS
<1>4. v \in Seq(Operation) /\ ToSet(v) = {a}
  BY <1>2, <1>3 DEF ToSet
<1>5. w \in Seq(Operation) /\ DOMAIN w = 1..2 /\ w[1] = b /\ w[2] = d
  BY <1>2, <1>3
<1>6. ASSUME NEW y \in Places(w)
      PROVE  \/ y.it = b /\ y.before = {}
             \/ y.it = d
  <2>1. PICK i \in DOMAIN w : y.it = w[i] /\ y.before = Earlier(w, i)
    BY PlaceAt
  <2>2. i = 1 \/ i = 2
    BY <1>5
  <2>3. Earlier(w, 1) = {}
    BY <1>5 DEF Earlier
  <2>4. QED BY <1>5, <2>1, <2>2, <2>3
<1>7. image[s].ver \in Migrating /\ ops = (IF st.pending = s THEN v ELSE <<>>) \o w
  <2>1. \/ ops = <<>>
        \/ image[s].ver \in Migrating /\ ops = (IF st.pending = s THEN v ELSE <<>>) \o w
    BY <1>1, <1>3 DEF MigratePlan, Uart
  <2>2. QED BY <2>1, ShiftedSame
<1>8. CASE st.pending = s
  <2>1. ops = v \o w
    BY <1>7, <1>8
  <2>2. \/ \E y \in Places(v) : y.it = z.it
        \/ \E y \in Places(w) :
             y.it = z.it /\ ToSet(v) \subseteq z.before /\ z.before \subseteq ToSet(v) \cup y.before
    <3>1. v \in Seq(Operation) /\ w \in Seq(Operation)
      BY <1>4, <1>5
    <3>2. Glued(v, w, z)
      BY <2>1, <3>1, GluePlaces
    <3>3. QED BY <3>2 DEF Glued
  <2>3. CASE \E y \in Places(v) : y.it = z.it
    <3>1. z.it = a
      BY <1>4, <2>3, PlaceSet
    <3>2. QED BY <1>2, <1>8, <3>1 DEF MigrateOps
  <2>4. CASE \E y \in Places(w) :
               y.it = z.it /\ ToSet(v) \subseteq z.before /\ z.before \subseteq ToSet(v) \cup y.before
    <3>1. (z.it = b /\ z.before = {a}) \/ z.it = d
      BY <1>4, <1>6, <2>4
    <3>2. QED BY <1>2, <1>7, <3>1 DEF MigrateOps, Some
  <2>5. QED BY <2>2, <2>3, <2>4
<1>9. CASE st.pending # s
  <2>1. <<>> \o w = w
    BY <1>5, ConcatEmptySeq
  <2>2. ops = w
    BY <1>7, <1>9, <2>1
  <2>3. (z.it = b /\ z.before = {}) \/ z.it = d
    BY <1>6, <2>2
  <2>4. QED BY <1>2, <1>7, <1>9, <2>3 DEF MigrateOps
<1>10. QED BY <1>8, <1>9

\* start of a slot that is on trial for the first time, or not at all.
LEMMA StartUart ==
  ASSUME NEW s \in Slots, NEW st \in BootState, ~TrialFailed(s, st), NEW ops, ops = StartPlan(s, st),
         NEW z \in Places(ops)
  PROVE  /\ z.it.op # "uart_restore"
         /\ z.it.op \in Writing /\ z.it.st.pending # None => st.pending = s /\ z.it.st.ver = st.ver
         /\ z.it.op = "uart_mark" => st.pending = s /\ z.it.st = [slot |-> s, ver |-> st.ver]
         /\ z.it.op = "uart_config" =>
              /\ image[s].ver \in Migrating
              /\ \A x \in z.before : x.op = "uart_mark"
              /\ st.pending = s => Some(z.before, "uart_mark")
         /\ st.pending = s => ~LetsGo(z.it) /\ \A x \in z.after : ~LetsGo(x)
<1>1. PICK m, c, idle, trial :
        /\ m = MigratePlan(s, st) /\ c = Uart(s, <<Do("uart_commit")>>)
        /\ trial = [st EXCEPT !.status = "booting", !.lastGood = IF @ = None THEN s ELSE @]
        /\ idle = State("idle", s, None, None, st.rolled)
  OBVIOUS
<1>2. /\ trial \in BootState /\ trial.pending = st.pending /\ trial.ver = st.ver
      /\ idle \in BootState /\ idle.pending = None /\ s # None
  <2>1. trial \in BootState /\ trial.pending = st.pending /\ trial.ver = st.ver
    BY <1>1 DEF BootState, Statuses
  <2>2. idle \in BootState /\ idle.pending = None
    BY <1>1 DEF BootState, Statuses, State
  <2>3. QED BY <2>1, <2>2, OtherSlot
<1>3. PICK w : w = IF st.pending = s THEN trial ELSE idle
  OBVIOUS
<1>4. /\ w \in BootState /\ (st.pending # s => w.pending = None)
      /\ (st.pending = s => w.pending = s /\ w.ver = st.ver)
  BY <1>2, <1>3
<1>5. PICK v : v = SaveState(w)
  OBVIOUS
<1>6. /\ v \in Seq(Operation) /\ Formed(v)
      /\ \A x \in ToSet(v) : x.op \in {"backup", "primary", "mirror"} /\ x.st = w
  BY <1>4, <1>5, SaveFacts
<1>7. m \in Seq(Operation) /\ Formed(m) /\ \A x \in ToSet(m) : x.op \in MigrateOps
  BY <1>1, MigrateFacts
<1>8. c \in Seq(Operation) /\ Formed(c) /\ \A x \in ToSet(c) : x.op = "uart_commit"
  BY <1>1, CommitFacts
<1>9. PICK y : y = IF st.pending = s THEN v ELSE v \o c
  OBVIOUS
<1>10. v \o c \in Seq(Operation) /\ ToSet(v \o c) = ToSet(v) \cup ToSet(c)
  BY <1>6, <1>8, ConcatSet
<1>11. /\ y \in Seq(Operation)
       /\ \A x \in ToSet(y) : \/ x.op \in {"backup", "primary", "mirror"} /\ x.st = w
                              \/ x.op = "uart_commit" /\ st.pending # s
  BY <1>6, <1>8, <1>9, <1>10
<1>12. ops = m \o y /\ ToSet(m \o y) = ToSet(m) \cup ToSet(y)
  <2>1. ops = m \o y
    BY <1>1, <1>3, <1>5, <1>9 DEF StartPlan
  <2>2. QED BY <1>7, <1>11, <2>1, ConcatSet
<1>13. ASSUME st.pending = s, NEW x \in ToSet(ops) PROVE ~LetsGo(x)
  <2>1. x.op \in MigrateOps \/ (x.op \in {"backup", "primary", "mirror"} /\ x.st = w)
    BY <1>7, <1>11, <1>12, <1>13
  <2>2. QED BY <1>2, <1>4, <1>13, <2>1 DEF LetsGo, MigrateOps, Writing
<1>14. z.it \in ToSet(ops) /\ z.after \subseteq ToSet(ops)
  BY PlaceSet
<1>15. \/ \E x \in Places(m) : x.it = z.it /\ x.before = z.before
       \/ \E x \in Places(y) : x.it = z.it
  BY <1>7, <1>11, <1>12, GluePlaces DEF Glued
<1>16. CASE \E x \in Places(m) : x.it = z.it /\ x.before = z.before
  <2>1. PICK x \in Places(m) : x.it = z.it /\ x.before = z.before
    BY <1>16
  <2>2. /\ x.it.op \in MigrateOps
        /\ x.it.op = "uart_mark" => st.pending = s /\ x.it.st = [slot |-> s, ver |-> st.ver]
        /\ x.it.op = "uart_config" =>
             /\ image[s].ver \in Migrating
             /\ \A e \in x.before : e.op = "uart_mark"
             /\ st.pending = s => Some(x.before, "uart_mark")
    BY <1>1, MigrateUart
  <2>3. z.it.op # "uart_restore" /\ z.it.op \notin Writing
    BY <2>1, <2>2 DEF MigrateOps, Writing
  <2>4. QED BY <1>13, <1>14, <2>1, <2>2, <2>3
<1>17. CASE \E x \in Places(y) : x.it = z.it
  <2>1. z.it \in ToSet(y)
    BY <1>17, PlaceSet
  <2>2. \/ z.it.op \in {"backup", "primary", "mirror"} /\ z.it.st = w
        \/ z.it.op = "uart_commit" /\ st.pending # s
    BY <1>11, <2>1
  <2>3. z.it.op \notin {"uart_restore", "uart_mark", "uart_config"}
    BY <2>2
  <2>4. QED BY <1>4, <1>13, <1>14, <2>2, <2>3 DEF Writing
<1>18. QED BY <1>15, <1>16, <1>17

\* The rollback that start or fail plans for the candidate it runs on: it is
\* this candidate's, and config.txt is given back if it is owed.
LEMMA RollbackFits ==
  ASSUME TInv, Lives, WInv, UInv, NEW s \in Slots, s \in {cmdline, running}, Loaded.pending = s,
         uartOwed # None => uartOwed = s, NEW z \in Places(RollbackPlan(s, Loaded))
  PROVE  /\ z.it.op \notin {"uart_mark", "uart_config"}
         /\ z.it.op \in Writing /\ z.it.st.pending # None => z.it.st.ver = image[s].ver
         /\ z.it.op = "uart_restore" => z.it.st = InSlot(s)
         /\ LetsGo(z.it) => uartOwed = None \/ Some(z.before, "uart_restore")
<1>1. PICK st : st = Loaded
  OBVIOUS
<1>2. st \in BootState /\ st \in Copies
  BY <1>1, LoadedCopy
<1>3. st.lastGood = Inactive(s) /\ st.ver = image[s].ver
  <2>1. SoundState(st)
    BY <1>2 DEF WInv, DiskInv
  <2>2. QED BY <1>1, <1>2, <2>1, OtherSlot DEF SoundState, UInv, VerInv
<1>4. PICK ops : ops = RollbackPlan(s, st)
  OBVIOUS
<1>5. z \in Places(ops)
  BY <1>1, <1>4
<1>6. /\ z.it.op \notin {"uart_mark", "uart_config"}
      /\ z.it.op \in Writing /\ z.it.st.pending # None => z.it.st.ver = st.ver
      /\ z.it.op = "uart_restore" => z.it.st = [slot |-> s, ver |-> st.ver]
      /\ LetsGo(z.it) /\ image[s].ver \in Migrating => Some(z.before, "uart_restore")
  BY <1>1, <1>2, <1>3, <1>4, <1>5, RollbackUart
<1>7. uartOwed # None => image[s].ver \in Migrating
  BY DEF UInv, OwedInv
<1>8. QED BY <1>3, <1>6, <1>7 DEF InSlot

LEMMA UartPowerOn ==
  ASSUME TInv, Lives, WInv, UInv, PowerOn
  PROVE  UInv'
<1>1. PICK s, st, ops : s = cmdline /\ st = Loaded /\ ops = StartPlan(s, st)
  OBVIOUS
<1>2. /\ st \in Copies /\ st \in BootState /\ s \in Slots /\ s # None
  BY <1>1, LoadedCopy
<1>3. /\ running' = s /\ running = "off" /\ cmdline = s
      /\ UNCHANGED <<primary, backup, cmdline, image, uartPending, uartOwed>>
  BY <1>1 DEF PowerOn, ghost
<1>4. \A q \in Procs : plan[q] = <<>>
  BY <1>3, EmptyPlans DEF TInv, OffIdle
<1>5. plan'["boot"] = ops /\ \A q \in Procs : q # "boot" => plan'[q] = <<>>
  <2>1. plan' = [plan EXCEPT !["boot"] = ops] /\ DOMAIN plan = Procs
    BY <1>1 DEF PowerOn, TInv, Planned
  <2>2. QED BY <1>4, <2>1 DEF Procs
<1>6. Loaded' = st /\ Copies' = Copies /\ InSlot(running)' = InSlot(s)
  BY <1>1, <1>3 DEF Loaded, Copies, InSlot
<1>7. VerInv'
  BY <1>3, <1>6, VerKept DEF UInv
<1>8. SameInv'
  BY <1>5, SameNone DEF Procs
<1>9. \A q \in Procs : ~Up(q, "primary")'
  <2>1. ~Up("boot", "primary")'
    <3>1. ops # <<>> => ops[1].op # "primary" /\ Head(ops) = ops[1]
      <4>1. CASE TrialFailed(s, st)
        <5>1. st.lastGood = Inactive(s)
          <6>1. SoundState(st) /\ st.pending = s
            BY <1>2, <4>1 DEF WInv, DiskInv, TrialFailed
          <6>2. QED BY <1>2, <6>1 DEF SoundState
        <5>2. ops = RollbackPlan(s, st)
          BY <1>1, <4>1 DEF StartPlan
        <5>3. ops \in Seq(Operation) /\ Formed(ops)
          BY <1>2, <5>1, <5>2, RollbackFacts
        <5>4. QED BY <5>3, FormedOrdered
      <4>2. CASE ~TrialFailed(s, st)
        <5>1. PICK w : /\ st.pending = s =>
                            w = [st EXCEPT !.status = "booting", !.lastGood = IF @ = None THEN s ELSE @]
                       /\ st.pending # s => w = State("idle", s, None, None, st.rolled)
          OBVIOUS
        <5>2. ops \in Seq(Operation) /\ Formed(ops)
          BY <1>1, <1>2, <4>2, <5>1, StartFacts
        <5>3. QED BY <5>2, FormedOrdered
      <4>3. QED BY <4>1, <4>2
    <3>2. QED BY <1>5, <3>1 DEF Up
  <2>2. QED BY <1>5, <2>1 DEF Up
<1>10. OwedInv'
  <2>1. plan'["success"] = <<>> /\ plan'["update"] = <<>>
    BY <1>5 DEF Procs
  <2>2. QED BY <1>3, <1>9, <2>1, OwedKept DEF UInv
<1>11. uartOwed # None => uartOwed = s /\ st.pending = s
  BY <1>1 DEF UInv, OwedInv
<1>12. st.pending = s => st.ver = image[s].ver
  BY <1>1, <1>2 DEF UInv, VerInv
<1>13. ASSUME NEW z \in Places(ops) PROVE UartOp("boot", z)'
  <2>1. \A o : LetsGo(o)' <=> LetsGo(o)
    BY DEF LetsGo
  <2>2. CASE TrialFailed(s, st)
    <3>1. z \in Places(RollbackPlan(s, Loaded)) /\ Loaded.pending = s
      BY <1>1, <2>2 DEF StartPlan, TrialFailed
    <3>2. /\ z.it.op \notin {"uart_mark", "uart_config"}
          /\ z.it.op \in Writing /\ z.it.st.pending # None => z.it.st.ver = image[s].ver
          /\ z.it.op = "uart_restore" => z.it.st = InSlot(s)
          /\ LetsGo(z.it) => uartOwed = None \/ Some(z.before, "uart_restore")
      BY <1>1, <1>2, <1>11, <3>1, RollbackFits
    <3>3. QED BY <1>3, <1>6, <2>1, <3>2 DEF UartOp
  <2>3. CASE ~TrialFailed(s, st)
    <3>1. /\ z.it.op # "uart_restore"
          /\ z.it.op \in Writing /\ z.it.st.pending # None => st.pending = s /\ z.it.st.ver = st.ver
          /\ z.it.op = "uart_mark" => st.pending = s /\ z.it.st = [slot |-> s, ver |-> st.ver]
          /\ z.it.op = "uart_config" =>
               /\ image[s].ver \in Migrating
               /\ \A x \in z.before : x.op = "uart_mark"
               /\ st.pending = s => Some(z.before, "uart_mark")
          /\ st.pending = s => ~LetsGo(z.it) /\ \A x \in z.after : ~LetsGo(x)
      BY <1>1, <1>2, <2>3, StartUart
    <3>2. z.it.op = "uart_mark" => z.it.st = InSlot(s)
      BY <1>12, <3>1 DEF InSlot
    <3>3. QED BY <1>3, <1>6, <1>11, <1>12, <2>1, <3>1, <3>2 DEF UartOp
  <2>4. QED BY <2>2, <2>3
<1>14. UartInv'
  BY <1>5, <1>13, ShiftedSame DEF UartInv, Procs
<1>15. QED BY <1>7, <1>8, <1>10, <1>14 DEF UInv

LEMMA UartFailBegin ==
  ASSUME TInv, Lives, WInv, UInv, FailBegin
  PROVE  UInv'
<1>1. PICK s, st, ops : /\ s = running /\ st = Loaded
                        /\ ops = IF st.pending = s THEN RollbackPlan(s, st) ELSE <<>>
  OBVIOUS
<1>2. st \in Copies /\ st \in BootState /\ None \notin Slots /\ "off" \notin Slots
  BY <1>1, LoadedCopy
<1>3. /\ srv = "exited" /\ plan' = [plan EXCEPT !["fail"] = ops]
      /\ UNCHANGED <<primary, backup, cmdline, image, running, uartPending, uartOwed>>
  BY <1>1 DEF FailBegin, disk, ghost
<1>4. s \in Slots
  BY <1>1, <1>2, <1>3 DEF TInv, OffIdle, Stored
<1>5. plan'["fail"] = ops /\ \A q \in Procs : q # "fail" => plan'[q] = plan[q]
  <2>1. DOMAIN plan = Procs
    BY DEF TInv, Planned
  <2>2. QED BY <1>3, <2>1 DEF Procs
<1>6. plan'["boot"] = <<>> /\ plan'["update"] = <<>> /\ plan'["success"] = plan["success"]
  BY <1>3, <1>5 DEF Lives, Procs
<1>7. VerInv'
  <2>1. Copies' = Copies
    BY <1>3 DEF Copies
  <2>2. QED BY <1>3, <2>1, VerKept DEF UInv
<1>8. ~Up("fail", "primary")'
  <2>1. CASE st.pending = s
    <3>1. st.lastGood = Inactive(s)
      <4>1. SoundState(st)
        BY <1>2 DEF WInv, DiskInv
      <4>2. QED BY <1>2, <1>4, <2>1, <4>1 DEF SoundState
    <3>2. ops \in Seq(Operation) /\ Formed(ops)
      BY <1>1, <1>2, <1>4, <2>1, <3>1, RollbackFacts
    <3>3. ops # <<>> => ops[1].op # "primary" /\ Head(ops) = ops[1]
      BY <3>2, FormedOrdered
    <3>4. QED BY <1>5, <3>3 DEF Up
  <2>2. CASE st.pending # s
    BY <1>1, <1>5, <2>2 DEF Up
  <2>3. QED BY <2>1, <2>2
<1>9. OwedInv'
  <2>1. \A q \in Procs : Up(q, "primary")' => Up(q, "primary")
    BY <1>5, <1>8 DEF Up
  <2>2. uartOwed # None => plan'["success"] = <<>> /\ plan'["update"] = <<>>
    BY <1>6 DEF UInv, OwedInv
  <2>3. QED BY <1>3, <2>1, <2>2, OwedKept DEF UInv
<1>10. uartOwed # None => uartOwed = s
  BY <1>1, <1>2, <1>4 DEF UInv, OwedInv
<1>11. ASSUME NEW z \in Places(ops) PROVE UartOp("fail", z)'
  <2>1. st.pending = s
    BY <1>1, ShiftedSame
  <2>2. z \in Places(RollbackPlan(s, Loaded))
    BY <1>1, <2>1
  <2>3. /\ z.it.op \notin {"uart_mark", "uart_config"}
        /\ z.it.op \in Writing /\ z.it.st.pending # None => z.it.st.ver = image[s].ver
        /\ z.it.op = "uart_restore" => z.it.st = InSlot(s)
        /\ LetsGo(z.it) => uartOwed = None \/ Some(z.before, "uart_restore")
    BY <1>1, <1>4, <1>10, <2>1, <2>2, RollbackFits
  <2>4. InSlot(running)' = InSlot(s) /\ (LetsGo(z.it)' <=> LetsGo(z.it))
    BY <1>1, <1>3 DEF InSlot, LetsGo
  <2>5. QED BY <1>1, <1>3, <2>3, <2>4 DEF UartOp
<1>12. UartInv'
  BY <1>5, <1>6, <1>11, ShiftedSame DEF UartInv
<1>13. SameInv'
  BY <1>6, SameNone
<1>14. QED BY <1>7, <1>9, <1>12, <1>13 DEF UInv

\* A plan is dropped, or nothing happens to the plans.
LEMMA UartQuiet ==
  ASSUME TInv, UInv,
         UNCHANGED <<primary, backup, cmdline, image, running, uartPending, uartOwed, unmarked>>,
         \A q \in Procs : plan'[q] = plan[q] \/ (plan'[q] = <<>> /\ q = "update")
  PROVE  UInv'
<1>1. plan'["boot"] = plan["boot"] /\ plan'["fail"] = plan["fail"]
  BY DEF Procs
<1>2. Loaded' = Loaded /\ InSlot(running)' = InSlot(running) /\ \A o : LetsGo(o)' <=> LetsGo(o)
  BY DEF Loaded, InSlot, LetsGo
<1>3. ASSUME NEW q \in {"boot", "fail"}, NEW z \in Places(plan[q]) PROVE UartOp(q, z)'
  <2>1. UartOp(q, z)
    BY DEF UInv, UartInv
  <2>2. QED BY <1>2, <2>1 DEF UartOp
<1>4. UartInv'
  BY <1>1, <1>3 DEF UartInv
<1>5. VerInv'
  <2>1. Copies' = Copies
    BY DEF Copies
  <2>2. QED BY <2>1, VerKept DEF UInv
<1>6. OwedInv'
  <2>1. \A q \in Procs : Up(q, "primary")' => Up(q, "primary")
    BY DEF Up
  <2>2. uartOwed # None => plan'["success"] = <<>> /\ plan'["update"] = <<>>
    BY DEF UInv, OwedInv, Procs
  <2>3. QED BY <2>1, <2>2, OwedKept DEF UInv
<1>7. SameInv'
  <2>1. PICK G : G = {}
    OBVIOUS
  <2>2. Shifted(plan["update"], plan'["update"], G)
    BY ShiftedSame DEF Procs
  <2>3. QED BY <2>1, <2>2, SameKept DEF UInv
<1>8. QED BY <1>4, <1>5, <1>6, <1>7 DEF UInv

\* The candidate is accepted: what it changed is its own.
LEMMA UartAccepted ==
  ASSUME TInv, Lives, WInv, UInv, MarkSuccess
  PROVE  UInv'
<1>1. PICK ops : ops = SuccessPlan(running, Loaded)
  OBVIOUS
<1>2. /\ srv = "up" /\ uartOwed' = None /\ plan' = [plan EXCEPT !["success"] = ops]
      /\ UNCHANGED <<primary, backup, cmdline, image, running, uartPending>>
  BY <1>1 DEF MarkSuccess, disk
<1>3. DOMAIN plan = Procs
  BY DEF TInv, Planned
<1>4. /\ plan'["update"] = plan["update"] /\ plan'["fail"] = plan["fail"] /\ plan'["boot"] = plan["boot"]
      /\ plan["boot"] = <<>> /\ plan["fail"] = <<>>
  BY <1>2, <1>3 DEF Lives, Procs
<1>5. OwedInv'
  BY <1>2 DEF OwedInv
<1>6. VerInv'
  <2>1. Copies' = Copies
    BY <1>2 DEF Copies
  <2>2. QED BY <1>2, <2>1, VerKept DEF UInv
<1>7. UartInv'
  BY <1>4, ShiftedSame DEF UartInv
<1>8. SameInv'
  <2>1. PICK G : G = {}
    OBVIOUS
  <2>2. Shifted(plan["update"], plan'["update"], G)
    BY <1>4, ShiftedSame
  <2>3. QED BY <1>2, <2>1, <2>2, SameKept DEF UInv
<1>9. QED BY <1>5, <1>6, <1>7, <1>8 DEF UInv

\* An update is of one release.
LEMMA UpdateUart ==
  ASSUME NEW s \in Slots, NEW v \in Versions, NEW ops, ops = UpdatePlan(s, v), NEW z \in Places(ops),
         z.it.op = "cmdline"
  PROVE  /\ \A x \in z.before : x.op \in Writing \cup {"flash"} => x.st.ver = v
         /\ Some(z.before, "flash") /\ Some(z.before, "backup") /\ Some(z.before, "primary")
<1>1. PICK w : w = State("pending", s, Inactive(s), v, None)
  OBVIOUS
<1>2. /\ DOMAIN ops = 1..6
      /\ ops[1].op = "erase"
      /\ ops[2].op = "flash" /\ ops[2].st = [slot |-> Inactive(s), ver |-> v]
      /\ ops[3].op = "backup" /\ ops[3].st = w
      /\ ops[4].op = "primary" /\ ops[4].st = w
      /\ ops[5].op = "cmdline"
      /\ ops[6].op = "reboot"
  BY <1>1, UpdateFacts
<1>3. w.ver = v
  BY <1>1 DEF State
<1>4. PICK i \in DOMAIN ops : z.it = ops[i] /\ z.before = Earlier(ops, i)
  BY DEF Places
<1>5. i = 5
  BY <1>2, <1>4
<1>6. Earlier(ops, 5) = {ops[1], ops[2], ops[3], ops[4]}
  <2>1. {k \in DOMAIN ops : k < 5} = {1, 2, 3, 4}
    BY <1>2
  <2>2. QED BY <2>1 DEF Earlier
<1>7. QED BY <1>2, <1>3, <1>4, <1>5, <1>6 DEF Some, Writing

LEMMA UartBeginUpdate ==
  ASSUME TInv, Lives, WInv, UInv, ~ApplyWhilePending, NEW v \in Versions, BeginUpdate(v)
  PROVE  UInv'
<1>1. PICK s, ops : s = running /\ ops = UpdatePlan(s, v)
  OBVIOUS
<1>2. /\ srv = "up" /\ Loaded.pending = None /\ cmdline = s
      /\ plan' = [plan EXCEPT !["update"] = ops]
      /\ UNCHANGED <<primary, backup, cmdline, image, running, uartPending, uartOwed>>
  BY <1>1 DEF BeginUpdate, Settled, disk, ghost
<1>3. s \in Slots
  BY <1>2, LoadedCopy
<1>4. DOMAIN plan = Procs
  BY DEF TInv, Planned
<1>5. /\ plan'["update"] = ops /\ plan'["fail"] = plan["fail"] /\ plan'["boot"] = plan["boot"]
      /\ plan["boot"] = <<>> /\ plan["fail"] = <<>>
  BY <1>2, <1>4 DEF Lives, Procs
<1>6. OwedInv'
  <2>1. uartOwed = None
    BY <1>2, OtherSlot DEF UInv, OwedInv, TInv, Stored
  <2>2. QED BY <1>2, <2>1 DEF OwedInv
<1>7. VerInv'
  <2>1. Copies' = Copies
    BY <1>2 DEF Copies
  <2>2. QED BY <1>2, <2>1, VerKept DEF UInv
<1>8. UartInv'
  BY <1>5, ShiftedSame DEF UartInv
<1>9. ASSUME NEW z \in Places(ops), z.it.op = "cmdline" PROVE SameOp(z)'
  <2>1. /\ \A x \in z.before : x.op \in Writing \cup {"flash"} => x.st.ver = v
        /\ Some(z.before, "flash") /\ Some(z.before, "backup") /\ Some(z.before, "primary")
    BY <1>1, <1>3, <1>9, UpdateUart
  <2>2. QED BY <2>1 DEF SameOp
<1>10. SameInv'
  <2>1. \A z \in Places(ops) : SameOp(z)'
    BY <1>9 DEF SameOp
  <2>2. QED BY <1>5, <2>1 DEF SameInv
<1>11. QED BY <1>6, <1>7, <1>8, <1>10 DEF UInv

\* An operation on the configuration that fails takes the whole migration
\* with it.
LEMMA MigrationGivenUp ==
  ASSUME TInv, UartInv, NEW s, s = plan["boot"], s # <<>>, Tolerated(Head(s)), NEW k, k = GivenUp(Head(s)),
         NEW t, Dropped(s, k, t), NEW z \in Places(t)
  PROVE  z.it.op # "uart_config"
<1>1. SUFFICES ASSUME z.it.op = "uart_config" PROVE FALSE
  OBVIOUS
<1>2. s \in Seq(Operation) /\ Ordered(s) /\ t \in Seq(Operation)
  BY DEF TInv, Planned, Procs, Dropped
<1>3. PICK n \in Nat, m \in Nat : DOMAIN s = 1..n /\ n # 0 /\ DOMAIN t = 1..m
  BY <1>2, EmptySeq, LenProperties
<1>4. 1 \in DOMAIN s /\ Head(s) = s[1] /\ k \in {1, 2, 3}
  BY <1>2, <1>3 DEF GivenUp
<1>5. PICK i \in 1..m : z.it = t[i]
  BY <1>3, PlaceAt
<1>6. PICK j \in Nat : j = i + k
  BY <1>4
<1>7. j \in DOMAIN s /\ t[i] = s[j]
  BY <1>3, <1>6 DEF Dropped
<1>8. PICK y : y = [it |-> s[j], before |-> Earlier(s, j), after |-> Later(s, j)]
  OBVIOUS
<1>9. y \in Places(plan["boot"]) /\ y.it.op = "uart_config" /\ y.before = Earlier(s, j)
  BY <1>1, <1>5, <1>7, <1>8 DEF Places
<1>10. \A x \in Earlier(s, j) : x.op = "uart_mark"
  <2>1. UartOp("boot", y)
    BY <1>9 DEF UartInv
  <2>2. QED BY <1>9, <2>1 DEF UartOp
<1>11. s[1].op = "uart_mark"
  <2>1. 1 < j
    BY <1>4, <1>6
  <2>2. QED BY <1>4, <1>10, <2>1 DEF Earlier
<1>12. k = 3
  BY <1>4, <1>11 DEF GivenUp
<1>13. 2 \in DOMAIN s /\ s[2].op = "uart_config"
  <2>1. 1 + 1 \in DOMAIN s /\ s[1 + 1].op = "uart_config"
    BY <1>2, <1>4, <1>11 DEF Ordered
  <2>2. 1 + 1 = 2
    OBVIOUS
  <2>3. QED BY <2>1, <2>2
<1>14. 2 < j
  BY <1>6, <1>12
<1>15. s[2] \in Earlier(s, j)
  BY <1>13, <1>14 DEF Earlier
<1>16. QED BY <1>10, <1>13, <1>15

\* A marker or a count that fails to be written, and a reboot that fails.
LEMMA UartUnnoticed ==
  ASSUME TInv, Lives, UInv, NEW p \in Procs, UartMarkLost(p) \/ UartRebootFails(p)
  PROVE  UInv'
<1>1. CASE UartMarkLost(p)
  BY <1>1, UartMarking DEF UartMarkLost
<1>2. CASE UartRebootFails(p)
  <2>1. CASE GoDown
    BY <1>2, <2>1, UartRebooted DEF UartRebootFails
  <2>2. CASE Done(p) /\ UNCHANGED <<running, latch, srv, config>>
    BY <1>2, <2>2, UartOther DEF UartRebootFails
  <2>3. QED BY <1>2, <2>1, <2>2 DEF UartRebootFails
<1>3. QED BY <1>1, <1>2

LEMMA UartOpFails ==
  ASSUME TInv, Lives, WInv, UInv, NEW p \in Procs, OpFails(p)
  PROVE  UInv'
<1>1. PICK s, t, h : s = plan[p] /\ t = plan'[p] /\ h = Head(s)
  OBVIOUS
<1>2. s \in Seq(Operation) /\ Ordered(s) /\ s # <<>> /\ h.op \in Fallible
  BY <1>1 DEF TInv, Planned, OpFails
<1>3. /\ UNCHANGED <<primary, backup, cmdline, image, running, uartPending, unmarked>>
      /\ uartOwed' = IF h.op = "uart_restore" THEN None ELSE uartOwed
  BY <1>1 DEF OpFails, disk
<1>4. /\ t = AfterFailure(p)
      /\ \A q \in Procs : q # p => plan'[q] = plan[q] \/ (plan'[q] = <<>> /\ q = "update")
  BY <1>1 DEF OpFails
<1>5. VerInv'
  <2>1. Copies' = Copies
    BY <1>3 DEF Copies
  <2>2. QED BY <1>3, <2>1, VerKept DEF UInv
<1>6. InSlot(running)' = InSlot(running) /\ Loaded' = Loaded /\ \A o : LetsGo(o)' <=> LetsGo(o)
  BY <1>3 DEF InSlot, Loaded, LetsGo
<1>7. CASE Tolerated(h)
  <2>1. uartOwed' = None \/ (uartOwed' = uartOwed /\ h.op # "uart_restore")
    BY <1>3
  <2>2. PICK k \in {1, 2, 3} : k = GivenUp(h)
    BY DEF GivenUp
  <2>3. t = SubSeq(s, GivenUp(Head(s)) + 1, Len(s))
    BY <1>1, <1>4, <1>7 DEF AfterFailure
  <2>4. /\ Dropped(s, GivenUp(Head(s)), SubSeq(s, GivenUp(Head(s)) + 1, Len(s)))
        /\ \A x \in Earlier(s, GivenUp(Head(s)) + 1) :
             x.op \in UartOps /\ (Head(s).op # "uart_restore" => x.op # "uart_restore")
    BY <1>1, <1>2, <1>7, DroppedFailed
  <2>5. /\ Dropped(s, k, t)
        /\ \A x \in Earlier(s, k + 1) : x.op \in UartOps /\ (h.op # "uart_restore" => x.op # "uart_restore")
    BY <1>1, <2>2, <2>3, <2>4
  <2>6. PICK G : G = Earlier(s, k + 1)
    OBVIOUS
  <2>7. \A q \in Procs : Shifted(plan[q], plan'[q], G)
    <3>1. Shifted(s, t, G)
      BY <2>5, <2>6, ShiftedDropped
    <3>2. QED BY <1>1, <1>4, <3>1, ShiftedSame
  <2>8. \A x \in G : x.op \notin {"flash", "backup", "primary"}
    BY <2>5, <2>6 DEF UartOps, MigrateOps
  <2>9. SameInv'
    BY <1>3, <2>7, <2>8, SameKept DEF UInv, Procs
  <2>10. OwedInv'
    <3>1. ASSUME NEW q \in Procs, Up(q, "primary")' PROVE Up(q, "primary")
      <4>1. CASE q # p
        BY <1>4, <3>1, <4>1 DEF Up
      <4>2. CASE q = p
        <5>1. t # <<>> /\ Head(t).op = "primary"
          BY <1>1, <3>1, <4>2 DEF Up
        <5>2. t \in Seq(Operation) /\ k \in Nat /\ k > 0
          BY <2>2, <2>5 DEF Dropped
        <5>3. \E x \in Earlier(s, k + 1) : x.op = "backup"
          BY <1>2, <2>5, <5>1, <5>2, AfterBackup
        <5>4. QED BY <2>6, <2>8, <5>3
      <4>3. QED BY <4>1, <4>2
    <3>2. uartOwed # None => plan'["success"] = <<>> /\ plan'["update"] = <<>>
      BY <1>1, <1>2, <1>4 DEF UInv, OwedInv, Procs
    <3>3. QED BY <1>3, <2>1, <3>1, <3>2, OwedKept DEF UInv
  <2>11. ASSUME NEW q \in {"boot", "fail"}, NEW z \in Places(plan'[q]) PROVE UartOp(q, z)'
    <3>1. PICK y \in Places(plan[q]) : y.it = z.it /\ y.before \subseteq z.before \cup G
      BY <2>7 DEF Shifted, Procs
    <3>2. UartOp(q, y)
      BY DEF UInv, UartInv
    <3>3. z.it.op # "uart_config"
      <4>1. SUFFICES ASSUME z.it.op = "uart_config" PROVE FALSE
        OBVIOUS
      <4>2. q = "boot"
        BY <3>1, <3>2, <4>1 DEF UartOp
      <4>3. plan["boot"] # <<>>
        BY <3>1, <4>2, ShiftedSame
      <4>4. p = "boot"
        BY <1>1, <1>2, <4>3, BootAlone DEF Procs
      <4>5. s = plan["boot"] /\ z \in Places(t)
        BY <1>1, <4>2, <4>4
      <4>6. k = GivenUp(Head(s)) /\ Tolerated(Head(s))
        BY <1>1, <1>7, <2>2
      <4>7. QED BY <1>2, <2>5, <4>1, <4>5, <4>6, MigrationGivenUp DEF UInv
    <3>4. LetsGo(z.it) => uartOwed' = None \/ Some(z.before, "uart_restore")
      <4>1. uartOwed' # None => \A x \in G : x.op # "uart_restore"
        BY <2>1, <2>5, <2>6
      <4>2. QED BY <2>1, <3>1, <3>2, <4>1 DEF UartOp, Some
    <3>5. QED BY <1>3, <1>6, <3>1, <3>2, <3>3, <3>4 DEF UartOp
  <2>12. QED BY <1>5, <2>10, <2>9, <2>11 DEF UInv, UartInv
<1>8. CASE ~Tolerated(h) /\ p = "update" /\ h.op = "cmdline"
  <2>1. uartOwed = None /\ uartOwed' = None
    BY <1>1, <1>2, <1>3, <1>8 DEF UInv, OwedInv
  <2>2. OwedInv'
    BY <2>1 DEF OwedInv
  <2>3. plan'["boot"] = plan["boot"] /\ plan'["fail"] = plan["fail"]
    BY <1>4, <1>8 DEF Procs
  <2>4. ASSUME NEW q \in {"boot", "fail"}, NEW z \in Places(plan[q]) PROVE UartOp(q, z)'
    <3>1. UartOp(q, z)
      BY DEF UInv, UartInv
    <3>2. QED BY <1>3, <1>6, <2>1, <3>1 DEF UartOp
  <2>5. UartInv'
    BY <2>3, <2>4 DEF UartInv
  <2>6. PICK st : st = State("idle", running, None, None, None)
    OBVIOUS
  <2>7. st \in BootState
    <3>1. running \in Slots
      BY <1>1, <1>2, AfterFailureFacts
    <3>2. QED BY <2>6, <3>1, StateTypes DEF Statuses
  <2>8. \A x \in ToSet(WriteBoth(st)) : x.op \in {"backup", "primary"}
    BY <2>7, SaveFacts
  <2>9. plan'["update"] = WriteBoth(st)
    BY <1>1, <1>4, <1>8, <2>6 DEF AfterFailure
  <2>10. SameInv'
    BY <2>8, <2>9, PlaceSet DEF SameInv, SameOp
  <2>11. QED BY <1>5, <2>2, <2>5, <2>10 DEF UInv
<1>9. CASE ~Tolerated(h) /\ ~(p = "update" /\ h.op = "cmdline")
  <2>1. t = <<>> /\ uartOwed' = uartOwed
    BY <1>1, <1>3, <1>4, <1>9 DEF AfterFailure, Tolerated, UartOps, MigrateOps
  <2>2. \A q \in Procs : plan'[q] = plan[q] \/ plan'[q] = <<>>
    BY <1>1, <1>4, <2>1
  <2>3. ASSUME NEW q \in {"boot", "fail"}, NEW z \in Places(plan'[q]) PROVE UartOp(q, z)'
    <3>1. z \in Places(plan[q])
      BY <2>2, ShiftedSame DEF Procs
    <3>2. UartOp(q, z)
      BY <3>1 DEF UInv, UartInv
    <3>3. QED BY <1>3, <1>6, <2>1, <3>2 DEF UartOp
  <2>4. SameInv'
    <3>1. PICK G : G = {}
      OBVIOUS
    <3>2. Shifted(plan["update"], plan'["update"], G)
      BY <2>2, ShiftedSame DEF Procs
    <3>3. QED BY <1>3, <3>1, <3>2, SameKept DEF UInv
  <2>5. OwedInv'
    <3>1. \A q \in Procs : Up(q, "primary")' => Up(q, "primary")
      BY <2>2 DEF Up
    <3>2. uartOwed # None => plan'["success"] = <<>> /\ plan'["update"] = <<>>
      BY <2>2 DEF UInv, OwedInv, Procs
    <3>3. QED BY <1>3, <2>1, <3>1, <3>2, OwedKept DEF UInv
  <2>6. QED BY <1>5, <2>3, <2>4, <2>5 DEF UInv, UartInv
<1>10. QED BY <1>7, <1>8, <1>9

\* Whichever copy a power loss tears, the other names the candidate that owes
\* config.txt.
LEMMA UartPowerLoss ==
  ASSUME TInv, WInv, UInv, MaxTears <= 1, PowerLoss
  PROVE  UInv'
<1>1. GoDown /\ UNCHANGED <<cmdline, image, uartPending, uartOwed>>
  BY DEF PowerLoss
<1>2. PICK torn \in {{}} \cup {{f} : f \in Exposed \cap {"backup", "primary"}} :
        /\ tears + Cardinality(torn) <= MaxTears
        /\ backup' = IF "backup" \in torn THEN Bad ELSE backup
        /\ primary' = IF "primary" \in torn THEN Bad ELSE primary
  BY DEF PowerLoss
<1>3. tears \in Nat /\ MaxTears \in Nat
  BY BoundAssumption DEF TInv, Stored
<1>4. CASE torn = {}
  BY <1>1, <1>2, <1>4, UartRebooted
<1>5. CASE torn = {"backup"}
  <2>1. Cardinality(torn) = 1
    BY <1>5, FS_Singleton
  <2>2. tears = 0
    BY <1>2, <1>3, <2>1
  <2>3. primary # Bad /\ primary' = primary /\ backup' = Bad
    BY <1>2, <1>5, <2>2 DEF WInv, DiskInv
  <2>4. Copies' \subseteq Copies /\ Loaded' = Loaded
    BY <2>3 DEF Copies, Loaded
  <2>5. QED BY <1>1, <2>4, UartDown DEF UInv, OwedInv
<1>6. CASE torn = {"primary"}
  <2>1. primary' = Bad /\ backup' = backup
    BY <1>2, <1>6
  <2>2. PICK p \in Procs : Up(p, "primary")
    BY <1>6 DEF Exposed, Up
  <2>3. backup # Bad /\ (uartOwed # None => backup.pending = uartOwed)
    BY <2>2 DEF UInv, OwedInv, WInv, TearInv
  <2>4. Copies' \subseteq Copies /\ Loaded' = backup
    BY <2>1, <2>3 DEF Copies, Loaded
  <2>5. QED BY <1>1, <2>3, <2>4, UartDown
<1>7. QED BY <1>4, <1>5, <1>6

LEMMA UartStep ==
  ASSUME ~ApplyWhilePending, MaxTears <= 1
  PROVE  TInv /\ Lives /\ WInv /\ UInv /\ [Next]_vars => UInv'
<1>1. SUFFICES ASSUME TInv, Lives, WInv, UInv, [Next]_vars PROVE UInv'
  OBVIOUS
<1>2. DOMAIN plan = Procs
  BY <1>1 DEF TInv, Planned
<1>3. CASE PowerOn
  BY <1>1, <1>3, UartPowerOn
<1>4. CASE Launch \/ Respawn
  BY <1>1, <1>4, UartQuiet DEF Launch, Respawn, disk, ghost
<1>5. CASE MarkSuccess
  BY <1>1, <1>5, UartAccepted
<1>6. CASE RefuseSuccess \/ ServerExit
  <2>1. /\ UNCHANGED <<primary, backup, cmdline, image, running, uartPending, uartOwed, unmarked>>
        /\ \A q \in Procs : plan'[q] = plan[q] \/ (plan'[q] = <<>> /\ q = "update")
    BY <1>2, <1>6 DEF RefuseSuccess, ServerExit, disk, ghost
  <2>2. QED BY <1>1, <2>1, UartQuiet
<1>7. CASE FailBegin
  BY <1>1, <1>7, UartFailBegin
<1>8. ASSUME NEW v \in Versions, AutoUpdate(v) \/ ManualUpdate(v) PROVE UInv'
  <2>1. BeginUpdate(v)
    BY <1>8 DEF AutoUpdate, ManualUpdate
  <2>2. QED BY <1>1, <2>1, UartBeginUpdate
<1>9. ASSUME NEW p \in Procs, Exec(p) \/ OpFails(p) \/ UartMarkLost(p) \/ UartRebootFails(p) PROVE UInv'
  BY <1>1, <1>9, UartExec, UartOpFails, UartUnnoticed
<1>10. CASE PowerLoss
  BY <1>1, <1>10, UartPowerLoss
<1>11. CASE UNCHANGED vars
  <2>1. /\ UNCHANGED <<primary, backup, cmdline, image, running, uartPending, uartOwed, unmarked>>
        /\ \A q \in Procs : plan'[q] = plan[q] \/ (plan'[q] = <<>> /\ q = "update")
    BY <1>11 DEF vars, disk, system, ghost
  <2>2. QED BY <1>1, <2>1, UartQuiet
<1>12. QED BY <1>1, <1>3, <1>4, <1>5, <1>6, <1>7, <1>8, <1>9, <1>10, <1>11 DEF Next

\* Under the same two conditions the boot configuration a candidate has changed
\* is given back before the machine is pointed away from it, across any number
\* of boots and failures, unless the candidate is accepted, the giving back
\* itself fails, or the marker of the migration cannot be written.
THEOREM ConfigGivenBack ==
  ASSUME ~ApplyWhilePending, MaxTears <= 1
  PROVE  Spec => []UartGivenBack
<1>1. Init => TInv /\ Lives /\ WInv /\ UInv
  BY TypeInit, WayInit, UartInit
<1>2. TInv /\ Lives /\ WInv /\ UInv /\ [Next]_vars => (TInv /\ Lives /\ WInv /\ UInv)'
  BY TypeStep, LivesStep, WayStep, UartStep
<1>3. TInv /\ Lives /\ WInv /\ UInv => UartGivenBack
  BY UInvGivenBack
<1>4. QED BY <1>1, <1>2, <1>3, PTL DEF Spec
=============================================================================
