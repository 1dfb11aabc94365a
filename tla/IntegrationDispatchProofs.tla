--------------------- MODULE IntegrationDispatchProofs ----------------------
(***************************************************************************)
(* The inductive invariant of IntegrationDispatch, for every set of calls  *)
(* and commands, every capacity and any number of streams, and what        *)
(* follows from it: the marks are given back exactly once and not before   *)
(* the outcomes, and the component implements DispatchPromise.             *)
(*                                                                         *)
(* The argument follows an outcome on its way: what is in the ring, in the *)
(* channel or among the early outcomes has been published (Evidence), so   *)
(* the commands a dispatch no longer waits for have ended (Accounted); the *)
(* tables lead every outcome to the one dispatch that waits for it, which  *)
(* needs the command sets of calls to be disjoint.                         *)
(***************************************************************************)
EXTENDS IntegrationDispatch, TLAPS, FiniteSetTheorems, SequenceTheorems

\* The events of the channel that tell of nothing but published outcomes.
Published == {e \in Events : e.kind = "outcome" => e.command \in finished}

\* Whatever carries an outcome, the daemon has published it.
Evidence ==
  /\ ring \in Seq(finished \cup {Report})
  /\ channel \in Seq(Published)
  /\ \A k \in early : k[2] \in finished

\* A dispatch has been told of a failure, or waits for all of its commands
\* that have not ended.
Accounted ==
  \A c \in Calls :
    /\ remaining[c] \subseteq CommandsOf[c]
    /\ stage[c] # "done" => remaining[c] = {} /\ c \notin told
    /\ c \in told => remaining[c] = {}
    /\ stage[c] = "done" /\ c \notin told => CommandsOf[c] \ remaining[c] \subseteq finished

IInv == TypeOK /\ IsFiniteSet(early) /\ Evidence /\ Accounted /\ TablesAgree /\ ReleasedOnce

-----------------------------------------------------------------------------
(* The sequences.                                                           *)

\* Publishing keeps the ring within its capacity, and made of S.
LEMMA PublishFacts ==
  ASSUME NEW S, NEW e \in S, ring \in Seq(S), Len(ring) <= EventCapacity,
         nextSequence \in Nat \ {0}, Publish(e)
  PROVE  ring' \in Seq(S) /\ Len(ring') <= EventCapacity /\ nextSequence' \in Nat \ {0}
<1>0. EventCapacity \in Nat \ {0}
  BY CapacityAssumption
<1>1. Len(ring) \in Nat
  BY LenProperties
<1>2. CASE Full
  <2>1. Len(ring) # 0
    BY <1>0, <1>1, <1>2 DEF Full
  <2>2. ring # <<>>
    BY <2>1, EmptySeq
  <2>3. Tail(ring) \in Seq(S) /\ Len(Tail(ring)) = Len(ring) - 1
    BY <2>2, HeadTailProperties
  <2>4. Append(Tail(ring), e) \in Seq(S) /\ Len(Append(Tail(ring), e)) = Len(Tail(ring)) + 1
    BY <2>3, AppendProperties
  <2>5. ring' = Append(Tail(ring), e) /\ nextSequence' = nextSequence + 1
    BY <1>2 DEF Publish
  <2>6. QED BY <1>0, <1>1, <2>3, <2>4, <2>5
<1>3. CASE ~Full
  <2>1. Append(ring, e) \in Seq(S) /\ Len(Append(ring, e)) = Len(ring) + 1
    BY AppendProperties
  <2>2. ring' = Append(ring, e) /\ nextSequence' = nextSequence + 1
    BY <1>3 DEF Publish
  <2>3. Len(ring) < EventCapacity
    BY <1>0, <1>1, <1>3 DEF Full
  <2>4. QED BY <1>0, <1>1, <2>1, <2>2, <2>3
<1>4. QED BY <1>2, <1>3

\* What a poll returns comes from the ring.
LEMMA UnseenFacts ==
  ASSUME NEW S, ring \in Seq(S), nextSequence \in Nat \ {0},
         cursor.sequence \in Nat
  PROVE  Unseen \in Seq(S)
<1>0. Len(ring) \in Nat /\ Oldest \in Int
  BY LenProperties DEF Oldest
<1>1. CASE Changed
  BY <1>1 DEF Unseen
<1>2. CASE ~Changed
  <2>1. PICK skip : skip = IF Gap THEN 0 ELSE cursor.sequence + 1 - Oldest
    OBVIOUS
  <2>2. skip \in Int /\ skip >= 0
    <3>1. CASE Gap
      BY <2>1, <3>1
    <3>2. CASE ~Gap
      <4>1. ~(cursor.sequence + 1 < Oldest)
        BY <1>2, <3>2 DEF Gap
      <4>2. QED BY <1>0, <2>1, <3>2, <4>1
    <3>3. QED BY <3>1, <3>2
  <2>3. \A i \in (skip + 1)..Len(ring) : ring[i] \in S
    <3>1. ASSUME NEW i \in (skip + 1)..Len(ring) PROVE ring[i] \in S
      <4>1. i \in 1..Len(ring)
        BY <1>0, <2>2
      <4>2. QED BY <4>1, ElementOfSeq
    <3>2. QED BY <3>1
  <2>4. SubSeq(ring, skip + 1, Len(ring)) \in Seq(S)
    <3>1. skip + 1 \in Int /\ Len(ring) \in Int
      BY <1>0, <2>2
    <3>2. QED BY <2>3, <3>1, SubSeqProperties
  <2>5. Unseen = SubSeq(ring, skip + 1, Len(ring))
    BY <1>2, <2>1 DEF Unseen
  <2>6. QED BY <2>4, <2>5
<1>3. QED BY <1>1, <1>2

\* What a poll sends tells of published outcomes only.
LEMMA PollFacts ==
  ASSUME TypeOK, Evidence, Poll
  PROVE  channel' \in Seq(Published)
<1> DEFINE trans == [i \in DOMAIN Unseen |-> Translated(stream, Unseen[i])]
<1>1. Unseen \in Seq(finished \cup {Report})
  BY UnseenFacts DEF TypeOK, Evidence
<1>2. Len(Unseen) \in Nat /\ DOMAIN Unseen = 1..Len(Unseen)
  BY <1>1, LenProperties
<1>3. ASSUME NEW i \in 1..Len(Unseen) PROVE Translated(stream, Unseen[i]) \in Published
  <2>1. Unseen[i] \in finished \cup {Report}
    BY <1>1, ElementOfSeq
  <2>2. stream \in Streams /\ finished \subseteq Commands
    BY DEF TypeOK
  <2>3. CASE Unseen[i] = Report
    BY <2>2, <2>3 DEF Translated, Reported, Published, Events
  <2>4. CASE Unseen[i] # Report
    BY <2>1, <2>2, <2>4 DEF Translated, Outcome, Published, Events
  <2>5. QED BY <2>3, <2>4
<1>4. trans \in [1..Len(Unseen) -> Published]
  BY <1>2, <1>3
<1>5. trans \in Seq(Published)
  BY <1>2, <1>4
<1>6. Notice \in Seq(Published)
  <2>1. Gap \in BOOLEAN
    BY DEF Gap
  <2>2. Reset(stream, Gap) \in Published
    <3>1. stream \in Streams
      BY DEF TypeOK
    <3>2. QED BY <2>1, <3>1 DEF Reset, Published, Events
  <2>3. <<Reset(stream, Gap)>> \in Seq(Published) /\ <<>> \in Seq(Published)
    BY <2>2
  <2>4. QED BY <2>3 DEF Notice
<1>7. channel \in Seq(Published)
  BY DEF Evidence
<1>8. channel \o Notice \in Seq(Published)
  BY <1>6, <1>7, ConcatProperties
<1>9. (channel \o Notice) \o trans \in Seq(Published)
  BY <1>5, <1>8, ConcatProperties
<1>10. channel' = (channel \o Notice) \o trans
  BY DEF Poll
<1>11. QED BY <1>9, <1>10

-----------------------------------------------------------------------------
(* Each action preserves the invariant.                                     *)

\* The initial states satisfy the invariant.
LEMMA InitIInv == Init => IInv
<1> SUFFICES ASSUME Init PROVE IInv
  OBVIOUS
<1>0. 1 \in Streams /\ EventCapacity \in Nat /\ EarlyCapacity \in Nat
  BY CapacityAssumption DEF Streams
<1>1. TypeOK
  <2>1. Len(<<>>) = 0 /\ \A S : <<>> \in Seq(S)
    BY EmptySeq
  <2>2. Cardinality({}) = 0
    BY FS_EmptySet
  <2>3. DOMAIN owner = {}
    BY DEF Init
  <2>4. owner \in [DOMAIN owner -> Calls]
    BY <2>3 DEF Init
  <2>5. reports \in 0..MaxReports
    BY CapacityAssumption DEF Init
  <2>6. QED BY <1>0, <2>1, <2>2, <2>3, <2>4, <2>5 DEF Init, TypeOK
<1>2. IsFiniteSet(early)
  BY FS_EmptySet DEF Init
<1>3. Evidence
  BY EmptySeq DEF Init, Evidence
<1>4. Accounted
  BY DEF Init, Accounted
<1>5. TablesAgree
  <2>1. DOMAIN owner = {} /\ \A c \in Calls : remaining[c] = {}
    BY DEF Init
  <2>2. QED BY <2>1 DEF TablesAgree
<1>6. ReleasedOnce
  BY DEF Init, ReleasedOnce
<1>7. QED BY <1>1, <1>2, <1>3, <1>4, <1>5, <1>6 DEF IInv

\* What follows when neither the tables nor the marks change.
LEMMA TablesKept ==
  ASSUME TablesAgree, ReleasedOnce, UNCHANGED <<tables, marks, stage, receipt>>
  PROVE  TablesAgree' /\ ReleasedOnce'
<1>1. TablesAgree'
  BY DEF tables, TablesAgree
<1>2. ReleasedOnce'
  BY DEF tables, marks, ReleasedOnce
<1>3. QED BY <1>1, <1>2

\* More outcomes published leave the accounts in order.
LEMMA AccountsGrow ==
  ASSUME Accounted, finished \subseteq finished', UNCHANGED <<remaining, stage, told>>
  PROVE  Accounted'
BY DEF Accounted

\* What is already on its way stays published.
LEMMA PublishedGrows ==
  ASSUME finished \subseteq finished', channel \in Seq(Published)
  PROVE  channel \in Seq(Published')
<1>1. Published \subseteq Published'
  BY DEF Published, Events
<1>2. QED BY <1>1, SeqMonotonic

\* A published outcome keeps it.
LEMMA FinishIInv ==
  ASSUME IInv, NEW m \in Commands, Finish(m)
  PROVE  IInv'
<1>0. TypeOK /\ Evidence /\ Accounted /\ TablesAgree /\ ReleasedOnce /\ IsFiniteSet(early)
  BY DEF IInv
<1>1. /\ open' = open \ {m} /\ finished' = finished \cup {m} /\ Publish(m)
      /\ UNCHANGED <<stream, reports, cursor, channel, stage, receipt, remaining, owner, early,
                    released, told>>
  BY DEF Finish, poller, tables, marks
<1>2. /\ ring' \in Seq(Commands \cup {Report}) /\ Len(ring') <= EventCapacity
      /\ nextSequence' \in Nat \ {0}
  BY <1>0, <1>1, PublishFacts DEF TypeOK
<1>3. passedOver' \subseteq Calls
  BY <1>0, <1>1 DEF Publish, TypeOK
<1>4. TypeOK'
  BY <1>0, <1>1, <1>2, <1>3 DEF TypeOK
<1>5. ring' \in Seq(finished' \cup {Report})
  <2>1. ring \in Seq(finished' \cup {Report})
    BY <1>0, <1>1, SeqMonotonic DEF Evidence
  <2>2. QED BY <1>0, <1>1, <2>1, PublishFacts DEF TypeOK
<1>6. Evidence'
  <2>1. channel' \in Seq(Published')
    BY <1>0, <1>1, PublishedGrows DEF Evidence
  <2>2. QED BY <1>0, <1>1, <1>5, <2>1 DEF Evidence
<1>7. Accounted'
  BY <1>0, <1>1, AccountsGrow
<1>8. TablesAgree' /\ ReleasedOnce'
  BY <1>0, <1>1, TablesKept DEF tables, marks
<1>9. QED BY <1>0, <1>1, <1>4, <1>6, <1>7, <1>8 DEF IInv

\* An event of another kind keeps it.
LEMMA ReportIInv ==
  ASSUME IInv, PublishReport
  PROVE  IInv'
<1>0. TypeOK /\ Evidence /\ Accounted /\ TablesAgree /\ ReleasedOnce /\ IsFiniteSet(early)
  BY DEF IInv
<1>1. /\ reports < MaxReports /\ reports' = reports + 1 /\ Publish(Report)
      /\ UNCHANGED <<stream, open, finished, cursor, channel, stage, receipt, remaining, owner,
                    early, released, told>>
  BY DEF PublishReport, poller, tables, marks
<1>2. /\ ring' \in Seq(Commands \cup {Report}) /\ Len(ring') <= EventCapacity
      /\ nextSequence' \in Nat \ {0}
  <2>1. Report \in Commands \cup {Report}
    OBVIOUS
  <2>2. /\ ring \in Seq(Commands \cup {Report}) /\ Len(ring) <= EventCapacity
        /\ nextSequence \in Nat \ {0}
    BY <1>0 DEF TypeOK
  <2>3. QED BY <1>1, <2>1, <2>2, PublishFacts
<1>3. passedOver' \subseteq Calls
  BY <1>0, <1>1 DEF Publish, TypeOK
<1>4. reports' \in 0..MaxReports
  BY <1>0, <1>1, CapacityAssumption DEF TypeOK
<1>5. TypeOK'
  BY <1>0, <1>1, <1>2, <1>3, <1>4 DEF TypeOK
<1>6. ring' \in Seq(finished \cup {Report})
  BY <1>0, <1>1, PublishFacts DEF TypeOK, Evidence
<1>7. Evidence'
  BY <1>0, <1>1, <1>6, PublishedGrows DEF Evidence
<1>8. Accounted'
  BY <1>0, <1>1, AccountsGrow
<1>9. TablesAgree' /\ ReleasedOnce'
  BY <1>0, <1>1, TablesKept DEF tables, marks
<1>10. QED BY <1>0, <1>1, <1>5, <1>7, <1>8, <1>9 DEF IInv

\* A new process of the daemon keeps it.
LEMMA RestartIInv ==
  ASSUME IInv, Restart
  PROVE  IInv'
<1>0. TypeOK /\ Evidence /\ Accounted /\ TablesAgree /\ ReleasedOnce /\ IsFiniteSet(early)
  BY DEF IInv
<1>1. /\ stream < MaxStreams /\ stream' = stream + 1
      /\ open' = {} /\ ring' = <<>> /\ nextSequence' = 1
      /\ UNCHANGED <<finished, reports, cursor, channel, stage, receipt, remaining, owner, early,
                    released, told, passedOver>>
  BY DEF Restart, poller, tables, marks
<1>2. stream' \in Streams
  BY <1>0, <1>1, CapacityAssumption DEF TypeOK, Streams
<1>3. Len(<<>>) <= EventCapacity /\ \A S : <<>> \in Seq(S)
  BY CapacityAssumption, EmptySeq
<1>4. TypeOK'
  BY <1>0, <1>1, <1>2, <1>3 DEF TypeOK
<1>5. Evidence'
  BY <1>0, <1>1, <1>3, PublishedGrows DEF Evidence
<1>6. Accounted'
  BY <1>0, <1>1, AccountsGrow
<1>7. TablesAgree' /\ ReleasedOnce'
  BY <1>0, <1>1, TablesKept DEF tables, marks
<1>8. QED BY <1>0, <1>1, <1>4, <1>5, <1>6, <1>7 DEF IInv

\* A poll keeps it.
LEMMA PollIInv ==
  ASSUME IInv, Poll
  PROVE  IInv'
<1>0. TypeOK /\ Evidence /\ Accounted /\ TablesAgree /\ ReleasedOnce /\ IsFiniteSet(early)
  BY DEF IInv
<1>1. /\ cursor' = [stream |-> stream, sequence |-> nextSequence - 1]
      /\ UNCHANGED <<stream, open, ring, nextSequence, finished, reports, stage, receipt, remaining,
                    owner, early, released, told, passedOver>>
  BY DEF Poll, daemon, tables, marks
<1>2. channel' \in Seq(Published)
  BY <1>0, PollFacts
<1>3. channel' \in Seq(Events)
  <2>1. Published \subseteq Events
    BY DEF Published
  <2>2. QED BY <1>2, <2>1, SeqMonotonic
<1>4. cursor' \in [stream : Streams, sequence : Nat]
  BY <1>0, <1>1 DEF TypeOK
<1>5. TypeOK'
  BY <1>0, <1>1, <1>3, <1>4 DEF TypeOK
<1>6. Evidence'
  <2>1. Published' = Published
    BY <1>1 DEF Published, Events
  <2>2. QED BY <1>0, <1>1, <1>2, <2>1 DEF Evidence
<1>7. Accounted'
  BY <1>0, <1>1, AccountsGrow
<1>8. TablesAgree' /\ ReleasedOnce'
  BY <1>0, <1>1, TablesKept DEF tables, marks
<1>9. QED BY <1>0, <1>1, <1>5, <1>6, <1>7, <1>8 DEF IInv

\* An accepted call keeps it.
LEMMA AcceptIInv ==
  ASSUME IInv, NEW c \in Calls, Accept(c)
  PROVE  IInv'
<1>0. TypeOK /\ Evidence /\ Accounted /\ TablesAgree /\ ReleasedOnce /\ IsFiniteSet(early)
  BY DEF IInv
<1>1. /\ stage[c] = "idle" /\ stage' = [stage EXCEPT ![c] = "receipt"]
      /\ receipt' = [receipt EXCEPT ![c] = stream] /\ open' = open \cup CommandsOf[c]
      /\ UNCHANGED <<stream, ring, nextSequence, finished, reports, cursor, channel, remaining,
                    owner, early, released, told, passedOver>>
  BY DEF Accept, poller, tables, marks
<1>2. TypeOK'
  <2>1. CommandsOf[c] \subseteq Commands
    BY CallAssumption
  <2>2. open' \subseteq Commands
    BY <1>0, <1>1, <2>1 DEF TypeOK
  <2>3. stage' \in [Calls -> {"idle", "receipt", "done"}] /\ receipt' \in [Calls -> Streams]
    BY <1>0, <1>1 DEF TypeOK
  <2>4. QED BY <1>0, <1>1, <2>2, <2>3 DEF TypeOK
<1>3. Evidence'
  BY <1>0, <1>1, PublishedGrows DEF Evidence
<1>4. remaining[c] = {} /\ c \notin told
  BY <1>0, <1>1 DEF Accounted
<1>5. \A d \in Calls : stage'[d] = IF d = c THEN "receipt" ELSE stage[d]
  BY <1>0, <1>1 DEF TypeOK
<1>6. Accounted'
  BY <1>0, <1>1, <1>4, <1>5 DEF Accounted
<1>7. TablesAgree'
  <2>1. \A d \in Calls : {receipt'[d]} \X remaining'[d] = {receipt[d]} \X remaining[d]
    <3>1. ASSUME NEW d \in Calls PROVE {receipt'[d]} \X remaining'[d] = {receipt[d]} \X remaining[d]
      <4>1. CASE d = c
        BY <1>1, <1>4, <4>1
      <4>2. CASE d # c
        BY <1>0, <1>1, <4>2 DEF TypeOK
      <4>3. QED BY <4>1, <4>2
    <3>2. QED BY <3>1
  <2>2. \A k \in DOMAIN owner : owner[k] \in Calls
    BY <1>0 DEF TypeOK
  <2>3. QED BY <1>0, <1>1, <2>1, <2>2 DEF TablesAgree
<1>8. ReleasedOnce'
  BY <1>0, <1>1, <1>5 DEF ReleasedOnce
<1>9. QED BY <1>0, <1>1, <1>2, <1>3, <1>6, <1>7, <1>8 DEF IInv

\* A failed call keeps it.
LEMMA CallFailsIInv ==
  ASSUME IInv, NEW c \in Calls, CallFails(c)
  PROVE  IInv'
<1>0. TypeOK /\ Evidence /\ Accounted /\ TablesAgree /\ ReleasedOnce /\ IsFiniteSet(early)
  BY DEF IInv
<1>1. /\ stage[c] \in {"idle", "receipt"} /\ stage' = [stage EXCEPT ![c] = "done"]
      /\ told' = told \cup {c} /\ Release({c})
      /\ UNCHANGED <<stream, open, ring, nextSequence, finished, reports, cursor, channel, receipt,
                    remaining, owner, early, passedOver>>
  BY DEF CallFails, daemon, poller, tables
<1>2. /\ \A d \in Calls : stage'[d] = IF d = c THEN "done" ELSE stage[d]
      /\ stage' \in [Calls -> {"idle", "receipt", "done"}]
  BY <1>0, <1>1 DEF TypeOK
<1>3. /\ \A d \in Calls : released'[d] = IF d = c THEN released[d] + 1 ELSE released[d]
      /\ released' \in [Calls -> Nat]
  BY <1>0, <1>1 DEF TypeOK, Release
<1>4. TypeOK'
  BY <1>0, <1>1, <1>2, <1>3 DEF TypeOK
<1>5. Evidence'
  BY <1>0, <1>1, PublishedGrows DEF Evidence
<1>6. remaining[c] = {} /\ c \notin told
  BY <1>0, <1>1 DEF Accounted
<1>7. Accounted'
  BY <1>0, <1>1, <1>2, <1>6 DEF Accounted
<1>8. TablesAgree'
  BY <1>0, <1>1 DEF TablesAgree
<1>9. ReleasedOnce'
  <2>1. released[c] = 0
    BY <1>0, <1>1 DEF ReleasedOnce
  <2>2. QED BY <1>0, <1>1, <1>2, <1>3, <1>6, <2>1 DEF ReleasedOnce
<1>10. QED BY <1>0, <1>1, <1>4, <1>5, <1>7, <1>8, <1>9 DEF IInv

\* A registered receipt, with its early outcomes, keeps it.
LEMMA RegisterIInv ==
  ASSUME IInv, NEW c \in Calls, Register(c)
  PROVE  IInv'
<1> DEFINE new == {receipt[c]} \X Left(c)
<1>0. TypeOK /\ Evidence /\ Accounted /\ TablesAgree /\ ReleasedOnce /\ IsFiniteSet(early)
  BY DEF IInv
<1>1. /\ stage[c] = "receipt" /\ stage' = [stage EXCEPT ![c] = "done"]
      /\ early' = early \ KeysOf(c)
      /\ remaining' = [remaining EXCEPT ![c] = Left(c)]
      /\ owner' = [k \in DOMAIN owner \cup new |-> IF k \in new THEN c ELSE owner[k]]
      /\ Release(IF Left(c) = {} THEN {c} ELSE {})
      /\ UNCHANGED <<stream, open, ring, nextSequence, finished, reports, cursor, channel, receipt,
                    told, passedOver>>
  BY DEF Register, daemon, poller
<1>2. /\ Left(c) \subseteq CommandsOf[c] /\ CommandsOf[c] \subseteq Commands
      /\ receipt[c] \in Streams
  BY <1>0, CallAssumption DEF Left, TypeOK
<1>3. new \subseteq Keys
  BY <1>2 DEF Keys
<1>4. /\ \A d \in Calls : stage'[d] = IF d = c THEN "done" ELSE stage[d]
      /\ stage' \in [Calls -> {"idle", "receipt", "done"}]
  BY <1>0, <1>1 DEF TypeOK
<1>5. /\ \A d \in Calls : remaining'[d] = IF d = c THEN Left(c) ELSE remaining[d]
      /\ remaining' \in [Calls -> SUBSET Commands]
  BY <1>0, <1>1, <1>2 DEF TypeOK
<1>6. /\ \A d \in Calls : released'[d] = IF d = c /\ Left(c) = {} THEN released[d] + 1
                                          ELSE released[d]
      /\ released' \in [Calls -> Nat]
  BY <1>0, <1>1 DEF TypeOK, Release
<1>7. /\ DOMAIN owner' = DOMAIN owner \cup new
      /\ \A k \in DOMAIN owner' : owner'[k] = IF k \in new THEN c ELSE owner[k]
  BY <1>1
<1>8. IsFiniteSet(early') /\ Cardinality(early') <= EarlyCapacity /\ early' \subseteq early
  <2>1. early' \in SUBSET early
    BY <1>1
  <2>2. IsFiniteSet(early') /\ Cardinality(early') <= Cardinality(early)
    BY <1>0, <2>1, FS_Subset
  <2>3. Cardinality(early') \in Nat /\ Cardinality(early) \in Nat
    BY <1>0, <2>2, FS_CardinalityType
  <2>4. Cardinality(early) <= EarlyCapacity /\ EarlyCapacity \in Nat
    BY <1>0, CapacityAssumption DEF TypeOK
  <2>5. QED BY <2>1, <2>2, <2>3, <2>4
<1>9. TypeOK'
  <2>1. DOMAIN owner' \subseteq Keys
    BY <1>0, <1>3, <1>7 DEF TypeOK
  <2>2. \A k \in DOMAIN owner' : owner'[k] \in Calls
    BY <1>0, <1>7 DEF TypeOK
  <2>3. owner' \in [DOMAIN owner' -> Calls]
    BY <1>1, <1>7, <2>2
  <2>4. early' \subseteq Keys
    BY <1>0, <1>8 DEF TypeOK
  <2>5. QED BY <1>0, <1>1, <1>4, <1>5, <1>6, <1>8, <2>1, <2>3, <2>4 DEF TypeOK
<1>10. Evidence'
  BY <1>0, <1>1, <1>8, PublishedGrows DEF Evidence
<1>11. remaining[c] = {} /\ c \notin told /\ released[c] = 0
  BY <1>0, <1>1 DEF Accounted, ReleasedOnce
<1>12. CommandsOf[c] \ Left(c) \subseteq finished
  <2>1. ASSUME NEW m \in CommandsOf[c] \ Left(c) PROVE m \in finished
    <3>1. <<receipt[c], m>> \in early
      BY <2>1 DEF Left
    <3>2. <<receipt[c], m>>[2] \in finished
      BY <1>0, <3>1 DEF Evidence
    <3>3. QED BY <3>2
  <2>2. QED BY <2>1
<1>13. Accounted'
  <2>1. ASSUME NEW d \in Calls, d # c
        PROVE  stage'[d] = stage[d] /\ remaining'[d] = remaining[d]
    BY <1>4, <1>5, <2>1
  <2>2. stage'[c] = "done" /\ remaining'[c] = Left(c)
    BY <1>4, <1>5
  <2>3. QED BY <1>0, <1>1, <1>2, <1>11, <1>12, <2>1, <2>2 DEF Accounted
<1>14. TablesAgree'
  <2>1. ASSUME NEW k \in Keys
        PROVE  k \in DOMAIN owner' <=> \E d \in Calls : k \in {receipt'[d]} \X remaining'[d]
    <3>1. k \in DOMAIN owner <=> \E d \in Calls : k \in {receipt[d]} \X remaining[d]
      BY <1>0 DEF TablesAgree
    <3>2. ~(k \in {receipt[c]} \X remaining[c])
      BY <1>11
    <3>3. k \in DOMAIN owner <=> \E d \in Calls \ {c} : k \in {receipt[d]} \X remaining[d]
      BY <3>1, <3>2
    <3>4. \A d \in Calls \ {c} : {receipt'[d]} \X remaining'[d] = {receipt[d]} \X remaining[d]
      BY <1>1, <1>5
    <3>5. {receipt'[c]} \X remaining'[c] = new
      BY <1>1, <1>5
    <3>6. QED BY <1>7, <3>3, <3>4, <3>5
  <2>2. ASSUME NEW k \in DOMAIN owner'
        PROVE  k \in {receipt'[owner'[k]]} \X remaining'[owner'[k]]
    <3>1. CASE k \in new
      BY <1>1, <1>5, <1>7, <3>1
    <3>2. CASE k \notin new
      <4>1. k \in DOMAIN owner /\ owner'[k] = owner[k] /\ owner[k] \in Calls
        BY <1>0, <1>7, <3>2 DEF TypeOK
      <4>2. k \in {receipt[owner[k]]} \X remaining[owner[k]]
        BY <1>0, <4>1 DEF TablesAgree
      <4>3. owner[k] # c
        BY <1>11, <4>2
      <4>4. QED BY <1>1, <1>5, <4>1, <4>2, <4>3
    <3>3. QED BY <3>1, <3>2
  <2>3. DOMAIN owner' \cap early' = {}
    <3>1. DOMAIN owner \cap early = {}
      BY <1>0 DEF TablesAgree
    <3>2. new \subseteq KeysOf(c)
      BY <1>2 DEF KeysOf
    <3>3. QED BY <1>1, <1>7, <3>1, <3>2
  <2>4. QED BY <2>1, <2>2, <2>3 DEF TablesAgree
<1>15. ReleasedOnce'
  <2>1. ASSUME NEW d \in Calls
        PROVE  released'[d] = IF stage'[d] = "done" /\ remaining'[d] = {} THEN 1 ELSE 0
    <3>1. CASE d = c
      BY <1>4, <1>5, <1>6, <1>11, <3>1
    <3>2. CASE d # c
      BY <1>0, <1>4, <1>5, <1>6, <3>2 DEF ReleasedOnce
    <3>3. QED BY <3>1, <3>2
  <2>2. QED BY <2>1 DEF ReleasedOnce
<1>16. QED BY <1>0, <1>8, <1>9, <1>10, <1>13, <1>14, <1>15 DEF IInv

\* The first event of the channel is published, and so are the others.
LEMMA ApplyFacts ==
  ASSUME IInv, Apply
  PROVE  /\ Head(channel) \in Published
         /\ channel' \in Seq(Published) /\ channel' \in Seq(Events)
         /\ UNCHANGED <<stream, open, ring, nextSequence, finished, reports, cursor, stage, receipt>>
<1>1. channel \in Seq(Published) /\ channel # <<>> /\ channel' = Tail(channel)
  BY DEF IInv, Evidence, Apply
<1>2. Head(channel) \in Published /\ Tail(channel) \in Seq(Published)
  BY <1>1, HeadTailProperties
<1>3. Published \subseteq Events
  BY DEF Published
<1>4. Tail(channel) \in Seq(Events)
  BY <1>2, <1>3, SeqMonotonic
<1>5. QED BY <1>1, <1>2, <1>4 DEF Apply, daemon

\* An outcome that is awaited keeps it.
LEMMA ReconcileIInv ==
  ASSUME IInv, Apply, Head(channel).kind = "outcome", Reconcile(Head(channel))
  PROVE  IInv'
<1> DEFINE e == Head(channel)
           m == e.command
           k == <<e.stream, m>>
           c == owner[k]
<1>0. TypeOK /\ Evidence /\ Accounted /\ TablesAgree /\ ReleasedOnce /\ IsFiniteSet(early)
  BY DEF IInv
<1>1. /\ k \in DOMAIN owner
      /\ owner' = [j \in DOMAIN owner \ {k} |-> owner[j]]
      /\ remaining' = [remaining EXCEPT ![c] = @ \ {m}]
      /\ Release(IF remaining[c] = {m} THEN {c} ELSE {})
      /\ UNCHANGED <<early, told, passedOver>>
  BY DEF Reconcile, Complete
<1>2. /\ e \in Published /\ channel' \in Seq(Published) /\ channel' \in Seq(Events)
      /\ UNCHANGED <<stream, open, ring, nextSequence, finished, reports, cursor, stage, receipt>>
  BY ApplyFacts
<1>3. m \in finished
  BY <1>2 DEF Published
<1>4. c \in Calls
  BY <1>0, <1>1 DEF TypeOK
<1>5. m \in remaining[c] /\ receipt[c] = e.stream
  <2>1. k \in {receipt[c]} \X remaining[c]
    BY <1>0, <1>1 DEF TablesAgree
  <2>2. QED BY <2>1
<1> HIDE DEF k, c, m
<1>6. /\ \A d \in Calls : remaining'[d] = IF d = c THEN remaining[c] \ {m} ELSE remaining[d]
      /\ remaining' \in [Calls -> SUBSET Commands]
  BY <1>0, <1>1, <1>4 DEF TypeOK
<1>7. /\ \A d \in Calls : released'[d] = IF d = c /\ remaining[c] = {m} THEN released[d] + 1
                                          ELSE released[d]
      /\ released' \in [Calls -> Nat]
  BY <1>0, <1>1, <1>4 DEF TypeOK, Release
<1>8. DOMAIN owner' = DOMAIN owner \ {k} /\ \A j \in DOMAIN owner' : owner'[j] = owner[j]
  BY <1>1
<1>9. TypeOK'
  <2>1. DOMAIN owner' \subseteq Keys
    BY <1>0, <1>8 DEF TypeOK
  <2>2. \A j \in DOMAIN owner' : owner'[j] \in Calls
    BY <1>0, <1>8 DEF TypeOK
  <2>3. owner' \in [DOMAIN owner' -> Calls]
    BY <1>1, <1>8, <2>2
  <2>4. QED BY <1>0, <1>1, <1>2, <1>6, <1>7, <2>1, <2>3 DEF TypeOK
<1>10. Evidence'
  <2>1. Published' = Published
    BY <1>2 DEF Published, Events
  <2>2. QED BY <1>0, <1>1, <1>2, <2>1 DEF Evidence
<1>11. stage[c] = "done" /\ c \notin told /\ released[c] = 0
  BY <1>0, <1>4, <1>5 DEF Accounted, ReleasedOnce
<1>12. Accounted'
  <2>1. ASSUME NEW d \in Calls
        PROVE  /\ remaining'[d] \subseteq CommandsOf[d]
               /\ stage'[d] # "done" => remaining'[d] = {} /\ d \notin told'
               /\ d \in told' => remaining'[d] = {}
               /\ stage'[d] = "done" /\ d \notin told' =>
                    CommandsOf[d] \ remaining'[d] \subseteq finished'
    <3>1. CASE d = c
      BY <1>0, <1>1, <1>2, <1>3, <1>6, <1>11, <3>1 DEF Accounted
    <3>2. CASE d # c
      BY <1>0, <1>1, <1>2, <1>6, <3>2 DEF Accounted
    <3>3. QED BY <3>1, <3>2
  <2>2. QED BY <2>1 DEF Accounted
<1>13. TablesAgree'
  <2>0. \A d \in Calls \ {c} : m \notin remaining[d]
    <3>1. m \in CommandsOf[c]
      BY <1>0, <1>4, <1>5 DEF Accounted
    <3>2. ASSUME NEW d \in Calls \ {c} PROVE m \notin remaining[d]
      <4>1. CommandsOf[c] \cap CommandsOf[d] = {} /\ remaining[d] \subseteq CommandsOf[d]
        BY <1>0, <1>4, <3>2, CallAssumption DEF Accounted
      <4>2. QED BY <3>1, <4>1
    <3>3. QED BY <3>2
  <2>1. k = <<receipt[c], m>>
    BY <1>5 DEF k
  <2>2. \A d \in Calls : {receipt'[d]} \X remaining'[d] = ({receipt[d]} \X remaining[d]) \ {k}
    <3>1. ASSUME NEW d \in Calls
          PROVE  {receipt'[d]} \X remaining'[d] = ({receipt[d]} \X remaining[d]) \ {k}
      <4>1. CASE d = c
        <5>1. remaining'[d] = remaining[d] \ {m} /\ receipt'[d] = receipt[d]
          BY <1>2, <1>6, <4>1
        <5>2. QED BY <2>1, <4>1, <5>1
      <4>2. CASE d # c
        <5>1. remaining'[d] = remaining[d] /\ receipt'[d] = receipt[d] /\ m \notin remaining[d]
          BY <1>2, <1>6, <2>0, <4>2
        <5>2. QED BY <2>1, <5>1
      <4>3. QED BY <4>1, <4>2
    <3>2. QED BY <3>1
  <2>3. \A j \in Keys : j \in DOMAIN owner' <=> \E d \in Calls : j \in {receipt'[d]} \X remaining'[d]
    <3>1. \A j \in Keys : j \in DOMAIN owner <=> \E d \in Calls : j \in {receipt[d]} \X remaining[d]
      BY <1>0 DEF TablesAgree
    <3>2. QED BY <1>8, <2>2, <3>1
  <2>4. ASSUME NEW j \in DOMAIN owner'
        PROVE  j \in {receipt'[owner'[j]]} \X remaining'[owner'[j]]
    <3>1. j \in DOMAIN owner /\ j # k /\ owner'[j] = owner[j] /\ owner[j] \in Calls
      BY <1>0, <1>8 DEF TypeOK
    <3>2. j \in {receipt[owner[j]]} \X remaining[owner[j]]
      BY <1>0, <3>1 DEF TablesAgree
    <3>3. QED BY <2>2, <3>1, <3>2
  <2>5. DOMAIN owner' \cap early' = {}
    BY <1>0, <1>1, <1>8 DEF TablesAgree
  <2>6. QED BY <2>3, <2>4, <2>5 DEF TablesAgree
<1>14. ReleasedOnce'
  <2>1. ASSUME NEW d \in Calls
        PROVE  released'[d] = IF stage'[d] = "done" /\ remaining'[d] = {} THEN 1 ELSE 0
    <3>1. CASE d = c
      <4>1. remaining'[c] = {} <=> remaining[c] = {m}
        BY <1>4, <1>5, <1>6
      <4>2. QED BY <1>2, <1>4, <1>7, <1>11, <3>1, <4>1
    <3>2. CASE d # c
      BY <1>0, <1>2, <1>6, <1>7, <3>2 DEF ReleasedOnce
    <3>3. QED BY <3>1, <3>2
  <2>2. QED BY <2>1 DEF ReleasedOnce
<1>15. QED BY <1>0, <1>1, <1>9, <1>10, <1>12, <1>13, <1>14 DEF IInv

\* An outcome that is early keeps it.
LEMMA DeferIInv ==
  ASSUME IInv, Apply, Head(channel).kind = "outcome", Defer(Head(channel))
  PROVE  IInv'
<1> DEFINE e == Head(channel)
           k == <<e.stream, e.command>>
<1>0. TypeOK /\ Evidence /\ Accounted /\ TablesAgree /\ ReleasedOnce /\ IsFiniteSet(early)
  BY DEF IInv
<1>1. /\ k \notin DOMAIN owner /\ early' \in Kept(k)
      /\ passedOver' = passedOver \cup {c \in Calls : KeysOf(c) \cap (early \ early') # {}}
      /\ UNCHANGED <<remaining, owner, released, told>>
  BY DEF Defer, marks
<1>2. /\ e \in Published /\ channel' \in Seq(Published) /\ channel' \in Seq(Events)
      /\ UNCHANGED <<stream, open, ring, nextSequence, finished, reports, cursor, stage, receipt>>
  BY ApplyFacts
<1>3. e.command \in finished /\ e.stream \in Streams /\ k[2] = e.command
  BY <1>2 DEF Published, Events
<1>4. k \in Keys
  BY <1>0, <1>3 DEF Keys, TypeOK
<1> HIDE DEF k
<1>5. EarlyCapacity \in Nat \ {0} /\ Cardinality(early) \in Nat /\ Cardinality(early) <= EarlyCapacity
  BY <1>0, CapacityAssumption, FS_CardinalityType DEF TypeOK
<1>6. /\ IsFiniteSet(early') /\ Cardinality(early') <= EarlyCapacity
      /\ early' \subseteq early \cup {k}
  <2>1. CASE Cardinality(early) >= EarlyCapacity /\ k \notin early
    <3>1. PICK j \in early : early' = (early \ {j}) \cup {k}
      BY <1>1, <2>1 DEF Kept
    <3>2. IsFiniteSet(early \ {j}) /\ Cardinality(early \ {j}) = Cardinality(early) - 1
      BY <1>0, <3>1, FS_RemoveElement
    <3>3. k \notin early \ {j}
      BY <2>1
    <3>4. IsFiniteSet(early') /\ Cardinality(early') = Cardinality(early \ {j}) + 1
      BY <3>1, <3>2, <3>3, FS_AddElement
    <3>5. QED BY <1>5, <3>1, <3>2, <3>4
  <2>2. CASE ~(Cardinality(early) >= EarlyCapacity /\ k \notin early)
    <3>1. early' = early \cup {k}
      BY <1>1, <2>2 DEF Kept
    <3>2. /\ IsFiniteSet(early')
          /\ Cardinality(early') = IF k \in early THEN Cardinality(early) ELSE Cardinality(early) + 1
      BY <1>0, <3>1, FS_AddElement
    <3>3. QED BY <1>5, <2>2, <3>1, <3>2
  <2>3. QED BY <2>1, <2>2
<1>7. TypeOK'
  <2>1. early' \subseteq Keys /\ passedOver' \subseteq Calls
    BY <1>0, <1>1, <1>4, <1>6 DEF TypeOK
  <2>2. QED BY <1>0, <1>1, <1>2, <1>6, <2>1 DEF TypeOK
<1>8. Evidence'
  <2>1. Published' = Published
    BY <1>2 DEF Published, Events
  <2>2. \A j \in early' : j[2] \in finished'
    BY <1>0, <1>2, <1>3, <1>6 DEF Evidence
  <2>3. QED BY <1>0, <1>2, <2>1, <2>2 DEF Evidence
<1>9. Accounted'
  BY <1>0, <1>1, <1>2, AccountsGrow
<1>10. TablesAgree'
  <2>1. DOMAIN owner' \cap early' = {}
    BY <1>0, <1>1, <1>6 DEF TablesAgree
  <2>2. QED BY <1>0, <1>1, <1>2, <2>1 DEF TablesAgree
<1>11. ReleasedOnce'
  BY <1>0, <1>1, <1>2 DEF ReleasedOnce
<1>12. QED BY <1>6, <1>7, <1>8, <1>9, <1>10, <1>11 DEF IInv

\* A reset keeps it.
LEMMA ResetIInv ==
  ASSUME IInv, Apply, ApplyReset(Head(channel))
  PROVE  IInv'
<1> DEFINE e == Head(channel)
           hit == Hit(e)
<1>0. TypeOK /\ Evidence /\ Accounted /\ TablesAgree /\ ReleasedOnce /\ IsFiniteSet(early)
  BY DEF IInv
<1>1. hit \subseteq Calls /\ \A c \in hit : remaining[c] # {}
  BY DEF Hit
<1>2. /\ remaining' = [c \in Calls |-> IF c \in hit THEN {} ELSE remaining[c]]
      /\ owner' = OwnersWithout(hit) /\ early' \subseteq early
      /\ told' = told \cup hit /\ Release(hit)
      /\ passedOver' = passedOver \cup
           {c \in Calls : stage[c] = "receipt" /\ (e.gap \/ receipt[c] # e.stream)}
  BY DEF ApplyReset
<1>3. /\ channel' \in Seq(Published) /\ channel' \in Seq(Events)
      /\ UNCHANGED <<stream, open, ring, nextSequence, finished, reports, cursor, stage, receipt>>
  BY ApplyFacts
<1> HIDE DEF hit
<1>4. /\ \A c \in Calls : remaining'[c] = IF c \in hit THEN {} ELSE remaining[c]
      /\ remaining' \in [Calls -> SUBSET Commands]
  BY <1>0, <1>2 DEF TypeOK
<1>5. /\ \A c \in Calls : released'[c] = IF c \in hit THEN released[c] + 1 ELSE released[c]
      /\ released' \in [Calls -> Nat]
  BY <1>0, <1>2 DEF TypeOK, Release
<1>6. /\ DOMAIN owner' = {j \in DOMAIN owner : owner[j] \notin hit}
      /\ \A j \in DOMAIN owner' : owner'[j] = owner[j]
  BY <1>2 DEF OwnersWithout
<1>7. IsFiniteSet(early') /\ Cardinality(early') <= EarlyCapacity
  <2>1. IsFiniteSet(early') /\ Cardinality(early') <= Cardinality(early)
    <3>1. early' \in SUBSET early
      BY <1>2
    <3>2. QED BY <1>0, <3>1, FS_Subset
  <2>2. Cardinality(early') \in Nat /\ Cardinality(early) \in Nat
    BY <1>0, <2>1, FS_CardinalityType
  <2>3. Cardinality(early) <= EarlyCapacity /\ EarlyCapacity \in Nat
    BY <1>0, CapacityAssumption DEF TypeOK
  <2>4. QED BY <2>1, <2>2, <2>3
<1>8. TypeOK'
  <2>1. DOMAIN owner' \subseteq Keys
    BY <1>0, <1>6 DEF TypeOK
  <2>2. \A j \in DOMAIN owner' : owner'[j] \in Calls
    BY <1>0, <1>6 DEF TypeOK
  <2>3. owner' = [j \in DOMAIN owner' |-> owner[j]]
    BY <1>2, <1>6 DEF OwnersWithout
  <2>4. owner' \in [DOMAIN owner' -> Calls]
    BY <1>6, <2>2, <2>3
  <2>5. early' \subseteq Keys /\ told' \subseteq Calls /\ passedOver' \subseteq Calls
    <3>1. passedOver' \subseteq Calls
      BY <1>0, <1>2 DEF TypeOK
    <3>2. QED BY <1>0, <1>1, <1>2, <3>1 DEF TypeOK
  <2>6. QED BY <1>0, <1>3, <1>4, <1>5, <1>7, <2>1, <2>4, <2>5 DEF TypeOK
<1>9. Evidence'
  <2>1. Published' = Published
    BY <1>3 DEF Published, Events
  <2>2. QED BY <1>0, <1>2, <1>3, <2>1 DEF Evidence
<1>10. \A c \in hit : stage[c] = "done" /\ released[c] = 0
  BY <1>0, <1>1 DEF Accounted, ReleasedOnce
<1>11. Accounted'
  <2>1. ASSUME NEW d \in Calls
        PROVE  /\ remaining'[d] \subseteq CommandsOf[d]
               /\ stage'[d] # "done" => remaining'[d] = {} /\ d \notin told'
               /\ d \in told' => remaining'[d] = {}
               /\ stage'[d] = "done" /\ d \notin told' =>
                    CommandsOf[d] \ remaining'[d] \subseteq finished'
    <3>1. CASE d \in hit
      BY <1>2, <1>3, <1>4, <1>10, <3>1
    <3>2. CASE d \notin hit
      BY <1>0, <1>2, <1>3, <1>4, <3>2 DEF Accounted
    <3>3. QED BY <3>1, <3>2
  <2>2. QED BY <2>1 DEF Accounted
<1>12. TablesAgree'
  <2>1. ASSUME NEW j \in Keys
        PROVE  j \in DOMAIN owner' <=> \E d \in Calls : j \in {receipt'[d]} \X remaining'[d]
    <3>1. ASSUME j \in DOMAIN owner'
          PROVE  \E d \in Calls : j \in {receipt'[d]} \X remaining'[d]
      <4>1. j \in DOMAIN owner /\ owner[j] \in Calls \ hit
        BY <1>0, <1>6, <3>1 DEF TypeOK
      <4>2. j \in {receipt[owner[j]]} \X remaining[owner[j]]
        BY <1>0, <4>1 DEF TablesAgree
      <4>3. j \in {receipt'[owner[j]]} \X remaining'[owner[j]]
        BY <1>3, <1>4, <4>1, <4>2
      <4>4. QED BY <4>1, <4>3
    <3>2. ASSUME NEW d \in Calls, j \in {receipt'[d]} \X remaining'[d]
          PROVE  j \in DOMAIN owner'
      <4>1. d \notin hit /\ j \in {receipt[d]} \X remaining[d]
        BY <1>3, <1>4, <3>2
      <4>2. j \in DOMAIN owner
        BY <1>0, <4>1 DEF TablesAgree
      <4>3. j \in {receipt[owner[j]]} \X remaining[owner[j]] /\ owner[j] \in Calls
        BY <1>0, <4>2 DEF TablesAgree, TypeOK
      <4>4. j[2] \in remaining[d] /\ j[2] \in remaining[owner[j]]
        BY <4>1, <4>3
      <4>5. j[2] \in CommandsOf[d] \cap CommandsOf[owner[j]]
        BY <1>0, <4>3, <4>4 DEF Accounted
      <4>6. owner[j] = d
        BY <4>3, <4>5, CallAssumption
      <4>7. QED BY <1>6, <4>1, <4>2, <4>6
    <3>3. QED BY <3>1, <3>2
  <2>2. ASSUME NEW j \in DOMAIN owner'
        PROVE  j \in {receipt'[owner'[j]]} \X remaining'[owner'[j]]
    <3>1. j \in DOMAIN owner /\ owner[j] \in Calls \ hit /\ owner'[j] = owner[j]
      BY <1>0, <1>6 DEF TypeOK
    <3>2. j \in {receipt[owner[j]]} \X remaining[owner[j]]
      BY <1>0, <3>1 DEF TablesAgree
    <3>3. QED BY <1>3, <1>4, <3>1, <3>2
  <2>3. DOMAIN owner' \cap early' = {}
    BY <1>0, <1>2, <1>6 DEF TablesAgree
  <2>4. QED BY <2>1, <2>2, <2>3 DEF TablesAgree
<1>13. ReleasedOnce'
  <2>1. ASSUME NEW d \in Calls
        PROVE  released'[d] = IF stage'[d] = "done" /\ remaining'[d] = {} THEN 1 ELSE 0
    <3>1. CASE d \in hit
      BY <1>3, <1>4, <1>5, <1>10, <3>1
    <3>2. CASE d \notin hit
      BY <1>0, <1>3, <1>4, <1>5, <3>2 DEF ReleasedOnce
    <3>3. QED BY <3>1, <3>2
  <2>2. QED BY <2>1 DEF ReleasedOnce
<1>14. QED BY <1>7, <1>8, <1>9, <1>11, <1>12, <1>13 DEF IInv

\* A report, or nothing: only the channel may change.
LEMMA QuietIInv ==
  ASSUME IInv, channel' \in Seq(Published), channel' \in Seq(Events),
         UNCHANGED <<daemon, cursor, stage, receipt, tables, marks, passedOver>>
  PROVE  IInv'
<1>0. TypeOK /\ Evidence /\ Accounted /\ TablesAgree /\ ReleasedOnce /\ IsFiniteSet(early)
  BY DEF IInv
<1>1. UNCHANGED <<stream, open, ring, nextSequence, finished, reports, cursor, stage, receipt,
                  remaining, owner, early, released, told, passedOver>>
  BY DEF daemon, tables, marks
<1>2. TypeOK'
  BY <1>0, <1>1 DEF TypeOK
<1>3. Evidence'
  <2>1. Published' = Published
    BY <1>1 DEF Published, Events
  <2>2. QED BY <1>0, <1>1, <2>1 DEF Evidence
<1>4. Accounted'
  BY <1>0, <1>1, AccountsGrow
<1>5. TablesAgree' /\ ReleasedOnce'
  BY <1>0, <1>1, TablesKept DEF tables, marks
<1>6. QED BY <1>0, <1>1, <1>2, <1>3, <1>4, <1>5 DEF IInv

\* Whatever the event loop reads, it keeps it.
LEMMA ApplyIInv ==
  ASSUME IInv, Apply
  PROVE  IInv'
<1> DEFINE e == Head(channel)
<1>1. \/ e.kind = "outcome" /\ Reconcile(e)
      \/ e.kind = "outcome" /\ Defer(e)
      \/ e.kind = "reset" /\ ApplyReset(e)
      \/ e.kind = "report" /\ UNCHANGED <<tables, marks, passedOver>>
  BY DEF Apply
<1>2. CASE e.kind = "report" /\ UNCHANGED <<tables, marks, passedOver>>
  <2>1. channel' \in Seq(Published) /\ channel' \in Seq(Events)
    BY ApplyFacts
  <2>2. UNCHANGED <<daemon, cursor, stage, receipt, tables, marks, passedOver>>
    BY <1>2 DEF Apply
  <2>3. QED BY <2>1, <2>2, QuietIInv
<1>3. QED BY <1>1, <1>2, ReconcileIInv, DeferIInv, ResetIInv

\* The invariant is inductive.
LEMMA NextIInv == IInv /\ [Next]_vars => IInv'
<1> SUFFICES ASSUME IInv, [Next]_vars PROVE IInv'
  OBVIOUS
<1>1. CASE \E m \in Commands : Finish(m)
  BY <1>1, FinishIInv
<1>2. CASE PublishReport
  BY <1>2, ReportIInv
<1>3. CASE Restart
  BY <1>3, RestartIInv
<1>4. CASE \E c \in Calls : Accept(c) \/ CallFails(c) \/ Register(c)
  BY <1>4, AcceptIInv, CallFailsIInv, RegisterIInv
<1>5. CASE Poll
  BY <1>5, PollIInv
<1>6. CASE Apply
  BY <1>6, ApplyIInv
<1>7. CASE UNCHANGED vars
  <2>1. /\ UNCHANGED <<daemon, cursor, stage, receipt, tables, marks, passedOver>>
        /\ channel' = channel
    BY <1>7 DEF vars, poller
  <2>2. channel \in Seq(Published) /\ channel \in Seq(Events)
    BY DEF IInv, TypeOK, Evidence
  <2>3. QED BY <2>1, <2>2, QuietIInv
<1>8. QED BY <1>1, <1>2, <1>3, <1>4, <1>5, <1>6, <1>7 DEF Next

\* The invariant holds in every reachable state of the dispatch tables.
THEOREM Inductive == Spec => []IInv
<1>1. QED BY InitIInv, NextIInv, PTL DEF Spec

\* Every variable keeps its type; the daemon's ring of events and the table
\* of early outcomes keep their bounds (publish, reconcile_integration_outcome).
THEOREM TypeCorrect == Spec => []TypeOK
<1>1. IInv => TypeOK
  BY DEF IInv
<1>2. QED BY <1>1, Inductive, PTL

\* The tables of receipts, commands and early outcomes agree after every
\* registration, outcome and reset (register_integration_dispatch).
THEOREM TablesCorrect == Spec => []TablesAgree
<1>1. IInv => TablesAgree
  BY DEF IInv
<1>2. QED BY <1>1, Inductive, PTL

\* What is no longer awaited has ended.
LEMMA Resolved == IInv => HeldUntilResolved
BY DEF IInv, TypeOK, Accounted, ReleasedOnce, HeldUntilResolved

\* The pending mark of a call is given back exactly once, and held until the
\* last outcome or a failure the client was told of
\* (install_dispatch_outcome_listener, reconcile_integration_outcome).
THEOREM MarksCorrect == Spec => []MarksRight
<1>1. IInv => MarksRight
  BY Resolved DEF IInv, MarksRight
<1>2. QED BY <1>1, Inductive, PTL

-----------------------------------------------------------------------------
(* The refinement: each step is one of DispatchPromise or changes nothing   *)
(* a client sees.                                                           *)

\* A call that has given back no mark is idle or accepted.
LEMMA PhaseFacts ==
  ASSUME IInv, NEW c \in Calls
  PROVE  /\ released[c] \in {0, 1}
         /\ released[c] = 0 => Phase[c] = IF stage[c] = "idle" THEN "idle" ELSE "accepted"
         /\ released[c] = 1 => Phase[c] = IF c \in told THEN "failed" ELSE "answered"
<1>1. released[c] \in {0, 1}
  BY DEF IInv, ReleasedOnce
<1>2. Phase[c] = IF released[c] > 0 THEN IF c \in told THEN "failed" ELSE "answered"
                 ELSE IF stage[c] = "idle" THEN "idle" ELSE "accepted"
  BY DEF Phase
<1>3. QED BY <1>1, <1>2

\* Clients see no change.
LEMMA PhaseKept ==
  ASSUME UNCHANGED <<released, told>>,
         \A c \in Calls : stage'[c] = "idle" <=> stage[c] = "idle"
  PROVE  Phase' = Phase
BY DEF Phase

\* A change of phase, call by call, is a move.
LEMMA PhaseMoves ==
  ASSUME NEW cs \in SUBSET Calls, NEW p,
         \A c \in Calls : Phase'[c] = IF c \in cs THEN p ELSE Phase[c]
  PROVE  Promise!Move(cs, p)
<1>1. Phase' = [c \in Calls |-> Phase'[c]]
  BY DEF Phase
<1>2. QED BY <1>1 DEF Promise!Move

\* To accept a call is to accept it.
LEMMA AcceptRefines ==
  ASSUME IInv, IInv', NEW c \in Calls, Accept(c)
  PROVE  Promise!Accept(c)
<1>1. /\ stage[c] = "idle" /\ \A d \in Calls : stage'[d] = IF d = c THEN "receipt" ELSE stage[d]
      /\ UNCHANGED <<released, told, finished>>
  BY DEF Accept, marks, IInv, TypeOK
<1>2. released[c] = 0
  BY <1>1 DEF IInv, ReleasedOnce
<1>3. Phase[c] = "idle"
  BY <1>1, <1>2, PhaseFacts
<1>4. \A d \in Calls : Phase'[d] = IF d = c THEN "accepted" ELSE Phase[d]
  BY <1>1, <1>2 DEF Phase
<1>5. Promise!Move({c}, "accepted")
  BY <1>4, PhaseMoves
<1>6. QED BY <1>1, <1>3, <1>5 DEF Promise!Accept

\* A failed call fails alone.
LEMMA CallFailsRefines ==
  ASSUME IInv, IInv', NEW c \in Calls, CallFails(c)
  PROVE  Promise!Fail({c})
<1>1. /\ stage[c] \in {"idle", "receipt"} /\ \A d \in Calls : d # c => stage'[d] = stage[d]
      /\ told' = told \cup {c} /\ finished' = finished
      /\ \A d \in Calls : released'[d] = IF d = c THEN released[d] + 1 ELSE released[d]
  BY DEF CallFails, Release, daemon, IInv, TypeOK
<1>2. released[c] = 0
  BY <1>1 DEF IInv, ReleasedOnce
<1>3. Phase[c] \in {"idle", "accepted"}
  BY <1>2, PhaseFacts
<1>4. \A d \in Calls : Phase'[d] = IF d = c THEN "failed" ELSE Phase[d]
  BY <1>1, <1>2 DEF Phase
<1>5. Promise!Move({c}, "failed")
  BY <1>4, PhaseMoves
<1>6. QED BY <1>1, <1>3, <1>5 DEF Promise!Fail

\* A call that leaves the tables without a failure is answered.
LEMMA AnswerRefines ==
  ASSUME IInv, IInv', NEW c \in Calls, stage[c] # "idle", released[c] = 0, c \notin told,
         UNCHANGED <<told, finished>>,
         \A d \in Calls : released'[d] = IF d = c THEN released[d] + 1 ELSE released[d],
         \A d \in Calls : d # c => stage'[d] = stage[d]
  PROVE  Promise!Answer(c)
<1>1. Phase[c] = "accepted"
  BY PhaseFacts
<1>2. \A d \in Calls : Phase'[d] = IF d = c THEN "answered" ELSE Phase[d]
  BY DEF Phase
<1>3. CommandsOf[c] \subseteq finished
  <2>1. released'[c] = 1
    OBVIOUS
  <2>2. HeldUntilResolved'
    BY Resolved, PTL
  <2>3. c \in told' \/ CommandsOf[c] \subseteq finished'
    BY <2>1, <2>2 DEF HeldUntilResolved
  <2>4. QED BY <2>3
<1>4. Promise!Move({c}, "answered")
  BY <1>2, PhaseMoves
<1>5. QED BY <1>1, <1>3, <1>4 DEF Promise!Answer

\* A receipt all of whose outcomes are early is answered.
LEMMA RegisterRefines ==
  ASSUME IInv, IInv', NEW c \in Calls, Register(c)
  PROVE  Promise!Answer(c) \/ UNCHANGED <<Phase, finished>>
<1>1. /\ stage[c] = "receipt" /\ \A d \in Calls : stage'[d] = IF d = c THEN "done" ELSE stage[d]
      /\ UNCHANGED <<told, finished>>
      /\ \A d \in Calls : released'[d] = IF d = c /\ Left(c) = {} THEN released[d] + 1
                                          ELSE released[d]
  BY DEF Register, Release, daemon, IInv, TypeOK
<1>2. released[c] = 0 /\ c \notin told
  BY <1>1 DEF IInv, ReleasedOnce, Accounted
<1>3. CASE Left(c) = {}
  BY <1>1, <1>2, <1>3, AnswerRefines
<1>4. CASE Left(c) # {}
  <2>1. released' = released
    BY <1>4 DEF Register, Release, IInv, TypeOK
  <2>2. QED BY <1>1, <2>1, PhaseKept
<1>5. QED BY <1>3, <1>4

\* The last outcome answers the call, any other changes nothing.
LEMMA ReconcileRefines ==
  ASSUME IInv, IInv', Apply, Reconcile(Head(channel))
  PROVE  (\E c \in Calls : Promise!Answer(c)) \/ UNCHANGED <<Phase, finished>>
<1> DEFINE e == Head(channel)
           c == owner[<<e.stream, e.command>>]
<1>1. /\ <<e.stream, e.command>> \in DOMAIN owner /\ told' = told
      /\ Release(IF remaining[c] = {e.command} THEN {c} ELSE {})
  BY DEF Reconcile, Complete
<1>2. c \in Calls
  BY <1>1 DEF IInv, TypeOK
<1>3. UNCHANGED <<finished, stage>>
  BY DEF Apply, daemon
<1>4. remaining[c] # {}
  BY <1>1, <1>2 DEF IInv, TablesAgree
<1> HIDE DEF c, e
<1>5. stage[c] = "done" /\ c \notin told /\ released[c] = 0
  BY <1>2, <1>4 DEF IInv, Accounted, ReleasedOnce
<1>6. CASE remaining[c] = {e.command}
  <2>1. \A d \in Calls : released'[d] = IF d = c THEN released[d] + 1 ELSE released[d]
    BY <1>1, <1>6 DEF Release
  <2>2. Promise!Answer(c)
    BY <1>1, <1>2, <1>3, <1>5, <2>1, AnswerRefines
  <2>3. QED BY <1>2, <2>2
<1>7. CASE remaining[c] # {e.command}
  <2>1. released' = released
    BY <1>1, <1>7 DEF Release, IInv, TypeOK
  <2>2. QED BY <1>1, <1>3, <2>1, PhaseKept
<1>8. QED BY <1>6, <1>7

\* A reset fails the calls it hits together.
LEMMA ResetRefines ==
  ASSUME IInv, IInv', Apply, ApplyReset(Head(channel))
  PROVE  \E cs \in SUBSET Calls : Promise!Fail(cs)
<1> DEFINE hit == Hit(Head(channel))
<1>1. hit \in SUBSET Calls /\ \A c \in hit : remaining[c] # {}
  BY DEF Hit
<1>2. /\ told' = told \cup hit
      /\ \A d \in Calls : released'[d] = IF d \in hit THEN released[d] + 1 ELSE released[d]
  BY DEF ApplyReset, Release
<1>3. UNCHANGED <<finished, stage>>
  BY DEF Apply, daemon
<1> HIDE DEF hit
<1>4. \A c \in hit : released[c] = 0
  BY <1>1 DEF IInv, ReleasedOnce
<1>5. \A c \in hit : Phase[c] \in {"idle", "accepted"}
  BY <1>1, <1>4, PhaseFacts
<1>6. \A d \in Calls : Phase'[d] = IF d \in hit THEN "failed" ELSE Phase[d]
  BY <1>2, <1>3, <1>4 DEF Phase
<1>7. Promise!Move(hit, "failed")
  BY <1>1, <1>6, PhaseMoves
<1>8. Promise!Fail(hit)
  BY <1>3, <1>5, <1>7 DEF Promise!Fail
<1>9. QED BY <1>1, <1>8

\* Every step implements a step of the promise, or none.
LEMMA NextRefines ==
  ASSUME IInv, IInv', [Next]_vars
  PROVE  [Promise!Next]_<<Phase, finished>>
<1>1. CASE \E m \in Commands : Finish(m)
  <2>1. PICK m \in Commands : Finish(m)
    BY <1>1
  <2>2. finished' = finished \cup {m} /\ UNCHANGED <<released, told, stage>>
    BY <2>1 DEF Finish, marks
  <2>3. Phase' = Phase
    BY <2>2, PhaseKept
  <2>4. Promise!End(m)
    BY <2>2, <2>3 DEF Promise!End
  <2>5. QED BY <2>4 DEF Promise!Next
<1>2. CASE PublishReport \/ Restart \/ Poll \/ UNCHANGED vars
  <2>1. UNCHANGED <<released, told, stage, finished>>
    BY <1>2 DEF PublishReport, Restart, Poll, vars, marks, daemon
  <2>2. QED BY <2>1, PhaseKept
<1>3. CASE \E c \in Calls : Accept(c) \/ CallFails(c) \/ Register(c)
  <2>1. PICK c \in Calls : Accept(c) \/ CallFails(c) \/ Register(c)
    BY <1>3
  <2>2. CASE Accept(c)
    <3>1. Promise!Accept(c)
      BY <2>2, AcceptRefines
    <3>2. QED BY <3>1 DEF Promise!Next
  <2>3. CASE CallFails(c)
    <3>1. Promise!Fail({c}) /\ {c} \in SUBSET Calls
      BY <2>3, CallFailsRefines
    <3>2. QED BY <3>1 DEF Promise!Next
  <2>4. CASE Register(c)
    <3>1. Promise!Answer(c) \/ UNCHANGED <<Phase, finished>>
      BY <2>4, RegisterRefines
    <3>2. QED BY <3>1 DEF Promise!Next
  <2>5. QED BY <2>1, <2>2, <2>3, <2>4
<1>4. CASE Apply
  <2>1. CASE Reconcile(Head(channel))
    <3>1. (\E c \in Calls : Promise!Answer(c)) \/ UNCHANGED <<Phase, finished>>
      BY <1>4, <2>1, ReconcileRefines
    <3>2. QED BY <3>1 DEF Promise!Next
  <2>2. CASE ApplyReset(Head(channel))
    <3>1. \E cs \in SUBSET Calls : Promise!Fail(cs)
      BY <1>4, <2>2, ResetRefines
    <3>2. QED BY <3>1 DEF Promise!Next
  <2>3. CASE Defer(Head(channel)) \/ UNCHANGED <<tables, marks, passedOver>>
    <3>1. UNCHANGED <<released, told, stage, finished>>
      BY <1>4, <2>3 DEF Apply, Defer, marks, daemon
    <3>2. QED BY <3>1, PhaseKept
  <2>4. QED BY <1>4, <2>1, <2>2, <2>3 DEF Apply
<1>5. QED BY <1>1, <1>2, <1>3, <1>4 DEF Next

\* The tables, the poller and the daemon's ring implement the promise to the
\* clients: a call is settled once, as answered only after its last outcome
\* (install_dispatch_outcome_listener, reset_integration_dispatches_for_hub).
THEOREM PromiseKept == Spec => KeepsPromise
<1>1. Init => Promise!Init
  BY DEF Init, Promise!Init, Phase
<1>2. IInv /\ IInv' /\ [Next]_vars => [Promise!Next]_<<Phase, finished>>
  BY NextRefines
<1>3. QED BY <1>1, <1>2, Inductive, PTL DEF Spec, KeepsPromise, Promise!Spec
=============================================================================
