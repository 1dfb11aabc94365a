---------------------- MODULE IntegrationDeliveryProofs ----------------------
(***************************************************************************)
(* No dispatch of IntegrationDispatch waits in vain: a second invariant,   *)
(* on top of that of IntegrationDispatchProofs, follows every command that *)
(* is still owed through the daemon, its ring, the poller's channel and    *)
(* the early outcomes, or else the reset that will fail its dispatch.      *)
(***************************************************************************)
EXTENDS IntegrationDispatchProofs, SeqLemmas

\* The event m is in the ring and the cursor has not seen it.  Event i of the
\* ring has the number Oldest + i - 1.
Unread(m) == \E i \in 1..Len(ring) : ring[i] = m /\ (Changed \/ Oldest + i > cursor.sequence + 1)

\* A reset under way fails the dispatches of stream s.
Condemned(s) == \E e \in ToSet(channel) : e.kind = "reset" /\ (e.gap \/ s # e.stream)

\* Awaited, in these terms.
Coming(s, m) ==
  \/ s = stream /\ (m \in open \/ Unread(m))
  \/ Outcome(s, m) \in ToSet(channel)
  \/ Changed /\ s # stream
  \/ Gap
  \/ Condemned(s)

\* What a call waits for, or will wait for once it is registered.
Owed(c) == IF stage[c] = "receipt" THEN Left(c) ELSE remaining[c]

\* The poller is never ahead of the daemon, and neither is a receipt.
Behind ==
  /\ cursor.stream <= stream
  /\ ~Changed => cursor.sequence < nextSequence
  /\ \A c \in Calls : receipt[c] <= stream

Delivery == \A c \in Calls \ passedOver : \A m \in Owed(c) : Coming(receipt[c], m)

DInv == Behind /\ Delivery

-----------------------------------------------------------------------------
(* The ring and the channel.                                                *)

\* The counters are numbers.
LEMMA Counters ==
  ASSUME TypeOK
  PROVE  /\ stream \in Nat /\ cursor.stream \in Nat /\ cursor.sequence \in Nat /\ nextSequence \in Nat
         /\ ring \in Seq(Commands \cup {Report}) /\ Len(ring) \in Nat /\ Oldest \in Int
         /\ Oldest = nextSequence - Len(ring) /\ Streams \subseteq Nat
<1>1. Streams \subseteq Nat
  BY CapacityAssumption DEF Streams
<1>2. ring \in Seq(Commands \cup {Report}) /\ Len(ring) \in Nat
  BY LenProperties DEF TypeOK
<1>3. QED BY <1>1, <1>2 DEF TypeOK, Oldest

\* What a poll returns is what has not been read.
LEMMA UnseenIsUnread ==
  ASSUME TypeOK, NEW m
  PROVE  m \in ToSet(Unseen) <=> Unread(m)
<1>1. PICK n \in Nat, o \in Int, q \in Nat :
        /\ n = Len(ring) /\ o = Oldest /\ q = cursor.sequence
        /\ ring \in Seq(Commands \cup {Report})
  BY Counters
<1>2. CASE Changed
  <2>1. Unseen = ring
    BY <1>2 DEF Unseen
  <2>2. m \in ToSet(ring) <=> \E i \in 1..Len(ring) : ring[i] = m
    BY <1>1, ToSetFacts
  <2>3. QED BY <1>2, <2>1, <2>2 DEF Unread
<1>3. CASE ~Changed
  <2>1. PICK skip : skip = IF Gap THEN 0 ELSE cursor.sequence + 1 - Oldest
    OBVIOUS
  <2>2. Gap <=> q + 1 < o
    BY <1>1, <1>3 DEF Gap
  <2>3. skip \in Nat /\ (q + 1 < o => skip = 0) /\ (~(q + 1 < o) => skip = q + 1 - o)
    BY <1>1, <2>1, <2>2
  <2>4. Unseen = SubSeq(ring, skip + 1, n)
    BY <1>1, <1>3, <2>1 DEF Unseen
  <2>5. \A i \in (skip + 1)..n : i \in 1..n
    BY <2>3
  <2>6. \A i \in (skip + 1)..n : ring[i] \in Commands \cup {Report}
    BY <1>1, <2>5, ElementOfSeq
  <2>7. /\ Unseen \in Seq(Commands \cup {Report})
        /\ Len(Unseen) = IF skip + 1 <= n THEN n - (skip + 1) + 1 ELSE 0
        /\ \A i \in 1..(n - (skip + 1) + 1) : Unseen[i] = ring[(skip + 1) + i - 1]
    BY <1>1, <2>3, <2>4, <2>6, SubSeqProperties
  <2>8. m \in ToSet(Unseen) <=> \E i \in 1..Len(Unseen) : Unseen[i] = m
    BY <2>7, ToSetFacts
  <2>9. ASSUME NEW i \in 1..Len(Unseen), Unseen[i] = m
        PROVE  Unread(m)
    <3>1. skip + i \in 1..n /\ i \in 1..(n - (skip + 1) + 1) /\ (skip + 1) + i - 1 = skip + i
      BY <2>3, <2>7, <2>9
    <3>2. ring[skip + i] = m
      BY <2>7, <2>9, <3>1
    <3>3. o + (skip + i) > q + 1
      BY <2>3, <3>1
    <3>4. QED BY <1>1, <3>1, <3>2, <3>3 DEF Unread
  <2>10. ASSUME NEW j \in 1..n, ring[j] = m, o + j > q + 1
         PROVE  m \in ToSet(Unseen)
    <3>1. j > skip
      BY <2>3, <2>10
    <3>2. PICK i \in Nat : i = j - skip
      BY <2>3, <3>1
    <3>3. i \in 1..Len(Unseen) /\ i \in 1..(n - (skip + 1) + 1) /\ (skip + 1) + i - 1 = j
      BY <2>3, <2>7, <3>1, <3>2
    <3>4. QED BY <2>7, <2>8, <2>10, <3>3
  <2>11. Unread(m) => \E j \in 1..n : ring[j] = m /\ o + j > q + 1
    BY <1>1, <1>3 DEF Unread
  <2>12. QED BY <2>8, <2>9, <2>10, <2>11
<1>4. QED BY <1>2, <1>3

\* Coming is Awaited.
LEMMA ComingIsAwaited ==
  ASSUME TypeOK, NEW c, NEW m
  PROVE  Awaited(c, m) <=> Coming(receipt[c], m)
BY UnseenIsUnread DEF Awaited, Coming, Condemned

\* The daemon publishes e: it is unread, and so is what was unread, unless
\* the poller will be told of a gap or the stream is new to it.
LEMMA PublishUnread ==
  ASSUME TypeOK, Behind, NEW e \in Commands \cup {Report}, Publish(e), cursor' = cursor, stream' = stream
  PROVE  /\ Unread(e)'
         /\ Gap => Gap'
         /\ \A m : Unread(m) => Unread(m)' \/ Gap' \/ (Full /\ Changed /\ Head(ring) = m)
<1> DEFINE E == Commands \cup {Report}
<1>1. PICK n \in Nat, o \in Int, q \in Nat, z \in Nat :
        /\ n = Len(ring) /\ o = Oldest /\ q = cursor.sequence /\ z = nextSequence
        /\ ring \in Seq(E) /\ o = z - n
  BY Counters
<1>2. (Changed' <=> Changed) /\ nextSequence' = z + 1 /\ (~Changed => q < z)
  BY <1>1 DEF Changed, Publish, Behind
<1>3. CASE ~Full
  <2>1. ring' = Append(ring, e)
    BY <1>3 DEF Publish
  <2>2. /\ Len(ring') = n + 1 /\ ring'[n + 1] = e
        /\ \A i \in 1..n : ring'[i] = ring[i]
    BY <1>1, <2>1, AppendFacts
  <2>3. Oldest' = o
    BY <1>1, <1>2, <2>2 DEF Oldest
  <2>4. n + 1 \in 1..Len(ring') /\ \A i \in 1..n : i \in 1..Len(ring')
    BY <2>2
  <2>5. ~Changed => o + (n + 1) > q + 1
    BY <1>1, <1>2
  <2>6. Unread(e)'
    BY <1>1, <1>2, <2>2, <2>3, <2>4, <2>5 DEF Unread
  <2>7. Gap => Gap'
    BY <1>1, <1>2, <2>3 DEF Gap
  <2>8. ASSUME NEW m, Unread(m) PROVE Unread(m)'
    <3>1. PICK i \in 1..n : ring[i] = m /\ (Changed \/ o + i > q + 1)
      BY <1>1, <2>8 DEF Unread
    <3>2. ring'[i] = m /\ i \in 1..Len(ring')
      BY <2>2, <2>4, <3>1
    <3>3. QED BY <1>1, <1>2, <2>3, <3>1, <3>2 DEF Unread
  <2>9. QED BY <2>6, <2>7, <2>8
<1>4. CASE Full
  <2>1. ring' = Append(Tail(ring), e)
    BY <1>4 DEF Publish
  <2>2. n > 0 /\ ring # <<>>
    <3>1. n > 0
      BY <1>1, <1>4, CapacityAssumption DEF Full
    <3>2. QED BY <1>1, <3>1, EmptySeq
  <2>3. /\ Tail(ring) \in Seq(E) /\ Len(Tail(ring)) = n - 1 /\ Head(ring) = ring[1]
        /\ \A i \in 1..(n - 1) : Tail(ring)[i] = ring[i + 1]
    BY <1>1, <2>2, TailFacts
  <2>4. /\ Len(ring') = (n - 1) + 1 /\ ring'[(n - 1) + 1] = e
        /\ \A i \in 1..(n - 1) : ring'[i] = Tail(ring)[i]
    BY <1>1, <2>1, <2>3, AppendFacts
  <2>5. (n - 1) + 1 = n
    OBVIOUS
  <2>6. Len(ring') = n /\ ring'[n] = e /\ \A i \in 1..(n - 1) : ring'[i] = ring[i + 1]
    BY <2>3, <2>4, <2>5
  <2>7. Oldest' = o + 1
    BY <1>1, <1>2, <2>6 DEF Oldest
  <2>8. Unread(e)'
    <3>1. n \in 1..Len(ring') /\ (~Changed => (o + 1) + n > q + 1)
      BY <1>1, <1>2, <2>2, <2>6
    <3>2. QED BY <1>1, <1>2, <2>6, <2>7, <3>1 DEF Unread
  <2>9. ~Changed /\ q + 1 < o + 1 => Gap'
    BY <1>1, <1>2, <2>7 DEF Gap
  <2>10. Gap => Gap'
    BY <1>1, <2>9 DEF Gap
  <2>11. ASSUME NEW m, Unread(m) PROVE Unread(m)' \/ Gap' \/ (Full /\ Changed /\ Head(ring) = m)
    <3>1. PICK i \in 1..n : ring[i] = m /\ (Changed \/ o + i > q + 1)
      BY <1>1, <2>11 DEF Unread
    <3>2. CASE i = 1
      <4>1. ~Changed => q + 1 < o + 1
        BY <3>1, <3>2
      <4>2. QED BY <1>4, <2>3, <2>9, <3>1, <3>2, <4>1
    <3>3. CASE i # 1
      <4>1. PICK j \in 1..(n - 1) : j + 1 = i
        <5>1. i - 1 \in 1..(n - 1) /\ (i - 1) + 1 = i
          BY <3>3
        <5>2. QED BY <5>1
      <4>2. j \in 1..Len(ring') /\ ring'[j] = m
        BY <2>6, <3>1, <4>1
      <4>3. o + i > q + 1 => (o + 1) + j > q + 1
        BY <4>1
      <4>4. Unread(m)'
        BY <1>1, <1>2, <2>7, <3>1, <4>2, <4>3 DEF Unread
      <4>5. QED BY <4>4
    <3>4. QED BY <3>2, <3>3
  <2>12. QED BY <2>8, <2>10, <2>11
<1>5. QED BY <1>3, <1>4

-----------------------------------------------------------------------------
(* Each action.                                                             *)

\* A call is owed commands of its own.
LEMMA OwedFacts ==
  ASSUME IInv, NEW c \in Calls
  PROVE  Owed(c) \subseteq CommandsOf[c] /\ CommandsOf[c] \subseteq Commands
<1>1. remaining[c] \subseteq CommandsOf[c]
  BY DEF IInv, Accounted
<1>2. QED BY <1>1, CallAssumption DEF Owed, Left

\* A step of the daemon that publishes e: an outcome that has left the open
\* commands is in the ring.
LEMMA PublishDelivers ==
  ASSUME IInv, DInv, NEW e \in Commands \cup {Report}, Publish(e),
         UNCHANGED <<stream, cursor, channel, stage, receipt, remaining, early>>,
         open' \in {open, open \ {e}}
  PROVE  DInv'
<1>1. /\ Unread(e)' /\ (Gap => Gap')
      /\ \A m : Unread(m) => Unread(m)' \/ Gap' \/ (Full /\ Changed /\ Head(ring) = m)
  BY PublishUnread DEF DInv, IInv
<1>2. Changed' <=> Changed
  BY DEF Changed
<1>3. Behind'
  BY <1>2, Counters DEF DInv, Behind, Publish, IInv
<1>4. ASSUME NEW c \in Calls \ passedOver', NEW m \in Owed(c)' PROVE Coming(receipt[c], m)'
  <2>1. c \in Calls \ passedOver /\ ~(Full /\ Changed /\ Head(ring) \in CommandsOf[c])
    BY <1>4 DEF Publish
  <2>2. m \in Owed(c)
    BY <1>4 DEF Owed, Left
  <2>3. Coming(receipt[c], m)
    BY <2>1, <2>2 DEF DInv, Delivery
  <2>4. m \in CommandsOf[c]
    BY <2>2, OwedFacts
  <2>5. Condemned(receipt[c])' <=> Condemned(receipt[c])
    BY DEF Condemned
  <2>6. receipt[c] = stream /\ (m \in open \/ Unread(m)) => (m \in open' \/ Unread(m)') \/ Gap'
    BY <1>1, <2>1, <2>4
  <2>7. QED BY <1>1, <1>2, <2>3, <2>5, <2>6 DEF Coming
<1>5. Delivery'
  BY <1>4 DEF Delivery
<1>6. QED BY <1>3, <1>5 DEF DInv

\* Restart: every receipt is now of an older stream, which the poller will
\* find out.
LEMMA RestartDelivers ==
  ASSUME IInv, DInv, Restart
  PROVE  DInv'
<1>1. /\ stream' = stream + 1 /\ nextSequence' = 1
      /\ UNCHANGED <<cursor, channel, stage, receipt, remaining, early, passedOver>>
  BY DEF Restart, poller, tables
<1>2. /\ stream \in Nat /\ cursor.stream \in Nat
      /\ \A c \in Calls : receipt[c] \in Nat /\ receipt[c] <= stream
  BY Counters DEF IInv, TypeOK, DInv, Behind
<1>3. cursor.stream <= stream
  BY DEF DInv, Behind
<1>4. Changed' /\ \A c \in Calls : receipt'[c] # stream'
  BY <1>1, <1>2, <1>3 DEF Changed
<1>5. Behind'
  BY <1>1, <1>2, <1>3, <1>4 DEF Behind
<1>6. Delivery'
  BY <1>4 DEF Delivery, Coming
<1>7. QED BY <1>5, <1>6 DEF DInv

\* Accept: what the daemon takes on it owes.
LEMMA AcceptDelivers ==
  ASSUME IInv, DInv, NEW c \in Calls, Accept(c)
  PROVE  DInv'
<1>1. /\ stage' = [stage EXCEPT ![c] = "receipt"] /\ receipt' = [receipt EXCEPT ![c] = stream]
      /\ open' = open \cup CommandsOf[c]
      /\ UNCHANGED <<stream, ring, nextSequence, cursor, channel, remaining, early, passedOver>>
  BY DEF Accept, poller, tables
<1>2. /\ stage'[c] = "receipt" /\ receipt'[c] = stream
      /\ \A d \in Calls : d # c => stage'[d] = stage[d] /\ receipt'[d] = receipt[d]
  BY <1>1 DEF IInv, TypeOK
<1>3. (Changed' <=> Changed) /\ (Gap' <=> Gap) /\ (\A m : Unread(m)' <=> Unread(m))
      /\ \A s : Condemned(s)' <=> Condemned(s)
  BY <1>1 DEF Changed, Gap, Oldest, Unread, Condemned
<1>4. Behind'
  BY <1>1, <1>2, <1>3, Counters DEF DInv, Behind, IInv
<1>5. ASSUME NEW d \in Calls \ passedOver', NEW m \in Owed(d)' PROVE Coming(receipt[d], m)'
  <2>1. CASE d = c
    <3>1. m \in CommandsOf[c]
      BY <1>2, <1>5, <2>1 DEF Owed, Left
    <3>2. QED BY <1>1, <1>2, <2>1, <3>1 DEF Coming
  <2>2. CASE d # c
    <3>1. m \in Owed(d) /\ receipt'[d] = receipt[d]
      BY <1>1, <1>2, <1>5, <2>2 DEF Owed, Left
    <3>2. Coming(receipt[d], m)
      BY <1>1, <1>5, <3>1 DEF DInv, Delivery
    <3>3. QED BY <1>1, <1>3, <3>1, <3>2 DEF Coming
  <2>3. QED BY <2>1, <2>2
<1>6. QED BY <1>4, <1>5 DEF DInv, Delivery

\* Nothing happens to the daemon or on the way from it.
LEMMA OnItsWay ==
  ASSUME DInv, UNCHANGED <<stream, open, ring, nextSequence, cursor, receipt>>,
         ToSet(channel) \subseteq ToSet(channel')
  PROVE  /\ Behind'
         /\ \A c \in Calls : \A m : Coming(receipt[c], m) => Coming(receipt[c], m)'
<1>1. (Changed' <=> Changed) /\ (Gap' <=> Gap) /\ \A m : Unread(m)' <=> Unread(m)
  BY DEF Changed, Gap, Oldest, Unread
<1>2. Behind'
  BY <1>1 DEF DInv, Behind
<1>3. \A s : Condemned(s) => Condemned(s)'
  BY DEF Condemned
<1>4. QED BY <1>1, <1>2, <1>3 DEF Coming

\* CallFails: nothing more is owed to the call.
LEMMA CallFailsDelivers ==
  ASSUME IInv, DInv, NEW c \in Calls, CallFails(c)
  PROVE  DInv'
<1>1. /\ stage' = [stage EXCEPT ![c] = "done"] /\ stage[c] # "done"
      /\ UNCHANGED <<stream, open, ring, nextSequence, cursor, channel, receipt, remaining, early, passedOver>>
  BY DEF CallFails, daemon, poller, tables
<1>2. remaining[c] = {} /\ stage'[c] = "done" /\ \A d \in Calls : d # c => stage'[d] = stage[d]
  BY <1>1 DEF IInv, TypeOK, Accounted
<1>3. \A d \in Calls : Owed(d)' \subseteq Owed(d)
  <2>1. Owed(c)' = {}
    BY <1>1, <1>2 DEF Owed
  <2>2. \A d \in Calls : d # c => Owed(d)' = Owed(d)
    BY <1>1, <1>2 DEF Owed, Left
  <2>3. QED BY <2>1, <2>2
<1>4. Behind' /\ \A d \in Calls : \A m : Coming(receipt[d], m) => Coming(receipt[d], m)'
  BY <1>1, OnItsWay
<1>5. Delivery'
  BY <1>1, <1>3, <1>4 DEF DInv, Delivery
<1>6. QED BY <1>4, <1>5 DEF DInv

\* Register: what has no early outcome is still on its way.
LEMMA RegisterDelivers ==
  ASSUME IInv, DInv, NEW c \in Calls, Register(c)
  PROVE  DInv'
<1>1. /\ stage[c] = "receipt" /\ stage' = [stage EXCEPT ![c] = "done"]
      /\ early' = early \ KeysOf(c) /\ remaining' = [remaining EXCEPT ![c] = Left(c)]
      /\ UNCHANGED <<stream, open, ring, nextSequence, cursor, channel, receipt, passedOver>>
  BY DEF Register, daemon, poller
<1>2. /\ stage'[c] = "done" /\ remaining'[c] = Left(c)
      /\ \A d \in Calls : d # c => stage'[d] = stage[d] /\ remaining'[d] = remaining[d]
  BY <1>1 DEF IInv, TypeOK
<1>3. Owed(c)' = Owed(c)
  BY <1>1, <1>2 DEF Owed
<1>4. ASSUME NEW d \in Calls, d # c PROVE Owed(d)' = Owed(d)
  <2>1. \A m \in CommandsOf[d] : <<receipt[d], m>> \notin KeysOf(c)
    BY <1>4, CallAssumption DEF KeysOf
  <2>2. Left(d)' = Left(d)
    BY <1>1, <2>1 DEF Left
  <2>3. QED BY <1>2, <1>4, <2>2 DEF Owed
<1>5. Behind' /\ \A d \in Calls : \A m : Coming(receipt[d], m) => Coming(receipt[d], m)'
  BY <1>1, OnItsWay
<1>6. Delivery'
  BY <1>1, <1>3, <1>4, <1>5 DEF DInv, Delivery
<1>7. QED BY <1>5, <1>6 DEF DInv

\* Finish: the outcome is published.
LEMMA FinishDelivers ==
  ASSUME IInv, DInv, NEW m \in Commands, Finish(m)
  PROVE  DInv'
<1>1. /\ Publish(m) /\ open' = open \ {m}
      /\ UNCHANGED <<stream, cursor, channel, stage, receipt, remaining, early>>
  BY DEF Finish, poller, tables
<1>2. m \in Commands \cup {Report} /\ open' \in {open, open \ {m}}
  BY <1>1
<1>3. QED BY <1>1, <1>2, PublishDelivers

\* PublishReport: it takes a place of the ring.
LEMMA ReportDelivers ==
  ASSUME IInv, DInv, PublishReport
  PROVE  DInv'
<1>1. /\ Publish(Report) /\ open' = open
      /\ UNCHANGED <<stream, cursor, channel, stage, receipt, remaining, early>>
  BY DEF PublishReport, poller, tables
<1>2. Report \in Commands \cup {Report} /\ open' \in {open, open \ {Report}}
  BY <1>1
<1>3. QED BY <1>1, <1>2, PublishDelivers

\* What a poll adds to the channel: the notice, and every unread outcome.
LEMMA PollChannel ==
  ASSUME IInv, Poll
  PROVE  /\ ToSet(channel) \subseteq ToSet(channel')
         /\ Changed \/ Gap => Reset(stream, Gap) \in ToSet(channel')
         /\ \A m \in Commands : Unread(m) => Outcome(stream, m) \in ToSet(channel')
<1> DEFINE E == Commands \cup {Report}
           trans == [i \in DOMAIN Unseen |-> Translated(stream, Unseen[i])]
           X == {Translated(stream, x) : x \in E} \cup {Reset(stream, Gap)} \cup Events
<1>1. TypeOK /\ channel \in Seq(Events) /\ ring \in Seq(E)
  BY DEF IInv, TypeOK
<1>2. channel \in Seq(X)
  BY <1>1, SeqMonotonic
<1>3. Unseen \in Seq(E)
  BY <1>1, UnseenFacts DEF TypeOK
<1>4. PICK n \in Nat : n = Len(Unseen) /\ DOMAIN Unseen = 1..n
  BY <1>3, LenProperties
<1>5. \A i \in 1..n : Unseen[i] \in E
  BY <1>3, <1>4, ElementOfSeq
<1>6. trans \in [1..n -> X]
  BY <1>4, <1>5
<1>7. trans \in Seq(X) /\ Len(trans) = n
  BY <1>6
<1>8. \A i \in 1..n : trans[i] = Translated(stream, Unseen[i])
  BY <1>4
<1>9. Notice \in Seq(X) /\ (Changed \/ Gap => Reset(stream, Gap) \in ToSet(Notice))
  <2>1. PICK r : r = Reset(stream, Gap)
    OBVIOUS
  <2>2. r \in X
    BY <2>1
  <2>3. <<r>> \in Seq(X) /\ <<>> \in Seq(X) /\ Head(<<r>>) = r /\ <<r>> # <<>>
    BY <2>2
  <2>4. r \in ToSet(<<r>>)
    BY DEF ToSet
  <2>5. QED BY <2>1, <2>3, <2>4 DEF Notice
<1> HIDE DEF trans, X, E
<1>10. /\ channel \o Notice \in Seq(X)
       /\ ToSet(channel \o Notice) = ToSet(channel) \cup ToSet(Notice)
  BY <1>2, <1>9, ConcatSet
<1>11. ToSet((channel \o Notice) \o trans) = ToSet(channel \o Notice) \cup ToSet(trans)
  <2>1. PICK front : front = channel \o Notice
    OBVIOUS
  <2>2. front \in Seq(X)
    BY <1>10, <2>1
  <2>3. ToSet(front \o trans) = ToSet(front) \cup ToSet(trans)
    BY <1>7, <2>2, ConcatSet
  <2>4. QED BY <2>1, <2>3
<1>12. channel' = (channel \o Notice) \o trans
  BY DEF Poll, trans
<1>13. ASSUME NEW m \in Commands, Unread(m) PROVE Outcome(stream, m) \in ToSet(channel')
  <2>1. m \in ToSet(Unseen)
    BY <1>1, <1>13, UnseenIsUnread
  <2>2. PICK i \in 1..n : Unseen[i] = m
    BY <1>3, <1>4, <2>1, ToSetFacts
  <2>3. trans[i] = Outcome(stream, m)
    BY <1>8, <2>2, CallAssumption DEF Translated
  <2>4. Outcome(stream, m) \in ToSet(trans)
    BY <1>7, <2>2, <2>3, ToSetFacts
  <2>5. QED BY <1>11, <1>12, <2>4
<1>14. QED BY <1>9, <1>10, <1>11, <1>12, <1>13

\* Poll: what was unread is in the channel, and so is the reset that the
\* poller had to find out about.
LEMMA PollDelivers ==
  ASSUME IInv, DInv, Poll
  PROVE  DInv'
<1>1. /\ cursor' = [stream |-> stream, sequence |-> nextSequence - 1]
      /\ UNCHANGED <<stream, open, ring, nextSequence, stage, receipt, remaining, early, passedOver>>
  BY DEF Poll, daemon, tables
<1>2. /\ ToSet(channel) \subseteq ToSet(channel')
      /\ Changed \/ Gap => Reset(stream, Gap) \in ToSet(channel')
      /\ \A m \in Commands : Unread(m) => Outcome(stream, m) \in ToSet(channel')
  BY PollChannel
<1>3. cursor'.stream = stream /\ cursor'.sequence = nextSequence - 1
  BY <1>1
<1>4. Behind'
  BY <1>1, <1>3, Counters DEF DInv, Behind, Changed, IInv
<1>5. \A s : Condemned(s) => Condemned(s)'
  BY <1>2 DEF Condemned
<1>6. \A s : (Changed /\ s # stream) \/ Gap => Condemned(s)'
  <2>1. /\ Reset(stream, Gap).kind = "reset" /\ Reset(stream, Gap).stream = stream
        /\ Reset(stream, Gap).gap = Gap
    BY DEF Reset
  <2>2. QED BY <1>2, <2>1 DEF Condemned
<1>7. ASSUME NEW c \in Calls \ passedOver', NEW m \in Owed(c)' PROVE Coming(receipt[c], m)'
  <2>1. c \in Calls \ passedOver /\ m \in Owed(c)
    BY <1>1, <1>7 DEF Owed, Left
  <2>2. Coming(receipt[c], m)
    BY <2>1 DEF DInv, Delivery
  <2>3. m \in Commands
    BY <2>1, OwedFacts
  <2>4. receipt[c] = stream /\ Unread(m) => Outcome(receipt[c], m) \in ToSet(channel')
    BY <1>2, <2>3
  <2>5. Outcome(receipt[c], m) \in ToSet(channel) => Outcome(receipt[c], m) \in ToSet(channel')
    BY <1>2
  <2>6. \/ receipt[c] = stream /\ m \in open
        \/ Outcome(receipt[c], m) \in ToSet(channel')
        \/ Condemned(receipt[c])'
    <3>1. Condemned(receipt[c]) \/ (Changed /\ receipt[c] # stream) \/ Gap => Condemned(receipt[c])'
      BY <1>1, <1>5, <1>6 DEF Condemned
    <3>2. QED BY <2>2, <2>4, <2>5, <3>1 DEF Coming
  <2>7. receipt'[c] = receipt[c] /\ stream' = stream /\ open' = open
    BY <1>1
  <2>8. Outcome(receipt[c], m)' = Outcome(receipt[c], m)
    BY <2>7 DEF Outcome
  <2>9. QED BY <2>6, <2>7, <2>8 DEF Coming, Condemned
<1>8. QED BY <1>4, <1>7 DEF DInv, Delivery

\* The event loop takes one event: what was coming still is, unless that was
\* its outcome or its reset.
LEMMA ApplyTakes ==
  ASSUME IInv, DInv, Apply
  PROVE  /\ Behind' /\ receipt' = receipt /\ stage' = stage
         /\ \A c \in Calls : \A m : Coming(receipt[c], m) =>
              \/ Coming(receipt[c], m)'
              \/ Head(channel) = Outcome(receipt[c], m)
              \/ /\ Head(channel).kind = "reset"
                 /\ Head(channel).gap \/ receipt[c] # Head(channel).stream
<1>1. UNCHANGED <<stream, open, ring, nextSequence, cursor, stage, receipt>>
  BY ApplyFacts
<1>2. channel \in Seq(Events) /\ channel # <<>> /\ channel' = Tail(channel)
  BY DEF IInv, TypeOK, Apply
<1>3. ToSet(channel) = ToSet(channel') \cup {Head(channel)}
  BY <1>2, TailFacts
<1>4. (Changed' <=> Changed) /\ (Gap' <=> Gap) /\ \A m : Unread(m)' <=> Unread(m)
  BY <1>1 DEF Changed, Gap, Oldest, Unread
<1>5. Behind'
  BY <1>1, <1>4 DEF DInv, Behind
<1>6. ASSUME NEW c \in Calls, NEW m, Coming(receipt[c], m),
             Head(channel) # Outcome(receipt[c], m),
             ~(Head(channel).kind = "reset" /\ (Head(channel).gap \/ receipt[c] # Head(channel).stream))
      PROVE  Coming(receipt[c], m)'
  <2>1. Condemned(receipt[c]) => Condemned(receipt[c])'
    BY <1>1, <1>3, <1>6 DEF Condemned
  <2>2. Outcome(receipt[c], m) \in ToSet(channel) => Outcome(receipt[c], m)' \in ToSet(channel')
    BY <1>1, <1>3, <1>6 DEF Outcome
  <2>3. QED BY <1>1, <1>4, <1>6, <2>1, <2>2 DEF Coming
<1>7. QED BY <1>1, <1>5, <1>6

\* An outcome in the channel's front, read back.
LEMMA OutcomeFields ==
  ASSUME NEW s, NEW m
  PROVE  Outcome(s, m).kind = "outcome" /\ Outcome(s, m).stream = s /\ Outcome(s, m).command = m
BY DEF Outcome

\* Reconcile: the outcome leaves with the command that waited for it.
LEMMA ReconcileDelivers ==
  ASSUME IInv, DInv, Apply, Head(channel).kind = "outcome", Reconcile(Head(channel))
  PROVE  DInv'
<1>1. PICK e, k, o : e = Head(channel) /\ k = <<e.stream, e.command>> /\ o = owner[k]
  OBVIOUS
<1>2. /\ k \in DOMAIN owner /\ remaining' = [remaining EXCEPT ![o] = remaining[o] \ {e.command}]
      /\ early' = early /\ passedOver' = passedOver
  BY <1>1 DEF Reconcile
<1>3. o \in Calls /\ e.stream = receipt[o] /\ e.command \in remaining[o] /\ remaining \in [Calls -> SUBSET Commands]
  <2>1. o \in Calls /\ k \in {receipt[o]} \X remaining[o]
    BY <1>1, <1>2 DEF IInv, TypeOK, TablesAgree
  <2>2. QED BY <1>1, <2>1 DEF IInv, TypeOK
<1>4. /\ Behind' /\ receipt' = receipt /\ stage' = stage
      /\ \A c \in Calls : \A m : Coming(receipt[c], m) =>
              \/ Coming(receipt[c], m)'
              \/ Head(channel) = Outcome(receipt[c], m)
              \/ /\ Head(channel).kind = "reset"
                 /\ Head(channel).gap \/ receipt[c] # Head(channel).stream
  BY ApplyTakes
<1>5. /\ remaining'[o] = remaining[o] \ {e.command}
      /\ \A d \in Calls : d # o => remaining'[d] = remaining[d]
  BY <1>2, <1>3
<1>6. stage[o] # "receipt"
  BY <1>3 DEF IInv, Accounted
<1>7. ASSUME NEW c \in Calls \ passedOver', NEW m \in Owed(c)' PROVE Coming(receipt[c], m)'
  <2>1. m \in Owed(c)
    <3>1. CASE c = o
      BY <1>4, <1>5, <1>6, <1>7, <3>1 DEF Owed
    <3>2. CASE c # o
      BY <1>2, <1>4, <1>5, <1>7, <3>2 DEF Owed, Left
    <3>3. QED BY <3>1, <3>2
  <2>2. Coming(receipt[c], m)
    BY <1>2, <1>7, <2>1 DEF DInv, Delivery
  <2>3. e # Outcome(receipt[c], m)
    <3>1. SUFFICES ASSUME e = Outcome(receipt[c], m) PROVE FALSE
      OBVIOUS
    <3>2. e.command = m
      BY <3>1, OutcomeFields
    <3>3. m \in CommandsOf[c] /\ m \in CommandsOf[o]
      BY <1>3, <2>1, <3>2, OwedFacts DEF IInv, Accounted
    <3>4. c = o
      BY <1>3, <3>3, CallAssumption
    <3>5. m \notin Owed(c)'
      BY <1>4, <1>5, <1>6, <3>2, <3>4 DEF Owed
    <3>6. QED BY <1>7, <3>5
  <2>4. QED BY <1>1, <1>4, <2>2, <2>3
<1>8. QED BY <1>4, <1>7 DEF DInv, Delivery

\* Defer: an outcome that nothing waits for yet is kept for its receipt; the
\* call whose outcome makes room for it is passed over.
LEMMA DeferDelivers ==
  ASSUME IInv, DInv, Apply, Head(channel).kind = "outcome", Defer(Head(channel))
  PROVE  DInv'
<1>1. PICK e, k : e = Head(channel) /\ k = <<e.stream, e.command>>
  OBVIOUS
<1>2. /\ k \notin DOMAIN owner /\ remaining' = remaining /\ early' \in Kept(k)
      /\ passedOver' = passedOver \cup {c \in Calls : KeysOf(c) \cap (early \ early') # {}}
  BY <1>1 DEF Defer
<1>3. k \in early'
  BY <1>2 DEF Kept
<1>4. /\ Behind' /\ receipt' = receipt /\ stage' = stage
      /\ \A c \in Calls : \A m : Coming(receipt[c], m) =>
              \/ Coming(receipt[c], m)'
              \/ Head(channel) = Outcome(receipt[c], m)
              \/ /\ Head(channel).kind = "reset"
                 /\ Head(channel).gap \/ receipt[c] # Head(channel).stream
  BY ApplyTakes
<1>5. ASSUME NEW c \in Calls \ passedOver', NEW m \in Owed(c)' PROVE Coming(receipt[c], m)'
  <2>1. c \notin passedOver /\ KeysOf(c) \cap (early \ early') = {}
    BY <1>2, <1>5
  <2>2. m \in Owed(c)
    <3>1. CASE stage[c] = "receipt"
      <4>1. m \in CommandsOf[c] /\ <<receipt[c], m>> \notin early'
        BY <1>4, <1>5, <3>1 DEF Owed, Left
      <4>2. <<receipt[c], m>> \in KeysOf(c)
        BY <4>1 DEF KeysOf
      <4>3. <<receipt[c], m>> \notin early
        BY <2>1, <4>1, <4>2
      <4>4. QED BY <3>1, <4>1, <4>3 DEF Owed, Left
    <3>2. CASE stage[c] # "receipt"
      BY <1>2, <1>4, <1>5, <3>2 DEF Owed
    <3>3. QED BY <3>1, <3>2
  <2>3. Coming(receipt[c], m)
    BY <1>5, <2>1, <2>2 DEF DInv, Delivery
  <2>4. e # Outcome(receipt[c], m)
    <3>1. SUFFICES ASSUME e = Outcome(receipt[c], m) PROVE FALSE
      OBVIOUS
    <3>2. k = <<receipt[c], m>>
      BY <1>1, <3>1, OutcomeFields
    <3>3. CASE stage[c] = "receipt"
      BY <1>3, <1>4, <1>5, <3>2, <3>3 DEF Owed, Left
    <3>4. CASE stage[c] # "receipt"
      <4>1. m \in remaining[c]
        BY <2>2, <3>4 DEF Owed
      <4>2. k \in {receipt[c]} \X remaining[c] /\ k \in Keys
        BY <3>2, <4>1 DEF IInv, TypeOK, Keys
      <4>3. k \in DOMAIN owner
        BY <4>2 DEF IInv, TablesAgree
      <4>4. QED BY <1>2, <4>3
    <3>5. QED BY <3>3, <3>4
  <2>5. QED BY <1>1, <1>4, <2>3, <2>4
<1>6. QED BY <1>4, <1>5 DEF DInv, Delivery

\* ApplyReset: it fails the dispatches it was sent for; a call that it comes
\* too early for is passed over.
LEMMA ResetDelivers ==
  ASSUME IInv, DInv, Apply, Head(channel).kind = "reset", ApplyReset(Head(channel))
  PROVE  DInv'
<1>1. PICK e : e = Head(channel)
  OBVIOUS
<1>2. /\ remaining' = [c \in Calls |-> IF c \in Hit(e) THEN {} ELSE remaining[c]]
      /\ early' = {k \in early : ~e.gap /\ k[1] = e.stream}
      /\ passedOver' = passedOver \cup
           {c \in Calls : stage[c] = "receipt" /\ (e.gap \/ receipt[c] # e.stream)}
  BY <1>1 DEF ApplyReset
<1>3. /\ Behind' /\ receipt' = receipt /\ stage' = stage
      /\ \A c \in Calls : \A m : Coming(receipt[c], m) =>
              \/ Coming(receipt[c], m)'
              \/ Head(channel) = Outcome(receipt[c], m)
              \/ /\ Head(channel).kind = "reset"
                 /\ Head(channel).gap \/ receipt[c] # Head(channel).stream
  BY ApplyTakes
<1>4. ASSUME NEW c \in Calls \ passedOver', NEW m \in Owed(c)' PROVE Coming(receipt[c], m)'
  <2>1. c \notin passedOver /\ ~(stage[c] = "receipt" /\ (e.gap \/ receipt[c] # e.stream))
    BY <1>2, <1>4
  <2>2. m \in Owed(c) /\ ~(e.gap \/ receipt[c] # e.stream)
    <3>1. CASE stage[c] = "receipt"
      <4>1. m \in CommandsOf[c] /\ <<receipt[c], m>> \notin early' /\ ~e.gap /\ receipt[c] = e.stream
        BY <1>3, <1>4, <2>1, <3>1 DEF Owed, Left
      <4>2. <<receipt[c], m>>[1] = e.stream
        BY <4>1
      <4>3. <<receipt[c], m>> \notin early
        BY <1>2, <4>1, <4>2
      <4>4. QED BY <3>1, <4>1, <4>3 DEF Owed, Left
    <3>2. CASE stage[c] # "receipt"
      <4>1. m \in remaining'[c]
        BY <1>3, <1>4, <3>2 DEF Owed
      <4>2. c \notin Hit(e) /\ m \in remaining[c]
        BY <1>2, <4>1
      <4>3. ~(e.gap \/ receipt[c] # e.stream)
        BY <4>2 DEF Hit
      <4>4. QED BY <3>2, <4>2, <4>3 DEF Owed
    <3>3. QED BY <3>1, <3>2
  <2>3. Coming(receipt[c], m)
    BY <1>4, <2>1, <2>2 DEF DInv, Delivery
  <2>4. e # Outcome(receipt[c], m)
    BY <1>1, OutcomeFields
  <2>5. QED BY <1>1, <1>3, <2>2, <2>3, <2>4
<1>5. QED BY <1>3, <1>4 DEF DInv, Delivery

\* A report of the stream concerns no dispatch.
LEMMA QuietDelivers ==
  ASSUME IInv, DInv, Apply, Head(channel).kind = "report", UNCHANGED <<tables, marks, passedOver>>
  PROVE  DInv'
<1>1. /\ Behind' /\ receipt' = receipt /\ stage' = stage
      /\ \A c \in Calls : \A m : Coming(receipt[c], m) =>
              \/ Coming(receipt[c], m)'
              \/ Head(channel) = Outcome(receipt[c], m)
              \/ /\ Head(channel).kind = "reset"
                 /\ Head(channel).gap \/ receipt[c] # Head(channel).stream
  BY ApplyTakes
<1>2. \A s, m : Head(channel) # Outcome(s, m)
  BY OutcomeFields
<1>3. remaining' = remaining /\ early' = early /\ passedOver' = passedOver
  BY DEF tables
<1>4. \A c \in Calls : Owed(c)' = Owed(c)
  BY <1>1, <1>3 DEF Owed, Left
<1>5. Delivery'
  BY <1>1, <1>2, <1>3, <1>4 DEF DInv, Delivery
<1>6. QED BY <1>1, <1>5 DEF DInv

-----------------------------------------------------------------------------

\* The initial state owes nothing.
LEMMA InitDelivers == Init => DInv
<1> SUFFICES ASSUME Init PROVE DInv
  OBVIOUS
<1>1. Behind
  BY DEF Init, Behind, Changed
<1>2. \A c \in Calls : Owed(c) = {}
  BY DEF Init, Owed
<1>3. QED BY <1>1, <1>2 DEF DInv, Delivery

\* Every step keeps what is owed on its way.
LEMMA NextDelivers == IInv /\ DInv /\ [Next]_vars => DInv'
<1> SUFFICES ASSUME IInv, DInv, [Next]_vars PROVE DInv'
  OBVIOUS
<1>1. CASE \E m \in Commands : Finish(m)
  BY <1>1, FinishDelivers
<1>2. CASE PublishReport \/ Restart \/ Poll
  BY <1>2, ReportDelivers, RestartDelivers, PollDelivers
<1>3. CASE \E c \in Calls : Accept(c) \/ CallFails(c) \/ Register(c)
  BY <1>3, AcceptDelivers, CallFailsDelivers, RegisterDelivers
<1>4. CASE Apply
  <2>1. \/ Head(channel).kind = "outcome" /\ Reconcile(Head(channel))
        \/ Head(channel).kind = "outcome" /\ Defer(Head(channel))
        \/ Head(channel).kind = "reset" /\ ApplyReset(Head(channel))
        \/ Head(channel).kind = "report" /\ UNCHANGED <<tables, marks, passedOver>>
    BY <1>4 DEF Apply
  <2>2. QED BY <1>4, <2>1, ReconcileDelivers, DeferDelivers, ResetDelivers, QuietDelivers
<1>5. CASE UNCHANGED vars
  <2>1. UNCHANGED <<stream, open, ring, nextSequence, cursor, channel, stage, receipt,
                    remaining, early, passedOver>>
    BY <1>5 DEF vars, daemon, poller, tables
  <2>2. Behind' /\ \A d \in Calls : \A m : Coming(receipt[d], m) => Coming(receipt[d], m)'
    BY <2>1, OnItsWay
  <2>3. \A c \in Calls : Owed(c)' = Owed(c)
    BY <2>1 DEF Owed, Left
  <2>4. QED BY <2>1, <2>2, <2>3 DEF DInv, Delivery
<1>6. QED BY <1>1, <1>2, <1>3, <1>4, <1>5 DEF Next

\* No dispatch waits for an outcome that can no longer come, whatever the
\* capacities of the ring and of the early outcomes, however often the daemon
\* is restarted (reset_integration_dispatches_for_hub,
\* reconcile_integration_outcome, register_integration_dispatch).
THEOREM NothingStranded == Spec => []NoneStranded
<1>1. IInv /\ DInv => NoneStranded
  <2>1. SUFFICES ASSUME IInv, DInv, NEW c \in Calls \ passedOver, NEW m \in remaining[c]
                 PROVE  Awaited(c, m)
    BY DEF NoneStranded
  <2>2. Owed(c) = remaining[c]
    BY <2>1 DEF IInv, Accounted, Owed
  <2>3. Coming(receipt[c], m)
    BY <2>1, <2>2 DEF DInv, Delivery
  <2>4. TypeOK
    BY <2>1 DEF IInv
  <2>5. QED BY <2>3, <2>4, ComingIsAwaited
<1>2. Spec => []IInv
  BY Inductive
<1>3. QED BY <1>1, <1>2, InitDelivers, NextDelivers, PTL DEF Spec
=============================================================================
