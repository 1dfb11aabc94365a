------------------------------ MODULE SeqLemmas ------------------------------
(***************************************************************************)
(* What the operators on sequences that the models use return, for every   *)
(* sequence: RemoveAt, RemoveFirst, Append, Tail and concatenation, by     *)
(* position and, for a sequence without repetitions (a queue in which      *)
(* every owner stands at most once), by the set of their elements.         *)
(***************************************************************************)
EXTENDS SequencesExt, TLAPS, SequenceTheorems

\* What RemoveAt returns, by position.
LEMMA RemoveAtFacts ==
  ASSUME NEW S, NEW s \in Seq(S), NEW i \in DOMAIN s
  PROVE  /\ RemoveAt(s, i) \in Seq(S)
         /\ Len(RemoveAt(s, i)) = Len(s) - 1
         /\ \A j \in 1..(Len(s) - 1) :
              RemoveAt(s, i)[j] = IF j < i THEN s[j] ELSE s[j + 1]
<1>0. /\ Len(s) \in Nat /\ i \in Nat /\ 1 <= i /\ i <= Len(s)
      /\ \A j \in 1..Len(s) : s[j] \in S
  BY LenProperties, ElementOfSeq
<1>1. PICK a : a = SubSeq(s, 1, i - 1)
  OBVIOUS
<1>2. PICK b : b = SubSeq(s, i + 1, Len(s))
  OBVIOUS
<1>3. /\ a \in Seq(S) /\ Len(a) = i - 1
      /\ \A j \in 1..(i - 1) : a[j] = s[j]
  <2>1. \A j \in 1..(i - 1) : s[j] \in S
    BY <1>0
  <2>2. /\ a \in Seq(S) /\ Len(a) = IF 1 <= i - 1 THEN i - 1 - 1 + 1 ELSE 0
        /\ \A j \in 1..(i - 1 - 1 + 1) : a[j] = s[1 + j - 1]
    BY <1>0, <1>1, <2>1, SubSeqProperties
  <2>3. QED BY <1>0, <2>2
<1>4. /\ b \in Seq(S) /\ Len(b) = Len(s) - i
      /\ \A j \in 1..(Len(s) - i) : b[j] = s[i + j]
  <2>1. \A j \in (i + 1)..Len(s) : s[j] \in S
    BY <1>0
  <2>2. /\ b \in Seq(S) /\ Len(b) = IF i + 1 <= Len(s) THEN Len(s) - (i + 1) + 1 ELSE 0
        /\ \A j \in 1..(Len(s) - (i + 1) + 1) : b[j] = s[(i + 1) + j - 1]
    BY <1>0, <1>2, <2>1, SubSeqProperties
  <2>3. Len(s) \in Nat /\ i \in Nat /\ i <= Len(s)
    BY <1>0
  <2>4. Len(b) = Len(s) - i /\ Len(s) - (i + 1) + 1 = Len(s) - i
    BY <2>2, <2>3
  <2>5. ASSUME NEW j \in 1..(Len(s) - i)
        PROVE  b[j] = s[i + j]
    <3>1. j \in 1..(Len(s) - (i + 1) + 1)
      BY <2>4
    <3>2. b[j] = s[(i + 1) + j - 1]
      BY <2>2, <3>1
    <3>3. (i + 1) + j - 1 = i + j
      BY <2>3
    <3>4. QED BY <3>2, <3>3
  <2>6. QED BY <2>2, <2>4, <2>5
<1>5. RemoveAt(s, i) = a \o b
  BY <1>1, <1>2 DEF RemoveAt
<1>6. /\ a \o b \in Seq(S) /\ Len(a \o b) = Len(a) + Len(b)
      /\ \A j \in 1..Len(a) : (a \o b)[j] = a[j]
      /\ \A j \in 1..Len(b) : (a \o b)[Len(a) + j] = b[j]
  <2>1. a \in Seq(S) /\ b \in Seq(S)
    BY <1>3, <1>4
  <2>2. Len(a) \in Nat /\ Len(b) \in Nat
    BY <2>1, LenProperties
  <2>3. QED BY <2>1, <2>2, ConcatProperties
<1>7. ASSUME NEW j \in 1..(Len(s) - 1)
      PROVE  (a \o b)[j] = IF j < i THEN s[j] ELSE s[j + 1]
  <2>1. CASE j < i
    BY <2>1, <1>0, <1>3, <1>6
  <2>2. CASE ~(j < i)
    <3>0. Len(a) = i - 1
      BY <1>3
    <3>1. PICK d \in 1..(Len(s) - i) : i + d = j + 1 /\ Len(a) + d = j
      <4>1. j - (i - 1) \in 1..(Len(s) - i)
        BY <2>2, <1>0
      <4>2. i + (j - (i - 1)) = j + 1 /\ Len(a) + (j - (i - 1)) = j
        BY <3>0, <1>0
      <4>3. QED BY <4>1, <4>2
    <3>2. (a \o b)[j] = b[d] /\ b[d] = s[j + 1]
      <4>1. d \in 1..Len(b) /\ (a \o b)[Len(a) + d] = b[d]
        BY <3>1, <1>4, <1>6
      <4>2. b[d] = s[i + d]
        BY <3>1, <1>4
      <4>3. QED BY <3>1, <4>1, <4>2
    <3>3. QED BY <3>2, <2>2
  <2>3. QED BY <2>1, <2>2
<1>8. Len(a \o b) = Len(s) - 1
  <2>1. Len(a) = i - 1 /\ Len(b) = Len(s) - i /\ Len(a \o b) = Len(a) + Len(b)
    BY <1>3, <1>4, <1>6
  <2>2. QED BY <2>1, <1>0
<1>9. a \o b \in Seq(S)
  BY <1>6
<1>10. QED BY <1>5, <1>7, <1>8, <1>9

\* The tail of a sequence of at least two elements.
LEMMA LongTail ==
  ASSUME NEW S, NEW s \in Seq(S), Len(s) > 1
  PROVE  Tail(s) \in Seq(S) /\ Tail(s) # <<>>
<1>1. PICK m \in Nat : m = Len(s)
  BY LenProperties
<1>0. m > 1
  BY <1>1
<1>2. m # 0 /\ m - 1 # 0
  BY <1>0
<1>3. s # <<>>
  BY <1>1, <1>2, EmptySeq
<1>4. Tail(s) \in Seq(S) /\ Len(Tail(s)) = m - 1
  BY <1>1, <1>3, HeadTailProperties
<1>5. Len(<<>>) = 0
  BY EmptySeq
<1>6. Tail(s) # <<>>
  BY <1>2, <1>4, <1>5, Zenon
<1>7. QED BY <1>4, <1>6
-----------------------------------------------------------------------------
(* Queues.                                                                  *)

\* The elements of a sequence.
LEMMA ToSetFacts ==
  ASSUME NEW S, NEW s \in Seq(S)
  PROVE  /\ ToSet(s) \subseteq S
         /\ \A x : x \in ToSet(s) <=> \E i \in 1..Len(s) : s[i] = x
         /\ s = <<>> <=> ToSet(s) = {}
         /\ s # <<>> => Head(s) \in ToSet(s) /\ Head(s) = s[1]
<1>1. /\ Len(s) \in Nat /\ DOMAIN s = 1..Len(s)
      /\ \A i \in 1..Len(s) : s[i] \in S
  BY LenProperties, ElementOfSeq
<1>2. \A x : x \in ToSet(s) <=> \E i \in 1..Len(s) : s[i] = x
  BY <1>1 DEF ToSet
<1>3. ASSUME s # <<>>
      PROVE  1 \in 1..Len(s) /\ Head(s) = s[1] /\ Head(s) \in ToSet(s)
  <2>1. Len(s) \in Nat \ {0}
    BY <1>3, EmptySeq
  <2>2. 1 \in 1..Len(s)
    BY <2>1
  <2>3. Head(s) = s[1]
    OBVIOUS
  <2>4. QED BY <1>2, <2>2, <2>3
<1>4. ASSUME s = <<>>
      PROVE  ToSet(s) = {}
  <2>1. Len(s) = 0
    BY <1>4, EmptySeq
  <2>2. 1..Len(s) = {}
    BY <2>1
  <2>3. QED BY <1>2, <2>2
<1>5. ToSet(s) \subseteq S
  BY <1>1, <1>2
<1>6. QED BY <1>2, <1>3, <1>4, <1>5

\* An element put at the back.
LEMMA AppendFacts ==
  ASSUME NEW S, NEW s \in Seq(S), NEW e \in S
  PROVE  /\ Append(s, e) \in Seq(S)
         /\ Len(Append(s, e)) = Len(s) + 1
         /\ \A i \in 1..Len(s) : Append(s, e)[i] = s[i]
         /\ Append(s, e)[Len(s) + 1] = e
         /\ Append(s, e) # <<>>
         /\ ToSet(Append(s, e)) = ToSet(s) \cup {e}
<1>1. /\ Len(s) \in Nat
      /\ \A i \in 1..Len(s) : s[i] \in S
  BY LenProperties, ElementOfSeq
<1>2. /\ Append(s, e) \in Seq(S)
      /\ Len(Append(s, e)) = Len(s) + 1
      /\ \A i \in 1..Len(s) : Append(s, e)[i] = s[i]
      /\ Append(s, e)[Len(s) + 1] = e
  BY AppendProperties
<1>3. ASSUME NEW x
      PROVE  x \in ToSet(Append(s, e)) <=> x \in ToSet(s) \/ x = e
  <2>1. x \in ToSet(Append(s, e)) <=> \E i \in 1..(Len(s) + 1) : Append(s, e)[i] = x
    BY <1>2, ToSetFacts
  <2>2. x \in ToSet(s) <=> \E i \in 1..Len(s) : s[i] = x
    BY ToSetFacts
  <2>3. \A i : i \in 1..(Len(s) + 1) <=> i \in 1..Len(s) \/ i = Len(s) + 1
    BY <1>1
  <2>4. QED BY <1>2, <2>1, <2>2, <2>3
<1>4. e \in ToSet(Append(s, e))
  BY <1>3
<1>5. Append(s, e) # <<>>
  BY <1>2, <1>4, ToSetFacts
<1>6. ToSet(Append(s, e)) = ToSet(s) \cup {e}
  BY <1>3
<1>7. QED BY <1>2, <1>5, <1>6

\* An element without a place in the queue gets one.
LEMMA FreshAppend ==
  ASSUME NEW S, NEW s \in Seq(S), NEW e \in S, IsInjective(s), e \notin ToSet(s)
  PROVE  IsInjective(Append(s, e))
<1>1. /\ Append(s, e) \in Seq(S) /\ Len(Append(s, e)) = Len(s) + 1
      /\ \A i \in 1..Len(s) : Append(s, e)[i] = s[i]
      /\ Append(s, e)[Len(s) + 1] = e
  BY AppendFacts
<1>2. DOMAIN Append(s, e) = 1..(Len(s) + 1) /\ DOMAIN s = 1..Len(s) /\ Len(s) \in Nat
  BY <1>1, LenProperties
<1>3. \A i \in 1..Len(s) : s[i] # e
  BY ToSetFacts
<1>4. \A i : i \in 1..(Len(s) + 1) <=> i \in 1..Len(s) \/ i = Len(s) + 1
  BY <1>2
<1>5. ASSUME NEW a \in 1..(Len(s) + 1), NEW b \in 1..(Len(s) + 1),
             Append(s, e)[a] = Append(s, e)[b]
      PROVE  a = b
  <2>1. CASE a \in 1..Len(s) /\ b \in 1..Len(s)
    BY <1>1, <1>2, <1>5, <2>1 DEF IsInjective
  <2>2. CASE a = Len(s) + 1 \/ b = Len(s) + 1
    BY <1>1, <1>3, <1>4, <1>5, <2>2
  <2>3. QED BY <1>4, <2>1, <2>2
<1>6. QED BY <1>2, <1>5 DEF IsInjective

\* The first element leaves.
LEMMA TailFacts ==
  ASSUME NEW S, NEW s \in Seq(S), s # <<>>
  PROVE  /\ Tail(s) \in Seq(S) /\ Len(Tail(s)) = Len(s) - 1 /\ Len(s) > 0
         /\ \A i \in 1..(Len(s) - 1) : Tail(s)[i] = s[i + 1]
         /\ Head(s) \in S /\ Head(s) = s[1]
         /\ ToSet(s) = ToSet(Tail(s)) \cup {Head(s)}
<1>1. Len(s) \in Nat \ {0}
  BY EmptySeq
<1>2. /\ Tail(s) \in Seq(S) /\ Len(Tail(s)) = Len(s) - 1
      /\ \A i \in 1..(Len(s) - 1) : Tail(s)[i] = s[i + 1]
      /\ Head(s) \in S
  BY HeadTailProperties
<1>3. Head(s) = s[1]
  OBVIOUS
<1>4. ASSUME NEW x
      PROVE  x \in ToSet(s) <=> x \in ToSet(Tail(s)) \/ x = Head(s)
  <2>1. x \in ToSet(s) <=> \E i \in 1..Len(s) : s[i] = x
    BY ToSetFacts
  <2>2. x \in ToSet(Tail(s)) <=> \E i \in 1..(Len(s) - 1) : Tail(s)[i] = x
    BY <1>2, ToSetFacts
  <2>3. ASSUME x \in ToSet(s)
        PROVE  x \in ToSet(Tail(s)) \/ x = Head(s)
    <3>1. PICK i \in 1..Len(s) : s[i] = x
      BY <2>1, <2>3
    <3>2. CASE i = 1
      BY <3>1, <3>2, <1>3
    <3>3. CASE i # 1
      <4>1. PICK j \in 1..(Len(s) - 1) : j + 1 = i
        <5>1. i - 1 \in 1..(Len(s) - 1) /\ (i - 1) + 1 = i
          BY <1>1, <3>3
        <5>2. QED BY <5>1
      <4>2. Tail(s)[j] = x
        BY <1>2, <3>1, <4>1
      <4>3. QED BY <2>2, <4>2
    <3>4. QED BY <3>2, <3>3
  <2>4. ASSUME x \in ToSet(Tail(s))
        PROVE  x \in ToSet(s)
    <3>1. PICK i \in 1..(Len(s) - 1) : Tail(s)[i] = x
      BY <2>2, <2>4
    <3>2. s[i + 1] = x
      BY <1>2, <3>1
    <3>3. i + 1 \in 1..Len(s)
      BY <1>1
    <3>4. QED BY <2>1, <3>2, <3>3
  <2>5. Head(s) \in ToSet(s)
    BY ToSetFacts
  <2>6. QED BY <2>3, <2>4, <2>5
<1>5. Len(s) > 0
  BY <1>1
<1>6. ToSet(s) = ToSet(Tail(s)) \cup {Head(s)}
  BY <1>4
<1>7. QED BY <1>2, <1>3, <1>5, <1>6

\* The first element of a queue leaves, and stands nowhere else in it.
LEMMA QueueTail ==
  ASSUME NEW S, NEW s \in Seq(S), s # <<>>, IsInjective(s)
  PROVE  IsInjective(Tail(s)) /\ ToSet(Tail(s)) = ToSet(s) \ {Head(s)}
<1>1. /\ Tail(s) \in Seq(S) /\ Len(Tail(s)) = Len(s) - 1 /\ Len(s) > 0
      /\ \A i \in 1..(Len(s) - 1) : Tail(s)[i] = s[i + 1]
      /\ Head(s) = s[1]
      /\ ToSet(s) = ToSet(Tail(s)) \cup {Head(s)}
  BY TailFacts
<1>2. DOMAIN Tail(s) = 1..(Len(s) - 1) /\ DOMAIN s = 1..Len(s) /\ Len(s) \in Nat
  BY <1>1, LenProperties
<1>3. \A i \in 1..(Len(s) - 1) : i + 1 \in 1..Len(s) /\ i + 1 # 1 /\ i \in Nat
  BY <1>2
<1>4. IsInjective(Tail(s))
  <2>1. SUFFICES ASSUME NEW a \in 1..(Len(s) - 1), NEW b \in 1..(Len(s) - 1),
                        Tail(s)[a] = Tail(s)[b]
                 PROVE  a = b
    BY <1>2 DEF IsInjective
  <2>2. s[a + 1] = s[b + 1]
    BY <1>1, <2>1
  <2>3. a + 1 = b + 1
    BY <1>2, <1>3, <2>2 DEF IsInjective
  <2>4. QED BY <1>3, <2>3
<1>5. Head(s) \notin ToSet(Tail(s))
  <2>1. SUFFICES ASSUME NEW i \in 1..(Len(s) - 1), Tail(s)[i] = Head(s)
                 PROVE  FALSE
    BY <1>1, ToSetFacts
  <2>2. s[i + 1] = s[1] /\ 1 \in 1..Len(s)
    BY <1>1, <1>2, <2>1
  <2>3. i + 1 = 1
    BY <1>2, <1>3, <2>2 DEF IsInjective
  <2>4. QED BY <1>3, <2>3
<1>6. QED BY <1>1, <1>4, <1>5

\* An owner gives up its place in the queue; the others keep their order.
LEMMA RemoveFirstFacts ==
  ASSUME NEW S, NEW s \in Seq(S), NEW e, IsInjective(s)
  PROVE  /\ RemoveFirst(s, e) \in Seq(S)
         /\ IsInjective(RemoveFirst(s, e))
         /\ ToSet(RemoveFirst(s, e)) = ToSet(s) \ {e}
<1>1. /\ Len(s) \in Nat /\ DOMAIN s = 1..Len(s)
  BY LenProperties
<1>2. \A x : x \in ToSet(s) <=> \E i \in 1..Len(s) : s[i] = x
  BY ToSetFacts
<1>3. CASE e \notin ToSet(s)
  <2>1. ~\E i \in 1..Len(s) : s[i] = e
    BY <1>2, <1>3
  <2>2. RemoveFirst(s, e) = s
    BY <2>1 DEF RemoveFirst
  <2>3. QED BY <1>3, <2>2
<1>4. CASE e \in ToSet(s)
  <2>1. PICK i \in 1..Len(s) : s[i] = e
    BY <1>2, <1>4
  <2>2. SelectInSeq(s, LAMBDA v : v = e) = i
    <3>1. {j \in 1..Len(s) : s[j] = e} = {i}
      BY <1>1, <2>1 DEF IsInjective
    <3>2. i <= i
      BY <1>1
    <3>3. Min({i}) = i
      BY <3>2 DEF Min
    <3>4. QED BY <3>1, <3>3 DEF SelectInSeq
  <2>3. RemoveFirst(s, e) = RemoveAt(s, i)
    BY <2>1, <2>2 DEF RemoveFirst
  <2>4. PICK r : r = RemoveAt(s, i)
    OBVIOUS
  <2>5. /\ r \in Seq(S) /\ Len(r) = Len(s) - 1
        /\ \A j \in 1..(Len(s) - 1) : r[j] = IF j < i THEN s[j] ELSE s[j + 1]
    BY <1>1, <2>4, RemoveAtFacts
  <2>6. DOMAIN r = 1..(Len(s) - 1)
    BY <2>5, LenProperties
  <2>7. PICK at : at = [j \in 1..(Len(s) - 1) |-> IF j < i THEN j ELSE j + 1]
    OBVIOUS
  <2>8. \A j \in 1..(Len(s) - 1) : at[j] \in 1..Len(s) /\ at[j] # i /\ r[j] = s[at[j]]
    BY <1>1, <2>5, <2>7
  <2>9. \A a, b \in 1..(Len(s) - 1) : at[a] = at[b] => a = b
    BY <1>1, <2>7
  <2>10. IsInjective(r)
    <3>1. SUFFICES ASSUME NEW a \in 1..(Len(s) - 1), NEW b \in 1..(Len(s) - 1), r[a] = r[b]
                   PROVE  a = b
      BY <2>6 DEF IsInjective
    <3>2. at[a] = at[b]
      BY <1>1, <2>8, <3>1 DEF IsInjective
    <3>3. QED BY <2>9, <3>2
  <2>11. \A x : x \in ToSet(r) <=> \E j \in 1..(Len(s) - 1) : r[j] = x
    BY <2>5, ToSetFacts
  <2>12. ASSUME NEW x
         PROVE  x \in ToSet(r) <=> x \in ToSet(s) \ {e}
    <3>1. ASSUME x \in ToSet(r)
          PROVE  x \in ToSet(s) \ {e}
      <4>1. PICK j \in 1..(Len(s) - 1) : r[j] = x
        BY <2>11, <3>1
      <4>2. at[j] \in 1..Len(s) /\ at[j] # i /\ x = s[at[j]]
        BY <2>8, <4>1
      <4>3. x # e
        BY <1>1, <2>1, <4>2 DEF IsInjective
      <4>4. QED BY <1>2, <4>2, <4>3
    <3>2. ASSUME x \in ToSet(s) \ {e}
          PROVE  x \in ToSet(r)
      <4>1. PICK k \in 1..Len(s) : s[k] = x
        BY <1>2, <3>2
      <4>2. k # i
        BY <2>1, <3>2, <4>1
      <4>3. PICK j \in 1..(Len(s) - 1) : at[j] = k
        <5>1. CASE k < i
          <6>1. k \in 1..(Len(s) - 1) /\ at[k] = k
            BY <1>1, <2>7, <5>1
          <6>2. QED BY <6>1
        <5>2. CASE k > i
          <6>1. k - 1 \in 1..(Len(s) - 1) /\ ~(k - 1 < i) /\ (k - 1) + 1 = k
            BY <1>1, <5>2
          <6>2. at[k - 1] = k
            BY <2>7, <6>1
          <6>3. QED BY <6>1, <6>2
        <5>3. QED BY <4>2, <5>1, <5>2
      <4>4. r[j] = x
        BY <2>8, <4>1, <4>3
      <4>5. QED BY <2>11, <4>4
    <3>3. QED BY <3>1, <3>2
  <2>13. ToSet(r) = ToSet(s) \ {e}
    BY <2>12
  <2>14. QED BY <2>3, <2>4, <2>5, <2>10, <2>13
<1>5. QED BY <1>3, <1>4

\* What a concatenation holds.
LEMMA ConcatSet ==
  ASSUME NEW S, NEW s \in Seq(S), NEW t \in Seq(S)
  PROVE  s \o t \in Seq(S) /\ ToSet(s \o t) = ToSet(s) \cup ToSet(t)
<1>1. PICK n \in Nat, k \in Nat : n = Len(s) /\ k = Len(t)
  BY LenProperties
<1>2. /\ s \o t \in Seq(S) /\ Len(s \o t) = n + k
      /\ \A i \in 1..(n + k) : (s \o t)[i] = IF i <= n THEN s[i] ELSE t[i - n]
  BY <1>1, ConcatProperties
<1>3. /\ \A x : x \in ToSet(s) <=> \E i \in 1..n : s[i] = x
      /\ \A x : x \in ToSet(t) <=> \E i \in 1..k : t[i] = x
      /\ \A x : x \in ToSet(s \o t) <=> \E i \in 1..(n + k) : (s \o t)[i] = x
  BY <1>1, <1>2, ToSetFacts
<1>4. ASSUME NEW x \in ToSet(s \o t) PROVE x \in ToSet(s) \cup ToSet(t)
  <2>1. PICK i \in 1..(n + k) : (s \o t)[i] = x
    BY <1>3, <1>4
  <2>2. CASE i <= n
    <3>1. i \in 1..n /\ s[i] = x
      BY <1>2, <2>1, <2>2
    <3>2. QED BY <1>3, <3>1
  <2>3. CASE ~(i <= n)
    <3>1. i - n \in 1..k /\ t[i - n] = x
      BY <1>2, <2>1, <2>3
    <3>2. QED BY <1>3, <3>1
  <2>4. QED BY <2>2, <2>3
<1>5. ASSUME NEW x \in ToSet(s) PROVE x \in ToSet(s \o t)
  <2>1. PICK i \in 1..n : s[i] = x
    BY <1>3, <1>5
  <2>2. i \in 1..(n + k) /\ (s \o t)[i] = x
    BY <1>2, <2>1
  <2>3. QED BY <1>3, <2>2
<1>6. ASSUME NEW x \in ToSet(t) PROVE x \in ToSet(s \o t)
  <2>1. PICK i \in 1..k : t[i] = x
    BY <1>3, <1>6
  <2>2. PICK j \in Nat : j = n + i
    OBVIOUS
  <2>3. j \in 1..(n + k) /\ ~(j <= n) /\ j - n = i
    BY <2>2
  <2>4. (s \o t)[j] = x
    BY <1>2, <2>1, <2>3
  <2>5. QED BY <1>3, <2>3, <2>4
<1>7. QED BY <1>2, <1>4, <1>5, <1>6
=============================================================================
