------------------------- MODULE MotionTimersProofs --------------------------
(***************************************************************************)
(* The inductive invariant IInv of MotionTimers and what follows from it,  *)
(* for every home, every timeout and every delay of the periodic check     *)
(* that is not longer than the warning.                                    *)
(***************************************************************************)
EXTENDS MotionTimers, WellFoundedInduction, FiniteSetTheorems, TLAPS

-----------------------------------------------------------------------------
(* Bags and minima.                                                         *)

\* The elements of a bag when elements are added, and when one copy is taken
\* out.
LEMMA BagAdd ==
  ASSUME NEW B, NEW S
  PROVE  /\ BagToSet(B (+) SetToBag(S)) = BagToSet(B) \cup S
         /\ IsABag(B) => IsABag(B (+) SetToBag(S))
<1>1. BagToSet(B (+) SetToBag(S)) = BagToSet(B) \cup S
  BY DEF BagToSet, SetToBag, (+)
<1>2. IsABag(B) => IsABag(B (+) SetToBag(S))
  BY DEF IsABag, SetToBag, (+)
<1>3. QED BY <1>1, <1>2

\* One copy is taken out.
LEMMA BagRemove ==
  ASSUME NEW B, IsABag(B), NEW x
  PROVE  /\ IsABag(B (-) SetToBag({x}))
         /\ BagToSet(B (-) SetToBag({x})) \subseteq BagToSet(B)
         /\ BagToSet(B) \ {x} \subseteq BagToSet(B (-) SetToBag({x}))
<1>1. BagToSet(B (-) SetToBag({x})) \subseteq BagToSet(B)
  BY DEF BagToSet, SetToBag, (-)
<1>2. IsABag(B (-) SetToBag({x}))
  BY DEF IsABag, SetToBag, (-)
<1>3. BagToSet(B) \ {x} \subseteq BagToSet(B (-) SetToBag({x}))
  BY DEF IsABag, BagToSet, SetToBag, (-)
<1>4. QED BY <1>1, <1>2, <1>3

\* A set of numbers that is not empty has a least one.
LEMMA LeastNumber ==
  ASSUME NEW T, T \subseteq Nat, T # {}
  PROVE  \E x \in T : \A y \in T : x <= y
<1>1. IsWellFoundedOn(OpToRel(<, Nat), Nat)
  BY NatLessThanWellFounded
<1>2. PICK x \in T : \A y \in T : ~(<<y, x>> \in OpToRel(<, Nat))
  BY <1>1, WFMin
<1>3. \A y \in T : ~(y < x)
  BY <1>2 DEF OpToRel
<1>4. QED BY <1>3

-----------------------------------------------------------------------------
(* The inductive invariant.                                                 *)

Thread == [kind : Kinds, room : Rooms, at : {"started", "reading", "flagged"}]

\* The types, but for the number of threads.
Types ==
  /\ source \in [Pairs -> Untracked..(Horizon + 1)]
  /\ owned \subseteq Rooms /\ requested \subseteq Rooms /\ warned \subseteq Rooms
  /\ sinceCheck \in 0..MaxGap /\ clears \subseteq Rooms /\ breaker \in BOOLEAN
  /\ enabled \subseteq Rooms /\ scene \subseteq bound /\ bound \subseteq Rooms
  /\ reentered \subseteq Rooms /\ idle \subseteq Rooms
  /\ dimmed \subseteq Rooms /\ lights \in [Rooms -> {"off", "dim", "on"}]
  /\ IsABag(threads) /\ BagToSet(threads) \subseteq Thread
  /\ moving \subseteq Pairs /\ litBy \in [Rooms -> {"motion", "user", "mode", "left"}]
  /\ late \subseteq Rooms /\ tripped \subseteq Rooms /\ switches \in 0..MaxSwitches

\* A room that motion must leave alone has no timers or is about to lose them.
NotTracked == \A r \in Rooms : Suppressed(r) => r \in clears \/ SourcesOf(r) = {}

\* No countdown is longer over than the last check is ago ...
InTime ==
  \A r \in Rooms : SourcesOf(r) # {} /\ Timeout[r] > 0 =>
    \E p \in SourcesOf(r) : source[p] <= Timeout[r] + sinceCheck

\* ... and no warning is longer due.
WarnedInTime ==
  \A r \in owned \ warned : Timeout[r] > Warning =>
    \E p \in SourcesOf(r) : source[p] < (Timeout[r] - Warning) + sinceCheck

TimerInv == TimersAgree /\ NotTracked /\ InTime /\ WarnedInTime

\* What may act in a room that a scene owns: a user's thread, or the mood
\* that has brought the scene back.
SceneKinds == Users \cup {"restoreMood"}

\* A scene's room is idle and not dimmed, and but for a scene brought back
\* under an admitted thread no other thread is past its admission there.
SceneInv ==
  \A r \in scene :
    /\ r \in idle /\ r \notin dimmed
    /\ r \notin reentered =>
         \A t \in BagToSet(threads) : t.room = r /\ t.at # "started" => t.kind \in SceneKinds

IInv == Types /\ TimerInv /\ SceneInv

-----------------------------------------------------------------------------
(* What the helpers do.                                                     *)

\* The constants are numbers.
LEMMA Numbers ==
  /\ \A r \in Rooms : Timeout[r] \in Nat
  /\ Warning \in Nat /\ MaxGap \in Nat /\ MaxGap > 0 /\ MaxGap <= Warning /\ MaxSwitches \in Nat
  /\ Horizon \in Nat /\ \A r \in Rooms : MaxGap + Timeout[r] <= Horizon
  /\ Pairs = {p \in Sensors \X Rooms : p[2] \in TargetsOf[p[1]]}
  /\ \A p \in Pairs : p[2] \in Rooms
<1>1. PICK r \in Rooms : \A q \in Rooms : Timeout[q] <= Timeout[r]
  BY MotionAssumption
<1>2. \E t \in {Timeout[q] : q \in Rooms} : \A q \in Rooms : Timeout[q] <= t
  BY <1>1
<1> DEFINE top == CHOOSE t \in {Timeout[q] : q \in Rooms} : \A q \in Rooms : Timeout[q] <= t
<1>3. top \in {Timeout[q] : q \in Rooms} /\ \A q \in Rooms : Timeout[q] <= top
  BY <1>2
<1>4. Horizon = MaxGap + top
  BY DEF Horizon
<1>5. QED
  <2> HIDE DEF top
  <2>1. \A q \in Rooms : Timeout[q] \in Nat
    BY MotionAssumption
  <2>2. top \in Nat
    BY <1>3, <2>1
  <2>3. QED BY <1>3, <1>4, <2>1, <2>2, MotionAssumption, CadenceAssumption DEF Pairs

\* The sources of a room, one by one.
LEMMA SourceFacts ==
  ASSUME Types, NEW r \in Rooms
  PROVE  /\ SourcesOf(r) \subseteq Pairs
         /\ \A p \in Pairs : source[p] \in Int /\ source[p] >= -2
         /\ \A p : p \in SourcesOf(r) <=> p \in Pairs /\ p[2] = r /\ source[p] # -2
         /\ HasActive(r) <=> \E p \in Pairs : p[2] = r /\ source[p] = -1
<1>1. \A p \in Pairs : source[p] \in Int /\ source[p] >= -2
  BY Numbers DEF Types, Untracked
<1>2. QED BY <1>1 DEF SourcesOf, HasActive, Untracked, Active

\* The time since the last source stopped is that of one of them.
LEMMA ElapsedFacts ==
  ASSUME Types, NEW r \in Rooms, SourcesOf(r) # {}, ~HasActive(r)
  PROVE  /\ Elapsed(r) \in Nat
         /\ \E p \in SourcesOf(r) : source[p] = Elapsed(r)
         /\ \A p \in SourcesOf(r) : Elapsed(r) <= source[p]
<1> DEFINE T == {source[p] : p \in SourcesOf(r)}
<1>1. T # {} /\ T \subseteq Nat
  <2>1. \A p \in SourcesOf(r) : source[p] \in Nat
    BY SourceFacts
  <2>2. QED BY <2>1
<1>2. \E t \in T : \A u \in T : t <= u
  <2> HIDE DEF T
  <2>1. QED BY <1>1, LeastNumber
<1>3. \E t \in T : \A p \in SourcesOf(r) : t <= source[p]
  BY <1>2
<1>4. Elapsed(r) \in T /\ \A p \in SourcesOf(r) : Elapsed(r) <= source[p]
  BY <1>3 DEF Elapsed
<1>5. QED BY <1>1, <1>4

\* The timers do not change, and no room comes to be left alone without a
\* clear.
LEMMA TimersFrame ==
  ASSUME TimerInv, UNCHANGED <<source, owned, requested, warned, sinceCheck, moving>>,
         clears \subseteq clears', tripped \subseteq tripped',
         \A r \in Rooms : Suppressed(r)' => Suppressed(r) \/ r \in clears'
  PROVE  TimerInv'
<1>1. \A r : SourcesOf(r)' = SourcesOf(r) /\ (HasActive(r)' <=> HasActive(r))
  BY DEF SourcesOf, HasActive
<1>2. TimersAgree'
  BY <1>1 DEF TimerInv, TimersAgree, NoPhantom
<1>3. NotTracked'
  BY <1>1 DEF TimerInv, NotTracked
<1>4. InTime' /\ WarnedInTime'
  BY <1>1 DEF TimerInv, InTime, WarnedInTime
<1>5. QED BY <1>2, <1>3, <1>4 DEF TimerInv

\* The timers of the rooms rs are dropped.
LEMMA TimersDropped ==
  ASSUME Types, TimerInv, NEW rs, DropTimers(rs), moving' = moving,
         sinceCheck' = sinceCheck \/ Rooms \subseteq rs,
         \A r \in Rooms \ rs : /\ r \in clears \cup tripped => r \in clears' \cup tripped'
                               /\ r \in clears => r \in clears'
                               /\ Suppressed(r)' => Suppressed(r)
  PROVE  TimerInv'
<1>1. /\ source' = [p \in Pairs |-> IF p[2] \in rs THEN Untracked ELSE source[p]]
      /\ owned' = owned \ rs /\ requested' = requested \ rs /\ warned' = warned \ rs
  BY DEF DropTimers, Dropped
<1>2. \A p \in Pairs : source'[p] = IF p[2] \in rs THEN Untracked ELSE source[p]
  BY <1>1
<1>3. \A r : /\ r \in rs => SourcesOf(r)' = {} /\ ~HasActive(r)'
             /\ r \notin rs => SourcesOf(r)' = SourcesOf(r) /\ (HasActive(r)' <=> HasActive(r))
  BY <1>2 DEF SourcesOf, HasActive
<1>4. TimersAgree'
  <2>1. NoPhantom'
    <3>1. SUFFICES ASSUME NEW p \in Pairs, source'[p] = Active, p[2] \notin clears' \cup tripped'
                   PROVE  p \in moving
      BY DEF NoPhantom
    <3>2. p[2] \notin rs /\ source[p] = Active
      BY <1>2, <3>1 DEF Active, Untracked
    <3>3. QED BY <3>1, <3>2, Numbers DEF TimerInv, TimersAgree, NoPhantom
  <2>2. QED BY <1>1, <1>3, <2>1 DEF TimerInv, TimersAgree
<1>5. NotTracked'
  BY <1>3 DEF TimerInv, NotTracked
<1>6. InTime'
  <2>1. SUFFICES ASSUME NEW r \in Rooms, SourcesOf(r)' # {}, Timeout[r] > 0
                 PROVE  \E p \in SourcesOf(r)' : source'[p] <= Timeout[r] + sinceCheck'
    BY DEF InTime
  <2>2. r \notin rs /\ sinceCheck' = sinceCheck /\ SourcesOf(r)' = SourcesOf(r)
    BY <1>3, <2>1
  <2>3. PICK p \in SourcesOf(r) : source[p] <= Timeout[r] + sinceCheck
    BY <2>1, <2>2 DEF TimerInv, InTime
  <2>4. source'[p] = source[p]
    BY <1>2, <2>2, <2>3 DEF SourcesOf
  <2>5. QED BY <2>2, <2>3, <2>4
<1>7. WarnedInTime'
  <2>1. SUFFICES ASSUME NEW r \in owned' \ warned', Timeout[r] > Warning
                 PROVE  \E p \in SourcesOf(r)' : source'[p] < (Timeout[r] - Warning) + sinceCheck'
    BY DEF WarnedInTime
  <2>2. r \in owned \ warned /\ r \notin rs /\ r \in Rooms
    BY <1>1 DEF Types
  <2>3. sinceCheck' = sinceCheck /\ SourcesOf(r)' = SourcesOf(r)
    BY <1>3, <2>2
  <2>4. PICK p \in SourcesOf(r) : source[p] < (Timeout[r] - Warning) + sinceCheck
    BY <2>1, <2>2 DEF TimerInv, WarnedInTime
  <2>5. source'[p] = source[p]
    BY <1>2, <2>2, <2>4 DEF SourcesOf
  <2>6. QED BY <2>3, <2>4, <2>5
<1>8. QED BY <1>4, <1>5, <1>6, <1>7 DEF TimerInv

\* Threads end or start, and the rooms stay as they are.
LEMMA SceneFrame ==
  ASSUME SceneInv, UNCHANGED <<scene, reentered, idle, dimmed>>,
         \A t \in BagToSet(threads)' : t \in BagToSet(threads) \/ t.at = "started"
  PROVE  SceneInv'
<1>1. QED BY DEF SceneInv

\* The threads of a kind that are started.
LEMMA StartedFacts ==
  ASSUME Types, NEW k1 \in Kinds, NEW k2 \in Kinds, NEW R1, NEW R2, R1 \subseteq Rooms, R2 \subseteq Rooms,
         threads' = threads (+) Started(k1, R1) (+) Started(k2, R2)
  PROVE  /\ IsABag(threads)' /\ BagToSet(threads)' \subseteq Thread
         /\ \A t : t \in BagToSet(threads)' <=>
              \/ t \in BagToSet(threads)
              \/ \E r \in R1 : t = [kind |-> k1, room |-> r, at |-> "started"]
              \/ \E r \in R2 : t = [kind |-> k2, room |-> r, at |-> "started"]
<1> DEFINE S(k, R) == {[kind |-> k, room |-> r, at |-> "started"] : r \in R}
<1>1. threads' = threads (+) SetToBag(S(k1, R1)) (+) SetToBag(S(k2, R2))
  BY DEF Started
<1>2. /\ BagToSet(threads') = BagToSet(threads) \cup S(k1, R1) \cup S(k2, R2)
      /\ IsABag(threads')
  <2> HIDE DEF S
  <2>1. QED BY <1>1, BagAdd DEF Types
<1>3. S(k1, R1) \subseteq Thread /\ S(k2, R2) \subseteq Thread
  BY DEF Thread
<1>4. QED BY <1>2, <1>3 DEF Types

\* The threads of one kind are started, one for each of the rooms R.
LEMMA StartedOne ==
  ASSUME Types, NEW k \in Kinds, NEW R, R \subseteq Rooms, threads' = threads (+) Started(k, R)
  PROVE  /\ IsABag(threads)' /\ BagToSet(threads)' \subseteq Thread
         /\ \A t : t \in BagToSet(threads)' <=>
              \/ t \in BagToSet(threads)
              \/ \E r \in R : t = [kind |-> k, room |-> r, at |-> "started"]
<1> DEFINE S == {[kind |-> k, room |-> r, at |-> "started"] : r \in R}
<1>1. threads' = threads (+) SetToBag(S)
  BY DEF Started
<1>2. BagToSet(threads') = BagToSet(threads) \cup S /\ IsABag(threads')
  <2> HIDE DEF S
  <2>1. QED BY <1>1, BagAdd DEF Types
<1>3. S \subseteq Thread
  BY DEF Thread
<1>4. QED BY <1>2, <1>3 DEF Types

\* A thread ends, or gets to a new place.
LEMMA ThreadEnds ==
  ASSUME Types, NEW t \in BagToSet(threads), threads' = Without(t)
  PROVE  /\ IsABag(threads)' /\ BagToSet(threads)' \subseteq Thread
         /\ BagToSet(threads)' \subseteq BagToSet(threads)
         /\ BagToSet(threads) \ {t} \subseteq BagToSet(threads)'
<1>1. QED BY BagRemove DEF Types, Without

\* The places of a thread.
LEMMA Places ==
  ASSUME NEW t \in Thread, NEW at \in {"started", "reading", "flagged"}, NEW kind \in Kinds
  PROVE  /\ [t EXCEPT !.at = at] \in Thread
         /\ [t EXCEPT !.at = at].kind = t.kind /\ [t EXCEPT !.at = at].room = t.room
         /\ [t EXCEPT !.at = at].at = at
         /\ [t EXCEPT !.kind = kind, !.at = at] \in Thread
         /\ [t EXCEPT !.kind = kind, !.at = at].kind = kind
         /\ [t EXCEPT !.kind = kind, !.at = at].room = t.room
         /\ [t EXCEPT !.kind = kind, !.at = at].at = at
BY DEF Thread

\* A thread becomes another.
LEMMA ThreadMoves ==
  ASSUME Types, NEW t \in BagToSet(threads), NEW u \in Thread, threads' = MovedOn(t, u)
  PROVE  /\ IsABag(threads)' /\ BagToSet(threads)' \subseteq Thread
         /\ BagToSet(threads)' \subseteq BagToSet(threads) \cup {u}
         /\ BagToSet(threads)' = BagToSet(Without(t)) \cup {u}
         /\ (BagToSet(threads) \ {t}) \cup {u} \subseteq BagToSet(threads)'
<1>1. IsABag(Without(t)) /\ BagToSet(Without(t)) \subseteq BagToSet(threads)
      /\ BagToSet(threads) \ {t} \subseteq BagToSet(Without(t))
  BY BagRemove DEF Types, Without
<1>2. /\ BagToSet(threads') = BagToSet(Without(t)) \cup {u}
      /\ IsABag(threads')
  BY <1>1, BagAdd DEF MovedOn
<1>3. QED BY <1>1, <1>2 DEF Types

-----------------------------------------------------------------------------
(* Every action preserves the invariant.                                    *)

\* One entry of the timers changes.
LEMMA SourceUpdate ==
  ASSUME Types, NEW r \in Rooms, NEW q \in Pairs, q[2] = r, NEW n \in -2..(Horizon + 1),
         source' = [source EXCEPT ![q] = n]
  PROVE  /\ source' \in [Pairs -> Untracked..(Horizon + 1)]
         /\ source'[q] = n /\ \A p \in Pairs : p # q => source'[p] = source[p]
         /\ \A u \in Rooms : u # r => SourcesOf(u)' = SourcesOf(u) /\ (HasActive(u)' <=> HasActive(u))
         /\ n # -2 => SourcesOf(r)' = SourcesOf(r) \cup {q}
<1>1. source' \in [Pairs -> Untracked..(Horizon + 1)]
  BY DEF Types, Untracked
<1>2. source'[q] = n /\ \A p \in Pairs : p # q => source'[p] = source[p]
  BY DEF Types
<1>3. \A u \in Rooms : u # r => SourcesOf(u)' = SourcesOf(u)
  BY <1>2 DEF SourcesOf
<1>4. \A u \in Rooms : u # r => (HasActive(u)' <=> HasActive(u))
  BY <1>2, <1>3 DEF HasActive, SourcesOf
<1>5. n # -2 => SourcesOf(r)' = SourcesOf(r) \cup {q}
  BY <1>2 DEF SourcesOf, Untracked
<1>6. QED BY <1>1, <1>2, <1>3, <1>4, <1>5

\* Detected: the source is active, and no warning stands.
LEMMA DetectedStep ==
  ASSUME IInv, NEW s \in Sensors, NEW r \in Rooms, <<s, r>> \in Pairs, NEW seen,
         ~Suppressed(r), Detected(s, r, seen), moving' = moving \cup {<<s, r>>},
         UNCHANGED <<sinceCheck, clears, breaker, enabled, scene, bound, reentered, idle, dimmed, lights, litBy, switches, tripped>>
  PROVE  IInv'
<1> DEFINE q == <<s, r>>
           owns == ~HasActive(r) /\ ~AlreadyOn(r, seen)
           on == owns /\ TurnsOn(r, seen)
<1>1. /\ source' = [source EXCEPT ![q] = Active]
      /\ warned' = warned \ {r}
      /\ owned' = IF owns THEN owned \cup {r} ELSE owned
      /\ requested' = IF on THEN requested \cup {r} ELSE requested
      /\ threads' = threads (+) Started("bright", warned \cap {r}) (+) Started("on", IF on THEN {r} ELSE {})
      /\ late' = late \cup {u \in {r} : Busy(u)}
  BY DEF Detected, Decide
<1>2. q \in Pairs /\ q[2] = r /\ -1 \in -2..(Horizon + 1) /\ -1 # -2
      /\ source' = [source EXCEPT ![q] = -1]
  BY <1>1, Numbers DEF Active
<1>3. /\ source' \in [Pairs -> Untracked..(Horizon + 1)]
      /\ source'[q] = -1 /\ \A p \in Pairs : p # q => source'[p] = source[p]
      /\ \A u \in Rooms : u # r => SourcesOf(u)' = SourcesOf(u) /\ (HasActive(u)' <=> HasActive(u))
      /\ SourcesOf(r)' = SourcesOf(r) \cup {q}
  <2>1. Types
    BY DEF IInv
  <2> HIDE DEF q, owns, on
  <2>2. QED BY <1>2, <2>1, SourceUpdate, ZenonT(40)
<1>4. /\ IsABag(threads)' /\ BagToSet(threads)' \subseteq Thread
      /\ \A t \in BagToSet(threads)' : t \in BagToSet(threads) \/ t.at = "started"
  <2> DEFINE R1 == warned \cap {r}
             R2 == IF on THEN {r} ELSE {}
  <2>1. /\ "bright" \in Kinds /\ "on" \in Kinds /\ R1 \subseteq Rooms /\ R2 \subseteq Rooms
        /\ threads' = threads (+) Started("bright", R1) (+) Started("on", R2) /\ Types
    BY <1>1 DEF Kinds, Motions, IInv
  <2> HIDE DEF R1, R2
  <2>2. /\ IsABag(threads)' /\ BagToSet(threads)' \subseteq Thread
        /\ \A t : t \in BagToSet(threads)' <=>
             \/ t \in BagToSet(threads)
             \/ \E u \in R1 : t = [kind |-> "bright", room |-> u, at |-> "started"]
             \/ \E u \in R2 : t = [kind |-> "on", room |-> u, at |-> "started"]
    BY <2>1, StartedFacts
  <2>3. QED BY <2>2
<1> HIDE DEF owns, on
<1>5. Types'
  BY <1>1, <1>3, <1>4 DEF IInv, Types
<1>6. on => owns
  BY DEF on
<1>7. NoPhantom'
  BY <1>3 DEF IInv, TimerInv, TimersAgree, NoPhantom
<1>8. TimersAgree'
  <2>1. requested' \cup warned' \subseteq owned'
    BY <1>1, <1>6 DEF IInv, TimerInv, TimersAgree
  <2>2. \A u \in owned' : SourcesOf(u)' # {}
    BY <1>1, <1>3 DEF IInv, Types, TimerInv, TimersAgree
  <2>3. \A u \in warned' : ~HasActive(u)'
    BY <1>1, <1>3 DEF IInv, Types, TimerInv, TimersAgree
  <2>4. QED BY <1>7, <2>1, <2>2, <2>3 DEF TimersAgree
<1>9. NotTracked'
  BY <1>3 DEF IInv, TimerInv, NotTracked, Suppressed
<1>10. InTime'
  <2>1. SUFFICES ASSUME NEW u \in Rooms, SourcesOf(u)' # {}, Timeout[u] > 0
                 PROVE  \E p \in SourcesOf(u)' : source'[p] <= Timeout[u] + sinceCheck'
    BY DEF InTime
  <2>2. CASE u = r
    BY <1>3, <2>1, <2>2, Numbers DEF IInv, Types
  <2>3. CASE u # r
    <3>1. \A p \in SourcesOf(u) : source'[p] = source[p]
      BY <1>2, <1>3, <2>3 DEF SourcesOf
    <3>2. QED BY <1>3, <2>1, <2>3, <3>1 DEF IInv, TimerInv, InTime
  <2>4. QED BY <2>2, <2>3
<1>11. WarnedInTime'
  <2>1. SUFFICES ASSUME NEW u \in owned' \ warned', Timeout[u] > Warning
                 PROVE  \E p \in SourcesOf(u)' : source'[p] < (Timeout[u] - Warning) + sinceCheck'
    BY DEF WarnedInTime
  <2>2. u \in Rooms
    BY <1>5 DEF Types
  <2>3. CASE u = r
    BY <1>3, <2>1, <2>3, Numbers DEF IInv, Types
  <2>4. CASE u # r
    <3>1. \A p \in SourcesOf(u) : source'[p] = source[p]
      BY <1>2, <1>3, <2>4 DEF SourcesOf
    <3>2. u \in owned \ warned
      BY <1>1, <2>1, <2>4
    <3>3. QED BY <1>3, <2>1, <2>2, <2>4, <3>1, <3>2 DEF IInv, TimerInv, WarnedInTime
  <2>5. QED BY <2>3, <2>4
<1>12. SceneInv'
  BY <1>4, SceneFrame DEF IInv
<1>13. QED BY <1>5, <1>8, <1>9, <1>10, <1>11, <1>12 DEF IInv, TimerInv

\* Stopped: the countdown begins at zero.
LEMMA StoppedStep ==
  ASSUME IInv, NEW s \in Sensors, NEW r \in Rooms, <<s, r>> \in Pairs,
         Stopped(s, r), moving' = moving \ {<<s, r>>},
         UNCHANGED <<sinceCheck, clears, breaker, enabled, scene, bound, reentered, idle, dimmed, lights, litBy, switches, tripped>>
  PROVE  IInv'
<1> DEFINE q == <<s, r>>
           n == IF source[q] = Untracked THEN Untracked ELSE 0
<1>1. /\ source' = [source EXCEPT ![q] = n]
      /\ UNCHANGED <<owned, requested, warned, threads, late>>
  BY DEF Stopped
<1>2. q \in Pairs /\ q[2] = r /\ n \in -2..(Horizon + 1)
  BY Numbers DEF Untracked
<1>3. n # -2 => n = 0
  BY DEF Untracked
<1>4. n = -2 => source' = source
  BY <1>1 DEF Untracked, IInv, Types
<1> HIDE DEF n
<1>5. /\ source' \in [Pairs -> Untracked..(Horizon + 1)]
      /\ source'[q] = n /\ \A p \in Pairs : p # q => source'[p] = source[p]
      /\ \A u \in Rooms : u # r => SourcesOf(u)' = SourcesOf(u) /\ (HasActive(u)' <=> HasActive(u))
  BY <1>1, <1>2, SourceUpdate DEF IInv
<1>6. \A u \in Rooms : SourcesOf(u)' = SourcesOf(u) /\ (HasActive(u)' => HasActive(u))
  <2>1. \A p \in Pairs : /\ source'[p] # Untracked <=> source[p] # Untracked
                         /\ source'[p] = Active => source[p] = Active
    BY <1>1, <1>3, <1>5 DEF n, Untracked, Active
  <2>2. QED BY <2>1 DEF SourcesOf, HasActive
<1>7. Types'
  BY <1>1, <1>5 DEF IInv, Types
<1>8. TimersAgree'
  <2>1. NoPhantom'
    BY <1>3, <1>5 DEF IInv, TimerInv, TimersAgree, NoPhantom, Active
  <2>2. QED BY <1>1, <1>6, <2>1 DEF IInv, Types, TimerInv, TimersAgree
<1>9. NotTracked'
  BY <1>6 DEF IInv, TimerInv, NotTracked, Suppressed
<1>10. \A p \in Pairs : source'[p] <= 0 \/ source'[p] = source[p]
  BY <1>2, <1>3, <1>4, <1>5
<1>11. InTime'
  <2>1. SUFFICES ASSUME NEW u \in Rooms, SourcesOf(u) # {}, Timeout[u] > 0
                 PROVE  \E p \in SourcesOf(u) : source'[p] <= Timeout[u] + sinceCheck
    BY <1>6 DEF InTime
  <2>2. PICK p \in SourcesOf(u) : source[p] <= Timeout[u] + sinceCheck
    BY <2>1 DEF IInv, TimerInv, InTime
  <2>3. p \in Pairs
    BY <2>2 DEF SourcesOf
  <2>4. CASE source'[p] <= 0
    <3>1. source'[p] \in Int /\ sinceCheck \in Nat
      BY <1>5, <2>3, Numbers DEF Untracked, IInv, Types
    <3>2. QED BY <2>1, <2>2, <2>4, <3>1, Numbers
  <2>5. QED BY <1>10, <2>2, <2>3, <2>4
<1>12. WarnedInTime'
  <2>1. SUFFICES ASSUME NEW u \in owned \ warned, Timeout[u] > Warning
                 PROVE  \E p \in SourcesOf(u) : source'[p] < (Timeout[u] - Warning) + sinceCheck
    BY <1>1, <1>6 DEF WarnedInTime, IInv, Types
  <2>2. PICK p \in SourcesOf(u) : source[p] < (Timeout[u] - Warning) + sinceCheck
    BY <2>1 DEF IInv, TimerInv, WarnedInTime
  <2>3. p \in Pairs /\ u \in Rooms
    BY <2>1, <2>2 DEF SourcesOf, IInv, Types
  <2>4. CASE source'[p] <= 0
    <3>1. source'[p] \in Int /\ sinceCheck \in Nat
      BY <1>5, <2>3, Numbers DEF Untracked, IInv, Types
    <3>2. QED BY <2>1, <2>2, <2>3, <2>4, <3>1, Numbers
  <2>5. QED BY <1>10, <2>2, <2>3, <2>4
<1>13. SceneInv'
  BY <1>1, SceneFrame DEF IInv
<1>14. QED BY <1>7, <1>8, <1>9, <1>11, <1>12, <1>13 DEF IInv, TimerInv

\* An event that the breaker, the policy or a scene keeps from the timers.
LEMMA IgnoredStep ==
  ASSUME IInv, NEW s \in Sensors, NEW r \in Rooms, <<s, r>> \in Pairs, Ignored(r),
         moving' = moving \cup {<<s, r>>} \/ moving' = moving \ {<<s, r>>},
         tripped' = IF breaker THEN tripped ELSE tripped \cup {r},
         UNCHANGED <<timers, threads, late, sinceCheck, clears, breaker, enabled, scenes, rooms, switches>>
  PROVE  IInv'
<1> DEFINE q == <<s, r>>
<1>1. UNCHANGED <<source, owned, requested, warned, scene, bound, reentered, idle, dimmed, lights, litBy>>
  BY DEF timers, rooms, scenes
<1>2. Types'
  BY <1>1 DEF IInv, Types
<1>3. \A u : SourcesOf(u)' = SourcesOf(u) /\ (HasActive(u)' <=> HasActive(u)) /\ (Suppressed(u)' <=> Suppressed(u))
  BY <1>1 DEF SourcesOf, HasActive, Suppressed
<1>4. NoPhantom'
  <2>1. SUFFICES ASSUME NEW p \in Pairs, source[p] = Active, p[2] \notin clears \cup tripped'
                 PROVE  p \in moving'
    BY <1>1 DEF NoPhantom
  <2>2. p \in moving
    BY <2>1 DEF IInv, TimerInv, TimersAgree, NoPhantom
  <2>3. p # q
    <3>1. SUFFICES ASSUME p = q
                   PROVE  FALSE
      OBVIOUS
    <3>2. p[2] = r /\ breaker /\ r \notin clears
      BY <2>1, <3>1
    <3>3. SourcesOf(r) = {}
      BY <3>2 DEF Ignored, IInv, TimerInv, NotTracked
    <3>4. p \in SourcesOf(r)
      BY <2>1, <3>2 DEF SourcesOf, Active, Untracked
    <3>5. QED BY <3>3, <3>4
  <2>4. QED BY <2>2, <2>3
<1>5. TimerInv'
  BY <1>1, <1>3, <1>4 DEF IInv, TimerInv, TimersAgree, NotTracked, InTime, WarnedInTime
<1>6. SceneInv'
  BY <1>1, SceneFrame DEF IInv
<1>7. QED BY <1>2, <1>5, <1>6 DEF IInv

\* A motion event, heeded or ignored.
LEMMA MotionStep ==
  ASSUME IInv, NEW s \in Sensors, NEW r \in Rooms, MotionStarts(s, r) \/ MotionStops(s, r)
  PROVE  IInv'
<1>1. /\ <<s, r>> \in Pairs
      /\ tripped' = IF breaker THEN tripped ELSE tripped \cup {r}
      /\ UNCHANGED <<sinceCheck, clears, breaker, enabled, scenes, rooms, switches>>
  BY DEF MotionStarts, MotionStops
<1>2. UNCHANGED <<scene, bound, reentered, idle, dimmed, lights, litBy>>
  BY <1>1 DEF rooms, scenes
<1>3. CASE Ignored(r)
  BY <1>1, <1>3, IgnoredStep DEF MotionStarts, MotionStops
<1>4. CASE ~Ignored(r) /\ MotionStarts(s, r)
  <2>1. /\ moving' = moving \cup {<<s, r>>} /\ ~Suppressed(r) /\ breaker
        /\ \E seen \in Observed(r) : Detected(s, r, seen)
    BY <1>4 DEF MotionStarts, Ignored
  <2>2. QED BY <1>1, <1>2, <2>1, DetectedStep
<1>5. CASE ~Ignored(r) /\ MotionStops(s, r)
  <2>1. moving' = moving \ {<<s, r>>} /\ Stopped(s, r) /\ breaker
    BY <1>5 DEF MotionStops, Ignored
  <2>2. QED BY <1>1, <1>2, <2>1, StoppedStep
<1>6. QED BY <1>3, <1>4, <1>5

\* Press: the room's timers are gone.
LEMMA PressStep ==
  ASSUME IInv, NEW r \in Rooms, NEW kind \in Inputs \ Requests, Press(r, kind)
  PROVE  IInv'
<1>1. /\ DropTimers({r}) /\ threads' = threads (+) Started(kind, {r})
      /\ late' = (IF Busy(r) THEN late \cup {r} ELSE late \ {r})
      /\ tripped' = (IF Busy(r) THEN tripped ELSE tripped \ {r})
      /\ UNCHANGED <<sinceCheck, clears, breaker, enabled, scene, bound, reentered, idle, dimmed, lights, litBy, moving, switches>>
  BY DEF Press, PressDrops, rooms, scenes
<1>2. kind \in Kinds
  BY MotionAssumption DEF Kinds
<1>3. /\ IsABag(threads)' /\ BagToSet(threads)' \subseteq Thread
      /\ \A t \in BagToSet(threads)' : t \in BagToSet(threads) \/ t.at = "started"
  <2>1. threads' = threads (+) Started(kind, {r}) /\ {r} \subseteq Rooms /\ Types
    BY <1>1 DEF IInv
  <2>2. QED BY <1>2, <2>1, StartedOne
<1>4. Types'
  <2>1. /\ source' \in [Pairs -> Untracked..(Horizon + 1)]
        /\ owned' \subseteq owned /\ requested' \subseteq requested /\ warned' \subseteq warned
    BY <1>1, Numbers DEF IInv, Types, DropTimers, Dropped, Untracked
  <2>2. late' \subseteq Rooms /\ tripped' \subseteq Rooms
    BY <1>1 DEF IInv, Types
  <2>3. QED BY <1>1, <1>3, <2>1, <2>2 DEF IInv, Types
<1>5. TimerInv'
  BY <1>1, TimersDropped DEF IInv, Suppressed
<1>6. SceneInv'
  BY <1>1, <1>3, SceneFrame DEF IInv
<1>7. QED BY <1>4, <1>5, <1>6 DEF IInv

\* Request: a thread, and no timer changes.
LEMMA RequestStep ==
  ASSUME IInv, NEW r \in Rooms, NEW kind \in Inputs \cap Requests, Request(r, kind)
  PROVE  IInv'
<1>1. /\ threads' = threads (+) Started(kind, {r}) /\ late' = late \cup {u \in {r} : Busy(u)}
      /\ UNCHANGED <<source, owned, requested, warned, sinceCheck, clears, breaker, enabled, scene, bound, reentered, idle,
                     dimmed, lights, litBy, moving, tripped, switches>>
  BY DEF Request, Decide, rooms, timers, scenes
<1>2. kind \in Kinds
  BY MotionAssumption DEF Kinds
<1>3. /\ IsABag(threads)' /\ BagToSet(threads)' \subseteq Thread
      /\ \A t \in BagToSet(threads)' : t \in BagToSet(threads) \/ t.at = "started"
  <2>1. threads' = threads (+) Started(kind, {r}) /\ {r} \subseteq Rooms /\ Types
    BY <1>1 DEF IInv
  <2>2. QED BY <1>2, <2>1, StartedOne
<1>4. Types'
  BY <1>1, <1>3 DEF IInv, Types
<1>5. TimerInv'
  BY <1>1, TimersFrame DEF IInv, Suppressed
<1>6. SceneInv'
  BY <1>1, <1>3, SceneFrame DEF IInv
<1>7. QED BY <1>4, <1>5, <1>6 DEF IInv

\* SetEnabled: the room is queued for a clear.
LEMMA SetEnabledStep ==
  ASSUME IInv, NEW r \in Rooms, SetEnabled(r)
  PROVE  IInv'
<1>1. /\ switches < MaxSwitches /\ switches' = switches + 1
      /\ enabled' = (IF r \in enabled THEN enabled \ {r} ELSE enabled \cup {r})
      /\ clears' = clears \cup {r} /\ dimmed' = dimmed \ {r} /\ litBy' = [litBy EXCEPT ![r] = "user"]
      /\ late' = late \cup {u \in {r} : Busy(u)}
      /\ UNCHANGED <<source, owned, requested, warned, sinceCheck, breaker, scene, bound, reentered, idle, lights, threads,
                     moving, tripped>>
  BY DEF SetEnabled, Switch, Decide, timers, scenes
<1>2. Types'
  BY <1>1, Numbers DEF IInv, Types
<1>3. TimerInv'
  <2>1. \A u \in Rooms : Suppressed(u)' => Suppressed(u) \/ u \in clears'
    BY <1>1 DEF Suppressed
  <2>2. QED BY <1>1, <2>1, TimersFrame DEF IInv
<1>4. SceneInv'
  BY <1>1 DEF IInv, SceneInv
<1>5. QED BY <1>2, <1>3, <1>4 DEF IInv

\* SetBreaker: no timer changes.
LEMMA SetBreakerStep ==
  ASSUME IInv, SetBreaker
  PROVE  IInv'
<1>1. /\ switches < MaxSwitches /\ switches' = switches + 1 /\ breaker' = ~breaker
      /\ UNCHANGED <<source, owned, requested, warned, sinceCheck, clears, enabled, scene, bound, reentered, idle, dimmed,
                     lights, litBy, threads, moving, late, tripped>>
  BY DEF SetBreaker, Switch, timers, rooms, scenes
<1>2. breaker' \in BOOLEAN
  BY <1>1 DEF IInv, Types
<1>3. Types'
  BY <1>1, <1>2, Numbers DEF IInv, Types
<1>4. TimerInv'
  BY <1>1, TimersFrame DEF IInv, Suppressed
<1>5. SceneInv'
  BY <1>1, SceneFrame DEF IInv
<1>6. QED BY <1>3, <1>4, <1>5 DEF IInv

\* ApplyScene: nobody is past admission, and every room is queued for a clear.
LEMMA ApplySceneStep ==
  ASSUME IInv, ApplyScene
  PROVE  IInv'
<1>1. /\ switches < MaxSwitches /\ switches' = switches + 1 /\ Reading = {}
      /\ scene' = Rooms /\ bound' = Rooms /\ reentered' = {} /\ idle' = Rooms /\ dimmed' = {}
      /\ lights' = [r \in Rooms |-> "on"] /\ litBy' = [r \in Rooms |-> "user"]
      /\ clears' = clears \cup Rooms /\ late' = late \cup {u \in Rooms : Busy(u)}
      /\ UNCHANGED <<source, owned, requested, warned, sinceCheck, breaker, enabled, threads, moving, tripped>>
  BY DEF ApplyScene, Switch, Arbitration, SceneClears, Decide, timers, scenes
<1>2. Types'
  BY <1>1, Numbers DEF IInv, Types
<1>3. TimerInv'
  BY <1>1, TimersFrame DEF IInv
<1>4. SceneInv'
  <2>1. \A t \in BagToSet(threads) : t.at # "started" => t.kind \in SceneKinds
    BY <1>1 DEF Reading, IInv, Types, Thread, SceneKinds
  <2>2. QED BY <1>1, <2>1 DEF SceneInv
<1>5. QED BY <1>2, <1>3, <1>4 DEF IInv

\* TakeClears, BreakerClears: timers are dropped room by room.
LEMMA ClearStep ==
  ASSUME IInv, TakeClears \/ BreakerClears
  PROVE  IInv'
<1>1. UNCHANGED <<breaker, enabled, scene, bound, reentered, idle, dimmed, lights, litBy, threads, moving, late, switches>>
  BY DEF TakeClears, BreakerClears, rooms, scenes
<1>2. SceneInv'
  BY <1>1, SceneFrame DEF IInv
<1>3. CASE TakeClears
  <2>1. DropTimers(clears) /\ clears' = {} /\ UNCHANGED <<sinceCheck, tripped>>
    BY <1>3 DEF TakeClears
  <2>2. Types'
    BY <1>1, <2>1, Numbers DEF IInv, Types, DropTimers, Dropped, Untracked
  <2>3. TimerInv'
    BY <1>1, <2>1, TimersDropped DEF IInv, Suppressed
  <2>4. QED BY <1>2, <2>2, <2>3 DEF IInv
<1>4. CASE BreakerClears
  <2>1. DropTimers(Rooms) /\ sinceCheck' = 0 /\ tripped' = Rooms /\ clears' = clears
    BY <1>4 DEF BreakerClears
  <2>2. Types'
    BY <1>1, <2>1, Numbers DEF IInv, Types, DropTimers, Dropped, Untracked
  <2>3. TimerInv'
    BY <1>1, <2>1, TimersDropped DEF IInv
  <2>4. QED BY <1>2, <2>2, <2>3 DEF IInv
<1>5. QED BY <1>3, <1>4

\* check_motion_timers: what is not dropped is in time again.
LEMMA CheckStep ==
  ASSUME IInv, Check
  PROVE  IInv'
<1> DEFINE lost == (Rooms \ Governed) \cup Expired
           R1 == Warns
           R2 == Expired \cap owned
<1>1. /\ sinceCheck' = 0 /\ source' = Dropped(lost)
      /\ owned' = owned \ lost /\ requested' = requested \ lost /\ warned' = (warned \ lost) \cup Warns
      /\ threads' = threads (+) Started("dim", R1) (+) Started("restore", R2)
      /\ late' = late \cup {u \in Warns \cup (Expired \cap owned) : Busy(u)}
      /\ UNCHANGED <<clears, breaker, enabled, scene, bound, reentered, idle, dimmed, lights, litBy, moving,
                     tripped, switches>>
  BY DEF Check, Decide, rooms, scenes
<1>2. /\ sinceCheck' = 0
      /\ UNCHANGED <<clears, breaker, enabled, scene, bound, reentered, idle, dimmed, lights, litBy, moving,
                     tripped, switches>>
  BY <1>1
<1>3. /\ Warns \subseteq owned /\ Warns \cap lost = {} /\ Expired \subseteq Rooms
      /\ \A r \in Warns : ~HasActive(r)
  BY DEF Warns, Expired, Governed, Counting, IInv, Types
<1>4. /\ IsABag(threads)' /\ BagToSet(threads)' \subseteq Thread
      /\ \A t \in BagToSet(threads)' : t \in BagToSet(threads) \/ t.at = "started"
  <2>1. /\ "dim" \in Kinds /\ "restore" \in Kinds /\ R1 \subseteq Rooms /\ R2 \subseteq Rooms
        /\ threads' = threads (+) Started("dim", R1) (+) Started("restore", R2) /\ Types
    BY <1>1, <1>3 DEF Kinds, Motions, IInv, Types
  <2> HIDE DEF R1, R2
  <2>2. /\ IsABag(threads)' /\ BagToSet(threads)' \subseteq Thread
        /\ \A t : t \in BagToSet(threads)' <=>
             \/ t \in BagToSet(threads)
             \/ \E u \in R1 : t = [kind |-> "dim", room |-> u, at |-> "started"]
             \/ \E u \in R2 : t = [kind |-> "restore", room |-> u, at |-> "started"]
    BY <2>1, StartedFacts
  <2>3. QED BY <2>2
<1>5. \A p \in Pairs : source'[p] = IF p[2] \in lost THEN Untracked ELSE source[p]
  BY <1>1 DEF Dropped
<1>6. \A r : /\ r \in lost => SourcesOf(r)' = {} /\ ~HasActive(r)'
             /\ r \notin lost => SourcesOf(r)' = SourcesOf(r) /\ (HasActive(r)' <=> HasActive(r))
  BY <1>5 DEF SourcesOf, HasActive
<1>7. Types'
  <2>1. source' \in [Pairs -> Untracked..(Horizon + 1)]
    BY <1>1, Numbers DEF IInv, Types, Dropped, Untracked
  <2>2. owned' \subseteq Rooms /\ requested' \subseteq Rooms /\ warned' \subseteq Rooms /\ late' \subseteq Rooms
    BY <1>1, <1>3 DEF IInv, Types
  <2>3. QED BY <1>2, <1>4, <2>1, <2>2, Numbers DEF IInv, Types
<1>8. TimersAgree'
  <2>1. NoPhantom'
    <3>1. SUFFICES ASSUME NEW p \in Pairs, source'[p] = Active, p[2] \notin clears \cup tripped
                   PROVE  p \in moving
      BY <1>1 DEF NoPhantom
    <3>2. source[p] = Active
      BY <1>5, <3>1 DEF Active, Untracked
    <3>3. QED BY <3>1, <3>2 DEF IInv, TimerInv, TimersAgree, NoPhantom
  <2>2. requested' \cup warned' \subseteq owned'
    BY <1>1, <1>3 DEF IInv, TimerInv, TimersAgree
  <2>3. \A r \in owned' : SourcesOf(r)' # {}
    BY <1>1, <1>6 DEF IInv, TimerInv, TimersAgree
  <2>4. \A r \in warned' : ~HasActive(r)'
    BY <1>1, <1>3, <1>6 DEF IInv, TimerInv, TimersAgree
  <2>5. QED BY <2>1, <2>2, <2>3, <2>4 DEF TimersAgree
<1>9. NotTracked'
  BY <1>1, <1>6 DEF IInv, TimerInv, NotTracked, Suppressed, Governed
<1>10. ASSUME NEW r \in Rooms, r \notin lost
      PROVE  \A p \in SourcesOf(r) : source'[p] = source[p]
  BY <1>5, <1>10 DEF SourcesOf
<1>11. InTime'
  <2>1. SUFFICES ASSUME NEW r \in Rooms, SourcesOf(r)' # {}, Timeout[r] > 0
                 PROVE  \E p \in SourcesOf(r)' : source'[p] <= Timeout[r] + sinceCheck'
    BY DEF InTime
  <2>2. r \notin lost /\ r \in Governed /\ r \notin Expired
    BY <1>6, <2>1
  <2>3. SourcesOf(r)' = SourcesOf(r) /\ \A p \in SourcesOf(r) : source'[p] = source[p]
    BY <1>6, <1>10, <2>2
  <2>4. CASE HasActive(r)
    <3>1. PICK p \in SourcesOf(r) : source[p] = -1
      BY <2>4 DEF HasActive, Active
    <3>2. QED BY <1>2, <2>1, <2>3, <3>1, Numbers
  <2>5. CASE ~HasActive(r)
    <3>1. Elapsed(r) \in Nat /\ \E p \in SourcesOf(r) : source[p] = Elapsed(r)
      BY <2>1, <2>3, <2>5, ElapsedFacts DEF IInv
    <3>2. ~(Elapsed(r) > Timeout[r])
      BY <2>1, <2>2, <2>3, <2>5 DEF Expired, Counting
    <3>3. QED BY <1>2, <2>3, <3>1, <3>2, Numbers
  <2>6. QED BY <2>4, <2>5
<1>12. WarnedInTime'
  <2>1. SUFFICES ASSUME NEW r \in owned' \ warned', Timeout[r] > Warning
                 PROVE  \E p \in SourcesOf(r)' : source'[p] < (Timeout[r] - Warning) + sinceCheck'
    BY DEF WarnedInTime
  <2>2. r \in owned \ warned /\ r \notin lost /\ r \in Rooms /\ r \in Governed /\ r \notin Expired /\ r \notin Warns
    BY <1>1, <2>1 DEF IInv, Types
  <2>3. SourcesOf(r)' = SourcesOf(r) /\ SourcesOf(r) # {} /\ \A p \in SourcesOf(r) : source'[p] = source[p]
    BY <1>6, <1>10, <2>2 DEF IInv, TimerInv, TimersAgree
  <2>4. CASE HasActive(r)
    <3>1. PICK p \in SourcesOf(r) : source[p] = -1
      BY <2>4 DEF HasActive, Active
    <3>2. QED BY <1>2, <2>1, <2>2, <2>3, <3>1, Numbers
  <2>5. CASE ~HasActive(r)
    <3>1. Elapsed(r) \in Nat /\ \E p \in SourcesOf(r) : source[p] = Elapsed(r)
      BY <2>2, <2>3, <2>5, ElapsedFacts DEF IInv
    <3>2. Timeout[r] > 0
      BY <2>1, <2>2, Numbers
    <3>3. ~(Timeout[r] - Elapsed(r) <= Warning)
      BY <2>1, <2>2, <2>3, <2>5, <3>2 DEF Warns, Counting, Due
    <3>4. QED BY <1>2, <2>2, <2>3, <3>1, <3>3, Numbers
  <2>6. QED BY <2>4, <2>5
<1>13. SceneInv'
  BY <1>1, <1>4, SceneFrame DEF IInv
<1>14. QED BY <1>7, <1>8, <1>9, <1>11, <1>12, <1>13 DEF IInv, TimerInv

\* Tick: every countdown gains no more than the time since the check.
LEMMA TickStep ==
  ASSUME IInv, Tick
  PROVE  IInv'
<1>1. /\ sinceCheck < MaxGap /\ sinceCheck' = sinceCheck + 1
      /\ source' = [p \in Pairs |-> IF source[p] \in 0..Horizon THEN source[p] + 1 ELSE source[p]]
      /\ UNCHANGED <<owned, requested, warned, clears, breaker, enabled, scene, bound, reentered, idle, dimmed, lights, litBy,
                     threads, moving, late, tripped, switches>>
  BY DEF Tick, rooms, scenes
<1>2. \A p \in Pairs : source[p] \in Int /\ source[p] >= -2 /\ source[p] <= Horizon + 1
  BY Numbers DEF IInv, Types, Untracked
<1>3. \A p \in Pairs : /\ source'[p] \in Int /\ source'[p] <= source[p] + 1
                       /\ source'[p] \in Untracked..(Horizon + 1)
                       /\ source'[p] # Untracked <=> source[p] # Untracked
                       /\ source'[p] = Active <=> source[p] = Active
  BY <1>1, <1>2, Numbers DEF Untracked, Active
<1>4. Types'
  <2>1. source' \in [Pairs -> Untracked..(Horizon + 1)]
    BY <1>1, <1>3
  <2>2. sinceCheck' \in 0..MaxGap
    BY <1>1, Numbers DEF IInv, Types
  <2>3. QED BY <1>1, <2>1, <2>2 DEF IInv, Types
<1>5. \A r : SourcesOf(r)' = SourcesOf(r) /\ (HasActive(r)' <=> HasActive(r))
  BY <1>3 DEF SourcesOf, HasActive
<1>6. TimersAgree' /\ NotTracked'
  BY <1>1, <1>3, <1>5 DEF IInv, TimerInv, TimersAgree, NoPhantom, NotTracked, Suppressed
<1>7. InTime'
  <2>1. SUFFICES ASSUME NEW r \in Rooms, SourcesOf(r) # {}, Timeout[r] > 0
                 PROVE  \E p \in SourcesOf(r) : source'[p] <= Timeout[r] + (sinceCheck + 1)
    BY <1>1, <1>5 DEF InTime
  <2>2. PICK p \in SourcesOf(r) : source[p] <= Timeout[r] + sinceCheck
    BY <2>1 DEF IInv, TimerInv, InTime
  <2>3. p \in Pairs
    BY <2>2 DEF SourcesOf
  <2>4. QED BY <1>2, <1>3, <2>2, <2>3, Numbers DEF IInv, Types
<1>8. WarnedInTime'
  <2>1. SUFFICES ASSUME NEW r \in owned \ warned, Timeout[r] > Warning
                 PROVE  \E p \in SourcesOf(r) : source'[p] < (Timeout[r] - Warning) + (sinceCheck + 1)
    BY <1>1, <1>5 DEF WarnedInTime
  <2>2. PICK p \in SourcesOf(r) : source[p] < (Timeout[r] - Warning) + sinceCheck
    BY <2>1 DEF IInv, TimerInv, WarnedInTime
  <2>3. p \in Pairs /\ r \in Rooms
    BY <2>1, <2>2 DEF SourcesOf, IInv, Types
  <2>4. QED BY <1>2, <1>3, <2>2, <2>3, Numbers DEF IInv, Types
<1>9. SceneInv'
  BY <1>1, SceneFrame DEF IInv
<1>10. QED BY <1>4, <1>6, <1>7, <1>8, <1>9 DEF IInv, TimerInv

\* Admit: nobody is admitted to a room that a scene owns.
LEMMA AdmitStep ==
  ASSUME IInv, NEW t \in BagToSet(threads), Admit(t)
  PROVE  IInv'
<1>1. /\ t.kind \notin Users /\ t.at = "started"
      /\ threads' = (IF Retires(t) THEN Without(t) ELSE MovedOn(t, [t EXCEPT !.at = "reading"]))
      /\ tripped' = (IF breaker THEN tripped ELSE tripped \cup {t.room})
      /\ UNCHANGED <<source, owned, requested, warned, sinceCheck, clears, breaker, enabled, scene, bound, reentered, idle,
                     dimmed, lights, litBy, moving, late, switches>>
  BY DEF Admit, timers, rooms, scenes
<1>2. t \in Thread /\ t.room \in Rooms
  BY DEF IInv, Types, Thread
<1>3. TimerInv'
  BY <1>1, TimersFrame DEF IInv, Suppressed
<1>4. CASE Retires(t)
  <2>1. /\ IsABag(threads)' /\ BagToSet(threads)' \subseteq Thread
        /\ BagToSet(threads)' \subseteq BagToSet(threads)
    BY <1>1, <1>4, ThreadEnds DEF IInv
  <2>2. Types'
    BY <1>1, <1>2, <2>1 DEF IInv, Types
  <2>3. QED BY <1>1, <1>3, <2>1, <2>2, SceneFrame DEF IInv
<1>5. CASE ~Retires(t)
  <2>1. /\ IsABag(threads)' /\ BagToSet(threads)' \subseteq Thread
        /\ BagToSet(threads)' \subseteq BagToSet(threads) \cup {[t EXCEPT !.at = "reading"]}
        /\ [t EXCEPT !.at = "reading"].room = t.room
    BY <1>1, <1>2, <1>5, ThreadMoves, Places DEF IInv, Thread
  <2>2. Types'
    BY <1>1, <1>2, <2>1 DEF IInv, Types
  <2>3. t.room \notin scene
    BY <1>5 DEF Retires, Suppressed
  <2>4. SceneInv'
    BY <1>1, <2>1, <2>3 DEF IInv, SceneInv
  <2>5. QED BY <1>3, <2>2, <2>4 DEF IInv
<1>6. QED BY <1>4, <1>5

\* EnterMood: only a room that is bound comes to be a scene's, and the threads
\* in it are users' unless it is noted down.
LEMMA EnterMoodFacts ==
  ASSUME IInv, NEW t \in BagToSet(threads), EnterMood(t)
  PROVE  /\ scene \subseteq scene' /\ scene' \subseteq scene \cup ({t.room} \cap bound)
         /\ \A r : r # t.room => (r \in reentered' <=> r \in reentered)
         /\ reentered' \subseteq Rooms
         /\ t.room \notin reentered' =>
              \A u \in BagToSet(Without(t)) : u.room = t.room /\ u.at # "started" => u.kind \in Users
<1>1. t.room \in Rooms /\ reentered \subseteq Rooms
  BY DEF IInv, Types, Thread
<1>2. \A u \in BagToSet(Without(t)) : u.at \in {"started", "reading", "flagged"}
  <2>1. BagToSet(Without(t)) \subseteq BagToSet(threads)
    BY BagRemove DEF Without, IInv, Types
  <2>2. QED BY <2>1 DEF IInv, Types, Thread
<1>3. QED BY <1>1, <1>2 DEF EnterMood

\* SetMode: the room leaves its scene or comes back to it, and is queued for
\* a clear.
LEMMA SetModeStep ==
  ASSUME IInv, NEW t \in BagToSet(threads), SetMode(t)
  PROVE  IInv'
<1> DEFINE r == t.room
<1>1. PICK mode \in Restores \cup Requests :
        /\ idle' = (IF mode \in {"setOn", "restoreOn"} THEN idle \ {r} ELSE idle \cup {r})
        /\ IF mode \in Moods THEN EnterMood(t) ELSE scene' = scene \ {r} /\ UNCHANGED reentered
        /\ dimmed' = dimmed \ {r} /\ clears' = clears \cup {r}
        /\ threads' = MovedOn(t, [t EXCEPT !.kind = mode, !.at = "flagged"])
        /\ UNCHANGED <<source, owned, requested, warned, sinceCheck, breaker, enabled, bound, lights, litBy,
                       moving, late, tripped, switches>>
  BY DEF SetMode, timers
<1>2. PICK n : n = [t EXCEPT !.kind = mode, !.at = "flagged"]
  OBVIOUS
<1>3. /\ t \in Thread /\ r \in Rooms /\ Types /\ mode \in Kinds
      /\ n \in Thread /\ n.room = r /\ n.kind = mode
  <2>1. t \in Thread /\ r \in Rooms /\ Types /\ mode \in Kinds
    BY DEF IInv, Types, Thread, Kinds, Motions, Users
  <2>2. /\ [t EXCEPT !.kind = mode, !.at = "flagged"] \in Thread
        /\ [t EXCEPT !.kind = mode, !.at = "flagged"].kind = mode
        /\ [t EXCEPT !.kind = mode, !.at = "flagged"].room = t.room
    BY <2>1 DEF Thread
  <2>3. QED BY <1>2, <2>1, <2>2
<1>4. /\ IsABag(threads)' /\ BagToSet(threads)' \subseteq Thread
      /\ BagToSet(threads)' \subseteq BagToSet(threads) \cup {n}
      /\ BagToSet(threads)' = BagToSet(Without(t)) \cup {n}
  BY <1>1, <1>2, <1>3, ThreadMoves
<1>5. /\ scene' \subseteq scene \cup ({r} \cap bound) /\ reentered' \subseteq Rooms
      /\ \A q : q # r => (q \in reentered' <=> q \in reentered)
  BY <1>1, <1>3, EnterMoodFacts DEF Types
<1>6. Types'
  BY <1>1, <1>3, <1>4, <1>5 DEF Types
<1>7. TimerInv'
  <2>1. \A q \in Rooms : Suppressed(q)' => Suppressed(q) \/ q \in clears'
    BY <1>1, <1>5 DEF Suppressed
  <2>2. QED BY <1>1, <2>1, TimersFrame DEF IInv
<1>8. SceneInv'
  <2>1. SUFFICES ASSUME NEW q \in scene'
                 PROVE  /\ q \in idle' /\ q \notin dimmed'
                        /\ q \notin reentered' =>
                             \A u \in BagToSet(threads)' : u.room = q /\ u.at # "started" => u.kind \in SceneKinds
    BY DEF SceneInv
  <2>2. CASE q # r
    <3>1. q \in scene /\ (q \in reentered' <=> q \in reentered)
      BY <1>5, <2>1, <2>2
    <3>2. q \in idle' /\ q \notin dimmed'
      BY <1>1, <2>2, <3>1 DEF IInv, SceneInv
    <3>3. QED BY <1>3, <1>4, <2>2, <3>1, <3>2 DEF IInv, SceneInv
  <2>3. CASE q = r
    <3>1. mode \in Moods
      BY <1>1, <2>1, <2>3
    <3>2. q \in idle' /\ q \notin dimmed'
      BY <1>1, <2>3, <3>1 DEF Moods
    <3>3. mode \in SceneKinds
      BY <3>1 DEF SceneKinds, Moods, Users, Requests
    <3>4. EnterMood(t)
      BY <1>1, <3>1
    <3>5. q \notin reentered' =>
            \A u \in BagToSet(Without(t)) : u.room = r /\ u.at # "started" => u.kind \in Users
      BY <2>3, <3>4, EnterMoodFacts
    <3>6. QED BY <1>3, <1>4, <2>3, <3>2, <3>3, <3>5 DEF SceneKinds
  <2>4. QED BY <2>2, <2>3
<1>9. QED BY <1>6, <1>7, <1>8 DEF IInv

\* A thread that sends is a user's or its room has no scene that it must
\* leave alone.
LEMMA SenderFacts ==
  ASSUME IInv, NEW t \in BagToSet(threads), Ready(t), t.room \in scene \ reentered
  PROVE  t.kind \in Users
<1>1. t.at # "started" => t.kind \in Users \cup {"restoreMood"}
  BY DEF IInv, SceneInv, SceneKinds
<1>2. t.at = "started" => t.kind \in Presses
  BY DEF Ready, Presses
<1>3. t.kind # "restoreMood"
  BY DEF Ready, Presses, Contacts, Moods
<1>4. QED BY <1>1, <1>2, <1>3 DEF Users

\* Send: the room has no scene afterwards.
LEMMA SendStep ==
  ASSUME IInv, NEW t \in BagToSet(threads), Send(t)
  PROVE  IInv'
<1> DEFINE r == t.room
           l == IF t.kind \in TurnsOff THEN "off" ELSE IF t.kind = "dim" THEN "dim" ELSE "on"
           b == IF t.kind = "on" THEN "motion" ELSE IF t.kind = "restoreOn" THEN "mode"
                ELSE IF t.kind \in Motions THEN litBy[r] ELSE "user"
<1>1. /\ Ready(t)
      /\ lights' = [lights EXCEPT ![r] = l]
      /\ idle' = (IF t.kind \in TurnsOff THEN idle \cup {r} ELSE idle \ {r})
      /\ dimmed' = (IF t.kind = "dim" THEN dimmed \cup {r} ELSE dimmed \ {r})
      /\ scene' = scene \ {r}
      /\ litBy' = [litBy EXCEPT ![r] = b]
      /\ threads' = Without(t)
      /\ UNCHANGED <<source, owned, requested, warned, sinceCheck, clears, breaker, enabled, bound, reentered,
                     moving, late, tripped, switches>>
  BY DEF Send, timers
<1>2. t \in Thread /\ r \in Rooms /\ l \in {"off", "dim", "on"} /\ b \in {"motion", "user", "mode", "left"}
  BY DEF IInv, Types, Thread
<1>3. /\ IsABag(threads)' /\ BagToSet(threads)' \subseteq Thread
      /\ BagToSet(threads)' \subseteq BagToSet(threads)
  BY <1>1, ThreadEnds DEF IInv
<1> HIDE DEF l, b
<1>4. Types'
  <2>1. lights' \in [Rooms -> {"off", "dim", "on"}] /\ litBy' \in [Rooms -> {"motion", "user", "mode", "left"}]
    BY <1>1, <1>2 DEF IInv, Types
  <2>2. idle' \subseteq Rooms /\ dimmed' \subseteq Rooms /\ scene' \subseteq bound
    BY <1>1, <1>2 DEF IInv, Types
  <2>3. QED BY <1>1, <1>3, <2>1, <2>2 DEF IInv, Types
<1>5. TimerInv'
  <2>1. \A u \in Rooms : Suppressed(u)' => Suppressed(u)
    BY <1>1 DEF Suppressed
  <2>2. QED BY <1>1, <2>1, TimersFrame DEF IInv
<1>6. SceneInv'
  <2>1. SUFFICES ASSUME NEW u \in scene'
                 PROVE  /\ u \in idle' /\ u \notin dimmed'
                        /\ u \notin reentered =>
                             \A v \in BagToSet(threads)' : v.room = u /\ v.at # "started" => v.kind \in SceneKinds
    BY <1>1 DEF SceneInv
  <2>2. u \in scene /\ u # r
    BY <1>1, <2>1
  <2>3. (u \in idle' <=> u \in idle) /\ (u \in dimmed' <=> u \in dimmed)
    BY <1>1, <2>2
  <2>4. QED BY <1>3, <2>2, <2>3 DEF IInv, SceneInv
<1>7. QED BY <1>4, <1>5, <1>6 DEF IInv

\* SendMood: a bound room comes back to its scene and is queued for a clear.
LEMMA SendMoodStep ==
  ASSUME IInv, NEW t \in BagToSet(threads), SendMood(t)
  PROVE  IInv'
<1> DEFINE r == t.room
           b == IF t.kind = "setMood" THEN "user" ELSE "mode"
<1>1. /\ EnterMood(t)
      /\ lights' = [lights EXCEPT ![r] = "on"]
      /\ idle' = idle \cup {r} /\ dimmed' = dimmed \ {r}
      /\ clears' = clears \cup ({r} \cap bound)
      /\ litBy' = [litBy EXCEPT ![r] = b]
      /\ threads' = Without(t)
      /\ UNCHANGED <<source, owned, requested, warned, sinceCheck, breaker, enabled, bound,
                     moving, late, tripped, switches>>
  BY DEF SendMood, timers
<1>2. t \in Thread /\ r \in Rooms /\ b \in {"motion", "user", "mode", "left"}
  BY DEF IInv, Types, Thread
<1>3. /\ IsABag(threads)' /\ BagToSet(threads)' \subseteq Thread
      /\ BagToSet(threads)' \subseteq BagToSet(threads)
  BY <1>1, ThreadEnds DEF IInv
<1>4. /\ scene' \subseteq scene \cup ({r} \cap bound) /\ reentered' \subseteq Rooms
      /\ \A q : q # r => (q \in reentered' <=> q \in reentered)
      /\ r \notin reentered' =>
           \A u \in BagToSet(threads)' : u.room = r /\ u.at # "started" => u.kind \in Users
  BY <1>1, EnterMoodFacts
<1> HIDE DEF b
<1>5. Types'
  <2>1. lights' \in [Rooms -> {"off", "dim", "on"}] /\ litBy' \in [Rooms -> {"motion", "user", "mode", "left"}]
    BY <1>1, <1>2 DEF IInv, Types
  <2>2. idle' \subseteq Rooms /\ dimmed' \subseteq Rooms /\ scene' \subseteq bound /\ clears' \subseteq Rooms
    BY <1>1, <1>2, <1>4 DEF IInv, Types
  <2>3. QED BY <1>1, <1>3, <1>4, <2>1, <2>2 DEF IInv, Types
<1>6. TimerInv'
  <2>1. \A u \in Rooms : Suppressed(u)' => Suppressed(u) \/ u \in clears'
    BY <1>1, <1>4 DEF Suppressed
  <2>2. QED BY <1>1, <2>1, TimersFrame DEF IInv
<1>7. SceneInv'
  <2>1. SUFFICES ASSUME NEW u \in scene'
                 PROVE  /\ u \in idle' /\ u \notin dimmed'
                        /\ u \notin reentered' =>
                             \A v \in BagToSet(threads)' : v.room = u /\ v.at # "started" => v.kind \in SceneKinds
    BY DEF SceneInv
  <2>2. CASE u = r
    BY <1>1, <1>4, <2>2 DEF SceneKinds
  <2>3. CASE u # r
    <3>1. u \in scene /\ (u \in reentered' <=> u \in reentered)
      BY <1>4, <2>1, <2>3
    <3>2. u \in idle' /\ u \notin dimmed'
      BY <1>1, <2>3, <3>1 DEF IInv, SceneInv
    <3>3. QED BY <1>3, <3>1, <3>2 DEF IInv, SceneInv
  <2>4. QED BY <2>2, <2>3
<1>8. QED BY <1>5, <1>6, <1>7 DEF IInv

\* Keep: a thread ends and the room is as it was.
LEMMA KeepStep ==
  ASSUME IInv, NEW t \in BagToSet(threads), Keep(t)
  PROVE  IInv'
<1>1. /\ litBy' = [litBy EXCEPT ![t.room] = "left"]
      /\ threads' = Without(t)
      /\ UNCHANGED <<source, owned, requested, warned, sinceCheck, clears, breaker, enabled, scene, bound,
                     reentered, idle, dimmed, lights, moving, late, tripped, switches>>
  BY DEF Keep, timers, scenes
<1>2. /\ IsABag(threads)' /\ BagToSet(threads)' \subseteq Thread
      /\ BagToSet(threads)' \subseteq BagToSet(threads)
  BY <1>1, ThreadEnds DEF IInv
<1>3. litBy' \in [Rooms -> {"motion", "user", "mode", "left"}]
  BY <1>1 DEF IInv, Types
<1>4. Types'
  BY <1>1, <1>2, <1>3 DEF IInv, Types
<1>5. TimerInv'
  BY <1>1, TimersFrame DEF IInv, Suppressed
<1>6. SceneInv'
  BY <1>1, <1>2, SceneFrame DEF IInv
<1>7. QED BY <1>4, <1>5, <1>6 DEF IInv

\* Adapt: no room that a scene owns is adapted.
LEMMA AdaptStep ==
  ASSUME IInv, NEW r \in Rooms, Adapt(r)
  PROVE  IInv'
<1>1. /\ r \notin idle \cup dimmed /\ lights' = [lights EXCEPT ![r] = "on"]
      /\ UNCHANGED <<source, owned, requested, warned, sinceCheck, clears, breaker, enabled, scene, bound, reentered, idle,
                     dimmed, litBy, threads, moving, late, tripped, switches>>
  BY DEF Adapt, timers, scenes
<1>2. Types'
  BY <1>1 DEF IInv, Types
<1>3. TimerInv'
  BY <1>1, TimersFrame DEF IInv, Suppressed
<1>4. SceneInv'
  BY <1>1 DEF IInv, SceneInv, Types
<1>5. QED BY <1>2, <1>3, <1>4 DEF IInv

-----------------------------------------------------------------------------
(* What the invariant gives.                                                *)

\* The invariant holds at the start.
LEMMA InitInvariant == Init => IInv
<1> SUFFICES ASSUME Init
             PROVE  IInv
  OBVIOUS
<1>1. \A p \in Pairs : source[p] = Untracked
  BY DEF Init
<1>2. \A r : SourcesOf(r) = {} /\ ~HasActive(r)
  BY <1>1 DEF SourcesOf, HasActive
<1>3. BagToSet(threads) = {} /\ IsABag(threads)
  BY DEF Init, EmptyBag, BagToSet, SetToBag, IsABag
<1>4. Types
  <2>1. source \in [Pairs -> Untracked..(Horizon + 1)]
    BY Numbers DEF Init, Untracked
  <2>2. QED BY <1>3, <2>1, Numbers DEF Init, Types
<1>5. TimerInv
  BY <1>1, <1>2 DEF Init, TimerInv, TimersAgree, NoPhantom, NotTracked, InTime, WarnedInTime, Active, Untracked
<1>6. SceneInv
  BY DEF Init, SceneInv
<1>7. QED BY <1>4, <1>5, <1>6 DEF IInv

\* Every step keeps it.
LEMMA NextInvariant == IInv /\ [Next]_vars => IInv'
<1> SUFFICES ASSUME IInv, [Next]_vars
             PROVE  IInv'
  OBVIOUS
<1>1. CASE \E s \in Sensors, r \in Rooms : MotionStarts(s, r) \/ MotionStops(s, r)
  BY <1>1, MotionStep
<1>2. CASE \E r \in Rooms, kind \in Inputs \ Requests : Press(r, kind)
  BY <1>2, PressStep
<1>3. CASE \E r \in Rooms, kind \in Inputs \cap Requests : Request(r, kind)
  BY <1>3, RequestStep
<1>4. CASE \E r \in Rooms : SetEnabled(r) \/ Adapt(r)
  BY <1>4, SetEnabledStep, AdaptStep
<1>5. CASE SetBreaker \/ ApplyScene
  BY <1>5, SetBreakerStep, ApplySceneStep
<1>6. CASE TakeClears \/ BreakerClears \/ Check \/ Tick
  BY <1>6, ClearStep, CheckStep, TickStep
<1>7. CASE ThreadStep
  BY <1>7, AdmitStep, SetModeStep, SendStep, SendMoodStep, KeepStep DEF ThreadStep
<1>8. CASE UNCHANGED vars
  <2>1. UNCHANGED <<source, owned, requested, warned, sinceCheck, clears, breaker, enabled, scene, bound, reentered, idle,
                    dimmed, lights, litBy, threads, moving, late, tripped, switches>>
    BY <1>8 DEF vars, timers, rooms, scenes
  <2>2. Types'
    BY <2>1 DEF IInv, Types
  <2>3. TimerInv'
    BY <2>1, TimersFrame DEF IInv, Suppressed
  <2>4. QED BY <2>1, <2>2, <2>3, SceneFrame DEF IInv
<1>9. QED BY <1>1, <1>2, <1>3, <1>4, <1>5, <1>6, <1>7, <1>8 DEF Next

\* The inductive invariant holds throughout, whatever the order of events,
\* requests, threads and late checks.
THEOREM Invariant == Spec => []IInv
<1>1. Init => IInv
  BY InitInvariant
<1>2. IInv /\ [Next]_vars => IInv'
  BY NextInvariant
<1>3. QED BY <1>1, <1>2, PTL DEF Spec

\* The four tables of MotionTimerState agree with one another and with the
\* sensors, whichever of the handlers drops entries from them.
THEOREM TimersCorrect == Spec => []TimersAgree
<1>1. IInv => TimersAgree
  BY DEF IInv, TimerInv
<1>2. QED BY <1>1, Invariant, PTL

\* No room without motion is forgotten: its countdown ends at most one late
\* check after its timeout (check_motion_timers).
THEOREM CountdownsEnd == Spec => []NeverOverdue
<1>1. IInv => NeverOverdue
  <2> SUFFICES ASSUME IInv, NEW r \in Rooms, SourcesOf(r) # {}, Timeout[r] > 0
               PROVE  \E p \in SourcesOf(r) : source[p] <= Timeout[r] + MaxGap
    BY DEF NeverOverdue
  <2>1. PICK p \in SourcesOf(r) : source[p] <= Timeout[r] + sinceCheck
    BY DEF IInv, TimerInv, InTime
  <2>2. source[p] \in Int /\ sinceCheck \in 0..MaxGap
    BY <2>1, SourceFacts DEF IInv, Types
  <2>3. QED BY <2>1, <2>2, Numbers
<1>2. QED BY <1>1, Invariant, PTL

\* A room that a home scene owns is changed by another scene, by a user's
\* press or request or by the mood that has brought the scene back, and by no
\* other thread of motion or of a contact, however late, unless Mood has
\* brought the scene back under that thread (run_motion_action_if_allowed,
\* do_home_scene_apply, apply_mood_scene_or_tick).
THEOREM ScenesStand == Spec => SceneUndisturbed
<1> DEFINE Acts(r) == \E t \in BagToSet(threads) :
                        /\ t.room = r /\ t.kind \in Users \cup {"restoreMood"}
                        /\ SetMode(t) \/ Send(t) \/ SendMood(t)
           A == \A r \in scene \ reentered :
                  lights'[r] # lights[r] \/ r \notin scene' \/ r \notin idle' \/ r \in dimmed'
                    => \/ ApplyScene
                       \/ \E t \in BagToSet(threads) :
                            /\ t.room = r /\ t.kind \in Users \cup {"restoreMood"}
                            /\ SetMode(t) \/ Send(t) \/ SendMood(t)
<1>1. IInv /\ [Next]_vars => [A]_vars
  <2> SUFFICES ASSUME IInv, Next,
                      NEW r \in scene \ reentered,
                      lights'[r] # lights[r] \/ r \notin scene' \/ r \notin idle' \/ r \in dimmed',
                      ~ApplyScene
               PROVE  Acts(r)
    OBVIOUS
  <2>1. r \in Rooms /\ r \in idle /\ r \notin dimmed
    BY DEF IInv, Types, SceneInv
  <2>2. ~\E q \in Rooms : Adapt(q)
    <3>1. SUFFICES ASSUME NEW q \in Rooms, Adapt(q)
                   PROVE  FALSE
      OBVIOUS
    <3>2. q # r /\ lights' = [lights EXCEPT ![q] = "on"] /\ UNCHANGED <<scene, idle, dimmed>>
      BY <2>1, <3>1 DEF Adapt, scenes
    <3>3. QED BY <2>1, <3>1, <3>2 DEF IInv, Types
  <2>3. ThreadStep
    BY <2>1, <2>2 DEF Next, MotionStarts, MotionStops, Press, Request, SetEnabled, SetBreaker,
      TakeClears, BreakerClears, Check, Tick, rooms, scenes
  <2>4. PICK t \in BagToSet(threads) : Admit(t) \/ SetMode(t) \/ Send(t) \/ SendMood(t) \/ Keep(t)
    BY <2>3 DEF ThreadStep
  <2>5. ~Admit(t) /\ ~Keep(t)
    BY <2>1 DEF Admit, Keep, rooms, scenes
  <2>6. t.room = r
    <3>1. SUFFICES ASSUME t.room # r PROVE FALSE
      OBVIOUS
    <3>2. CASE SetMode(t)
      BY <2>1, <3>1, <3>2, EnterMoodFacts DEF SetMode
    <3>3. CASE Send(t)
      BY <2>1, <3>1, <3>3 DEF Send, IInv, Types
    <3>4. CASE SendMood(t)
      BY <2>1, <3>1, <3>4, EnterMoodFacts DEF SendMood, IInv, Types
    <3>5. QED BY <2>4, <2>5, <3>2, <3>3, <3>4
  <2>7. t.at # "started" => t.kind \in Users \cup {"restoreMood"}
    BY <2>6 DEF IInv, SceneInv, SceneKinds
  <2>8. CASE SetMode(t)
    <3>1. t.kind \in Requests \/ t.at = "reading"
      BY <2>8 DEF SetMode
    <3>2. t.kind \in Users \cup {"restoreMood"}
      BY <2>7, <3>1 DEF Users
    <3>3. QED BY <2>6, <2>8, <3>2
  <2>9. CASE Send(t)
    <3>1. t.kind \in Users
      BY <2>6, <2>9, SenderFacts DEF Send
    <3>2. QED BY <2>6, <2>9, <3>1
  <2>10. CASE SendMood(t)
    <3>1. t.kind \in Users \cup {"restoreMood"}
      BY <2>7, <2>10 DEF SendMood
    <3>2. QED BY <2>6, <2>10, <3>1
  <2>11. QED BY <2>4, <2>5, <2>8, <2>9, <2>10
<1>2. QED BY <1>1, Invariant, PTL DEF Spec, SceneUndisturbed

\* Motion switches no room off that it has not warned, however late the
\* checks are within the warning time (check_motion_timers).
THEOREM OffAfterWarning == Spec => WarnedFirst
<1> DEFINE A == \A r \in owned \ owned' :
                  (breaker /\ sinceCheck' < sinceCheck /\ r \in Expired /\ Timeout[r] > Warning)
                    => r \in warned
<1>1. IInv /\ [Next]_vars => [A]_vars
  <2> SUFFICES ASSUME IInv,
                      NEW r \in owned \ owned', r \in Expired, Timeout[r] > Warning
               PROVE  r \in warned
    OBVIOUS
  <2>1. r \in Rooms /\ SourcesOf(r) # {} /\ ~HasActive(r) /\ Elapsed(r) > Timeout[r]
    BY DEF Expired, Governed, Counting, IInv, Types
  <2>2. SUFFICES ASSUME r \notin warned
                 PROVE  FALSE
    OBVIOUS
  <2>3. PICK p \in SourcesOf(r) : source[p] < (Timeout[r] - Warning) + sinceCheck
    BY <2>2 DEF IInv, TimerInv, WarnedInTime
  <2>4. Elapsed(r) \in Nat /\ Elapsed(r) <= source[p] /\ source[p] \in Int
    BY <2>1, <2>3, ElapsedFacts, SourceFacts DEF IInv
  <2>5. sinceCheck \in 0..MaxGap
    BY DEF IInv, Types
  <2>6. QED BY <2>1, <2>3, <2>4, <2>5, Numbers
<1>2. QED BY <1>1, Invariant, PTL DEF Spec, WarnedFirst

-----------------------------------------------------------------------------
(* A second invariant, on top of the first: what is under way in a room     *)
(* whose decisions are carried out one at a time.                           *)

\* The threads of a room, in a bag of threads.
Of(B, r) == {t \in BagToSet(B) : t.room = r}

ThreadsOf(r) == Of(threads, r)

\* Nothing is at odds with the timers ...
Agrees(r) ==
  /\ r \in owned => lights[r] # "off"
  /\ litBy[r] = "motion" /\ lights[r] # "off" => r \in owned
  /\ r \in dimmed => r \in warned \/ litBy[r] = "left"

\* ... or will be once they are cleared.
AgreesCleared(r) == (litBy[r] = "motion" => lights[r] = "off") /\ r \notin dimmed

Brightens == {"on", "bright", "dim"}

\* What a thread t of an orderly room r finds: it has not been retired on its
\* way, the timers that it was started for are still there and those that it
\* must not leave are gone.
Expects(r, t) ==
  /\ t.kind \in Motions /\ t.at = "started" => ~Suppressed(r)
  /\ t.at # "flagged" => r \notin clears
  /\ t.kind \in Brightens => r \in owned /\ t.at # "flagged"
  /\ t.kind = "bright" => lights[r] # "off"
  /\ t.kind = "dim" => r \in warned
  /\ t.kind \in Kinds \ (Brightens \cup Requests) => r \notin owned
  /\ t.kind \in Requests /\ t.at = "flagged" => r \in clears \/ r \notin owned

\* Only the two threads of a motion event run side by side.
Pair(t, u) == t.kind = "on" /\ u.kind = "bright"

Rests(r) == IF r \in clears THEN AgreesCleared(r) ELSE Agrees(r)

RoomInv(r) ==
  /\ \A t \in ThreadsOf(r) : threads[t] = 1 /\ Expects(r, t)
  /\ \A t, u \in ThreadsOf(r) : t = u \/ Pair(t, u) \/ Pair(u, t)
  /\ ThreadsOf(r) = {} => Rests(r)

\* A thread of r is about to send the mood that has brought a scene back.
MoodDue(r) == \E t \in ThreadsOf(r) : t.kind \in Moods /\ t.at = "flagged"

\* What a scene has lit, motion has not, or the scene is about to be sent.
SceneLit == \A r \in scene : litBy[r] # "motion" \/ MoodDue(r)

RInv == SceneLit /\ \A r \in Orderly : RoomInv(r)

-----------------------------------------------------------------------------
(* How the threads of a room change.                                        *)

\* One more thread for each of the rooms rs.
LEMMA StartThreads ==
  ASSUME NEW B, IsABag(B), NEW kind, NEW rs, NEW r
  PROVE  LET C == B (+) Started(kind, rs)
             n == [kind |-> kind, room |-> r, at |-> "started"]
         IN  /\ IsABag(C)
             /\ r \notin rs => Of(C, r) = Of(B, r)
             /\ r \in rs => Of(C, r) = Of(B, r) \cup {n}
             /\ \A t \in Of(B, r) : r \notin rs \/ t # n => C[t] = B[t]
             /\ r \in rs /\ n \notin Of(B, r) => C[n] = 1
<1> DEFINE S == {[kind |-> kind, room |-> q, at |-> "started"] : q \in rs}
           C == B (+) SetToBag(S)
           n == [kind |-> kind, room |-> r, at |-> "started"]
<1>1. IsABag(C) /\ BagToSet(C) = BagToSet(B) \cup S
  BY BagAdd
<1>2. \A t : t \in S /\ t.room = r => r \in rs /\ t = n
  OBVIOUS
<1>3. r \in rs => n \in S /\ n.room = r
  OBVIOUS
<1>4. \A t \in BagToSet(B) \cup S :
        C[t] = (IF t \in BagToSet(B) THEN B[t] ELSE 0) + (IF t \in S THEN 1 ELSE 0)
  <2>1. /\ DOMAIN SetToBag(S) = S /\ DOMAIN B = BagToSet(B)
        /\ \A t \in S : SetToBag(S)[t] = 1
    BY DEF SetToBag, BagToSet
  <2> HIDE DEF S
  <2>2. QED BY <2>1 DEF (+)
<1>5. \A t \in BagToSet(B) : B[t] \in Nat
  BY DEF IsABag, BagToSet
<1> HIDE DEF S, C, n
<1>6. r \notin rs => Of(C, r) = Of(B, r)
  BY <1>1, <1>2 DEF Of
<1>7. r \in rs => Of(C, r) = Of(B, r) \cup {n}
  BY <1>1, <1>2, <1>3 DEF Of
<1>8. \A t \in Of(B, r) : r \notin rs \/ t # n => C[t] = B[t]
  <2>1. SUFFICES ASSUME NEW t \in Of(B, r), r \notin rs \/ t # n
                 PROVE  C[t] = B[t]
    OBVIOUS
  <2>2. t \in BagToSet(B) /\ t \notin S
    BY <1>2, <2>1 DEF Of
  <2>3. QED BY <1>4, <1>5, <2>2
<1>9. r \in rs /\ n \notin Of(B, r) => C[n] = 1
  <2>1. SUFFICES ASSUME r \in rs, n \notin Of(B, r)
                 PROVE  C[n] = 1
    OBVIOUS
  <2>2. n \in S /\ n \notin BagToSet(B)
    BY <1>3, <2>1 DEF Of
  <2>3. QED BY <1>4, <2>2
<1>10. B (+) Started(kind, rs) = C
  BY DEF Started, C, S
<1>11. QED
  <2> DEFINE D == B (+) Started(kind, rs)
  <2>1. D = C
    BY <1>10
  <2> HIDE DEF D
  <2>2. /\ IsABag(D)
        /\ r \notin rs => Of(D, r) = Of(B, r)
        /\ r \in rs => Of(D, r) = Of(B, r) \cup {n}
        /\ \A t \in Of(B, r) : r \notin rs \/ t # n => D[t] = B[t]
        /\ r \in rs /\ n \notin Of(B, r) => D[n] = 1
    BY <1>1, <1>6, <1>7, <1>8, <1>9, <2>1
  <2>3. QED BY <2>2 DEF D, n

\* The threads of the other rooms stay ...
LEMMA StartOthers ==
  ASSUME NEW B, IsABag(B), NEW kind, NEW rs, NEW r, r \notin rs
  PROVE  Of(B (+) Started(kind, rs), r) = Of(B, r)
<1> DEFINE C == B (+) Started(kind, rs)
           n == [kind |-> kind, room |-> r, at |-> "started"]
<1>1. /\ IsABag(C)
      /\ r \notin rs => Of(C, r) = Of(B, r)
      /\ r \in rs => Of(C, r) = Of(B, r) \cup {n}
      /\ \A t \in Of(B, r) : r \notin rs \/ t # n => C[t] = B[t]
      /\ r \in rs /\ n \notin Of(B, r) => C[n] = 1
  BY StartThreads
<1>2. QED BY <1>1

\* ... and so does their number.
LEMMA StartCounts ==
  ASSUME NEW B, IsABag(B), NEW kind, NEW rs, NEW r, r \notin rs, NEW t \in Of(B, r)
  PROVE  (B (+) Started(kind, rs))[t] = B[t]
<1> DEFINE C == B (+) Started(kind, rs)
           n == [kind |-> kind, room |-> r, at |-> "started"]
<1>1. /\ IsABag(C)
      /\ r \notin rs => Of(C, r) = Of(B, r)
      /\ r \in rs => Of(C, r) = Of(B, r) \cup {n}
      /\ \A u \in Of(B, r) : r \notin rs \/ u # n => C[u] = B[u]
      /\ r \in rs /\ n \notin Of(B, r) => C[n] = 1
  BY StartThreads
<1>2. QED BY <1>1

\* A thread of which there is one ends.
LEMMA EndThread ==
  ASSUME NEW B, IsABag(B), NEW t \in BagToSet(B), NEW r, t.room = r => B[t] = 1
  PROVE  LET C == B (-) SetToBag({t})
         IN  /\ IsABag(C)
             /\ Of(C, r) = Of(B, r) \ {t}
             /\ \A u \in Of(C, r) : C[u] = B[u]
<1> DEFINE C == B (-) SetToBag({t})
           D == [e \in BagToSet(B) |-> IF e = t THEN B[e] - 1 ELSE B[e]]
<1>1. C = [e \in {d \in BagToSet(B) : D[d] > 0} |-> D[e]]
  <2>1. /\ DOMAIN SetToBag({t}) = {t} /\ SetToBag({t})[t] = 1 /\ DOMAIN B = BagToSet(B)
    BY DEF SetToBag, BagToSet
  <2>2. D = [e \in DOMAIN B |-> IF e \in DOMAIN SetToBag({t}) THEN B[e] - SetToBag({t})[e] ELSE B[e]]
    BY <2>1
  <2>3. DOMAIN D = BagToSet(B)
    OBVIOUS
  <2> HIDE DEF D
  <2>4. QED BY <2>2, <2>3 DEF (-)
<1>2. \A e \in BagToSet(B) : B[e] \in Nat /\ B[e] > 0
  BY DEF IsABag, BagToSet
<1>3. \A e \in BagToSet(B) : e # t => D[e] = B[e]
  OBVIOUS
<1>4. t.room = r => D[t] = 0
  OBVIOUS
<1>5. IsABag(C)
  BY BagRemove
<1> HIDE DEF D
<1>6. \A e : e \in BagToSet(C) <=> e \in BagToSet(B) /\ D[e] > 0
  BY <1>1 DEF BagToSet
<1>7. \A e \in BagToSet(C) : C[e] = D[e]
  BY <1>1, <1>6
<1> HIDE DEF C
<1>8. Of(C, r) = Of(B, r) \ {t}
  <2>1. \A u : u \in Of(C, r) => u \in Of(B, r) /\ u # t
    BY <1>4, <1>6 DEF Of
  <2>2. \A u : u \in Of(B, r) /\ u # t => u \in Of(C, r)
    BY <1>2, <1>3, <1>6 DEF Of
  <2>3. QED BY <2>1, <2>2
<1>9. \A u \in Of(C, r) : C[u] = B[u]
  BY <1>3, <1>6, <1>7, <1>8 DEF Of
<1>10. QED BY <1>5, <1>8, <1>9 DEF C

-----------------------------------------------------------------------------
(* Steps that leave an orderly room as it is, or make it one.               *)

\* As far as RoomInv can tell nothing happens to the room r.
RoomSame(r) ==
  /\ (r \in owned' <=> r \in owned) /\ (r \in warned' <=> r \in warned)
  /\ (r \in dimmed' <=> r \in dimmed) /\ (r \in clears' <=> r \in clears)
  /\ litBy'[r] = litBy[r] /\ (lights'[r] = "off" <=> lights[r] = "off")
  /\ Suppressed(r)' => Suppressed(r)
  /\ ThreadsOf(r)' = ThreadsOf(r) /\ \A t \in ThreadsOf(r) : threads'[t] = threads[t]

\* The room's invariant depends on nothing else.
LEMMA RoomFrame ==
  ASSUME NEW r, RoomInv(r), RoomSame(r)
  PROVE  RoomInv(r)'
<1>1. \A t : Expects(r, t) => Expects(r, t)'
  BY DEF RoomSame, Expects
<1>2. Rests(r) => Rests(r)'
  BY DEF RoomSame, Rests, Agrees, AgreesCleared
<1>3. \A t \in ThreadsOf(r)' : threads'[t] = 1 /\ Expects(r, t)'
  BY <1>1 DEF RoomSame, RoomInv
<1>4. \A t, u \in ThreadsOf(r)' : t = u \/ Pair(t, u) \/ Pair(u, t)
  BY DEF RoomSame, RoomInv
<1>5. ThreadsOf(r)' = {} => Rests(r)'
  BY <1>2 DEF RoomSame, RoomInv
<1>6. QED BY <1>3, <1>4, <1>5 DEF RoomInv

\* The room's only thread, or none.
LEMMA RoomOfOne ==
  ASSUME NEW r, NEW t, ThreadsOf(r)' = {t}, threads'[t] = 1, Expects(r, t)'
  PROVE  RoomInv(r)'
BY DEF RoomInv

\* A room without threads.
LEMMA RoomOfNone ==
  ASSUME NEW r, ThreadsOf(r)' = {}, Rests(r)'
  PROVE  RoomInv(r)'
BY DEF RoomInv

\* The threads do not change.
LEMMA ThreadsSame ==
  ASSUME threads' = threads, NEW r
  PROVE  ThreadsOf(r)' = ThreadsOf(r) /\ \A t \in ThreadsOf(r) : threads'[t] = threads[t]
BY DEF ThreadsOf, Of

\* A quiet room has no threads and nothing is at odds in it.
LEMMA QuietFacts ==
  ASSUME NEW r, ~Busy(r)
  PROVE  r \notin clears /\ ThreadsOf(r) = {} /\ (RoomInv(r) => Agrees(r))
<1>1. r \notin clears /\ ThreadsOf(r) = {}
  BY DEF Busy, ThreadsOf, Of
<1>2. QED BY <1>1 DEF RoomInv, Rests

\* An orderly room was one before, unless it has been pressed.
LEMMA WasOrderly ==
  ASSUME RInv, late \subseteq late', tripped \subseteq tripped', NEW r \in Orderly'
  PROVE  r \in Rooms /\ r \notin late /\ RoomInv(r)
BY DEF Orderly, RInv

\* No thread ends when threads are started.
LEMMA ThreadsGrow ==
  ASSUME NEW B, NEW kind, NEW rs
  PROVE  BagToSet(B) \subseteq BagToSet(B (+) Started(kind, rs))
<1>1. PICK S : S = {[kind |-> kind, room |-> r, at |-> "started"] : r \in rs}
  OBVIOUS
<1>2. B (+) Started(kind, rs) = B (+) SetToBag(S)
  BY <1>1 DEF Started
<1>3. QED BY <1>2, BagAdd

\* What keeps a scene's rooms lit by the scene ...
LEMMA SceneLitKept ==
  ASSUME SceneLit,
         \A r \in scene' :
           \/ litBy'[r] # "motion" \/ MoodDue(r)'
           \/ /\ r \in scene /\ litBy'[r] = litBy[r]
              /\ \A t \in ThreadsOf(r) : t.at = "flagged" => t \in ThreadsOf(r)'
  PROVE  SceneLit'
BY DEF SceneLit, MoodDue

\* ... if no thread ends.
LEMMA SceneLitSame ==
  ASSUME SceneLit, scene' \subseteq scene, litBy' = litBy, BagToSet(threads) \subseteq BagToSet(threads)'
  PROVE  SceneLit'
<1>1. \A r : ThreadsOf(r) \subseteq ThreadsOf(r)'
  BY DEF ThreadsOf, Of
<1>2. QED BY <1>1, SceneLitKept

\* One thread is started, for the room r.
LEMMA StartsOne ==
  ASSUME IsABag(threads), NEW kind, NEW r, threads' = threads (+) Started(kind, {r})
  PROVE  /\ \A q : q # r => /\ ThreadsOf(q)' = ThreadsOf(q)
                           /\ \A t \in ThreadsOf(q) : threads'[t] = threads[t]
         /\ ThreadsOf(r) = {} =>
              LET n == [kind |-> kind, room |-> r, at |-> "started"]
              IN  ThreadsOf(r)' = {n} /\ threads'[n] = 1
<1> DEFINE rs == {r}
           C == threads (+) Started(kind, rs)
           n == [kind |-> kind, room |-> r, at |-> "started"]
<1>1. threads' = C
  OBVIOUS
<1>2. ASSUME NEW q, q \notin rs
      PROVE  Of(C, q) = Of(threads, q) /\ \A t \in Of(threads, q) : C[t] = threads[t]
  <2> HIDE DEF rs
  <2>1. QED BY <1>2, StartOthers, StartCounts
<1>3. ASSUME r \in rs, Of(threads, r) = {}
      PROVE  Of(C, r) = {n} /\ C[n] = 1
  <2> HIDE DEF rs
  <2>1. QED BY <1>3, StartThreads
<1>4. r \in rs /\ \A q : q # r => q \notin rs
  OBVIOUS
<1> HIDE DEF C, rs, n
<1>5. QED BY <1>1, <1>2, <1>3, <1>4 DEF ThreadsOf, n

-----------------------------------------------------------------------------
(* The event loop and the requests.                                         *)

\* Nothing happens to any orderly room.
LEMMA AllSame ==
  ASSUME RInv, late \subseteq late', tripped \subseteq tripped', scene' \subseteq scene, litBy' = litBy,
         BagToSet(threads) \subseteq BagToSet(threads)',
         \A r \in Orderly' : RoomSame(r)
  PROVE  RInv'
<1>1. SceneLit'
  BY SceneLitSame DEF RInv
<1>2. ASSUME NEW r \in Orderly' PROVE RoomInv(r)'
  BY <1>2, WasOrderly, RoomFrame
<1>3. QED BY <1>1, <1>2 DEF RInv

\* Detected: the room is lit, or brightened, or both at once.
LEMMA DetectedRooms ==
  ASSUME IInv, RInv, NEW s, NEW r \in Rooms, ~Ignored(r),
         NEW seen, Detected(s, r, seen), tripped' = tripped,
         UNCHANGED <<clears, enabled, scene, bound, reentered, idle, dimmed, lights, litBy>>
  PROVE  RInv'
<1> DEFINE on == ~HasActive(r) /\ ~AlreadyOn(r, seen) /\ TurnsOn(r, seen)
           R1 == warned \cap {r}
           R2 == IF on THEN {r} ELSE {}
           nb == [kind |-> "bright", room |-> r, at |-> "started"]
           no == [kind |-> "on", room |-> r, at |-> "started"]
<1>1. /\ warned' = warned \ {r}
      /\ owned \subseteq owned' /\ owned' \subseteq owned \cup {r}
      /\ threads' = threads (+) Started("bright", R1) (+) Started("on", R2)
      /\ late' = late \cup {u \in {r} : Busy(u)}
  BY DEF Detected, Decide
<1>2. on => r \in owned'
  BY DEF Detected
<1>3. ~on /\ r \in owned' => r \in owned
  BY DEF Detected, TurnsOn
<1>4. IsABag(threads)
  BY DEF IInv, Types
<1> DEFINE B1 == threads (+) Started("bright", R1)
           B2 == B1 (+) Started("on", R2)
<1>5. threads' = B2
  BY <1>1
<1> HIDE DEF on, R1, R2
<1>6. SceneLit'
  <2>1. BagToSet(threads) \subseteq BagToSet(B1) /\ BagToSet(B1) \subseteq BagToSet(B2)
    BY ThreadsGrow
  <2>2. BagToSet(threads) \subseteq BagToSet(threads)'
    BY <1>5, <2>1
  <2>3. QED BY <2>2, SceneLitSame DEF RInv
<1>7. R1 \subseteq {r} /\ R2 \subseteq {r} /\ (r \in R1 <=> r \in warned) /\ (r \in R2 <=> on)
  BY DEF R1, R2
<1>8. ASSUME NEW q
      PROVE  /\ IsABag(B1)
             /\ q \notin R1 => Of(B1, q) = Of(threads, q) /\ \A t \in Of(threads, q) : B1[t] = threads[t]
             /\ q \in R1 => Of(B1, q) = Of(threads, q) \cup {[kind |-> "bright", room |-> q, at |-> "started"]}
             /\ q \in R1 /\ Of(threads, q) = {} => B1[[kind |-> "bright", room |-> q, at |-> "started"]] = 1
  BY <1>4, StartThreads
<1>9. ASSUME NEW q
      PROVE  /\ q \notin R2 => Of(B2, q) = Of(B1, q) /\ \A t \in Of(B1, q) : B2[t] = B1[t]
             /\ q \in R2 => Of(B2, q) = Of(B1, q) \cup {[kind |-> "on", room |-> q, at |-> "started"]}
             /\ \A t \in Of(B1, q) : t # [kind |-> "on", room |-> q, at |-> "started"] => B2[t] = B1[t]
             /\ q \in R2 /\ [kind |-> "on", room |-> q, at |-> "started"] \notin Of(B1, q)
                  => B2[[kind |-> "on", room |-> q, at |-> "started"]] = 1
  <2>1. IsABag(B1)
    BY <1>8
  <2> HIDE DEF B1
  <2>2. QED BY <2>1, StartThreads
<1> HIDE DEF B1, B2
<1>10. ASSUME NEW q \in Orderly', q # r
       PROVE  RoomInv(q)'
  <2>1. q \notin R1 /\ q \notin R2
    BY <1>7, <1>10
  <2>2. Of(B2, q) = Of(threads, q) /\ \A t \in Of(threads, q) : B2[t] = threads[t]
    BY <1>8, <1>9, <2>1
  <2>3. RoomSame(q)
    BY <1>1, <1>5, <1>10, <2>2 DEF RoomSame, ThreadsOf, Suppressed
  <2>4. RoomInv(q)
    BY <1>1, WasOrderly
  <2>5. QED BY <2>3, <2>4, RoomFrame
<1>11. ASSUME r \in Orderly'
       PROVE  RoomInv(r)'
  <2>1. RoomInv(r) /\ r \notin late'
    BY <1>1, <1>11, WasOrderly DEF Orderly
  <2>2. ~Busy(r)
    BY <1>1, <2>1
  <2>3. r \notin clears /\ Of(threads, r) = {} /\ Agrees(r)
    BY <2>1, <2>2, QuietFacts DEF ThreadsOf
  <2>4. /\ Of(B2, r) = (IF r \in warned THEN {nb} ELSE {}) \cup (IF on THEN {no} ELSE {})
        /\ (r \in warned => B2[nb] = 1) /\ (on => B2[no] = 1)
    <3>1. nb # no
      OBVIOUS
    <3>2. CASE r \in warned
      <4>1. Of(B1, r) = {nb} /\ B1[nb] = 1
        BY <1>7, <1>8, <2>3, <3>2
      <4>2. on => Of(B2, r) = {nb, no} /\ B2[no] = 1
        BY <1>7, <1>9, <3>1, <4>1
      <4>3. ~on => Of(B2, r) = {nb}
        BY <1>7, <1>9, <4>1
      <4>4. B2[nb] = 1
        BY <1>9, <3>1, <4>1
      <4>5. QED BY <3>2, <4>2, <4>3, <4>4
    <3>3. CASE r \notin warned
      <4>1. Of(B1, r) = {}
        BY <1>7, <1>8, <2>3, <3>3
      <4>2. on => Of(B2, r) = {no} /\ B2[no] = 1
        BY <1>7, <1>9, <4>1
      <4>3. ~on => Of(B2, r) = {}
        BY <1>7, <1>9, <4>1
      <4>4. QED BY <3>3, <4>2, <4>3
    <3>4. QED BY <3>2, <3>3
  <2>5. ~Suppressed(r)' /\ r \notin clears' /\ (r \in warned => r \in owned /\ r \in owned' /\ lights'[r] # "off")
    BY <1>1, <2>3 DEF Ignored, Suppressed, Agrees, IInv, TimerInv, TimersAgree
  <2>6. r \in warned => Expects(r, nb)'
    BY <2>5 DEF Expects, Brightens, Kinds, Requests
  <2>7. on => Expects(r, no)'
    BY <1>2, <2>5 DEF Expects, Brightens, Kinds, Requests
  <2>8. ~on /\ r \notin warned => Rests(r)'
    <3>1. ~on => (r \in owned' <=> r \in owned)
      BY <1>1, <1>3
    <3>2. QED BY <1>1, <2>3, <2>5, <3>1 DEF Rests, Agrees
  <2>9. Pair(no, nb) /\ ThreadsOf(r)' = Of(B2, r)
    BY <1>5 DEF Pair, ThreadsOf
  <2> HIDE DEF nb, no
  <2>10. QED BY <1>5, <2>4, <2>6, <2>7, <2>8, <2>9 DEF RoomInv
<1>12. QED BY <1>6, <1>10, <1>11 DEF RInv

\* A motion event that finds its room suppressed or the breaker open, or says
\* that the motion has stopped, starts nothing.
LEMMA MotionRooms ==
  ASSUME IInv, RInv, NEW s, NEW r \in Rooms, MotionStarts(s, r) \/ MotionStops(s, r)
  PROVE  RInv'
<1>1. /\ UNCHANGED <<clears, enabled, scene, bound, reentered, idle, dimmed, lights, litBy>> /\ tripped \subseteq tripped'
      /\ breaker => tripped' = tripped
  BY DEF MotionStarts, MotionStops, rooms, scenes
<1>2. CASE /\ ~Ignored(r)
           /\ \E seen \in Observed(r) : Detected(s, r, seen)
  <2>1. tripped' = tripped
    BY <1>1, <1>2 DEF Ignored
  <2>2. QED BY <1>1, <1>2, <2>1, DetectedRooms
<1>3. CASE UNCHANGED <<owned, warned, threads, late>>
  <2>1. \A q \in Orderly' : RoomSame(q)
    BY <1>1, <1>3, ThreadsSame DEF RoomSame, Suppressed
  <2>2. QED BY <1>1, <1>3, <2>1, AllSame
<1>4. QED BY <1>2, <1>3 DEF MotionStarts, MotionStops, Stopped, timers, scenes

\* Press: on a quiet room it starts afresh, whatever the room was before.
LEMMA PressRooms ==
  ASSUME IInv, RInv, NEW r \in Rooms, NEW kind \in Inputs \ Requests, Press(r, kind)
  PROVE  RInv'
<1> DEFINE n == [kind |-> kind, room |-> r, at |-> "started"]
<1>1. /\ owned' = owned \ {r} /\ warned' = warned \ {r}
      /\ threads' = threads (+) Started(kind, {r})
      /\ late' = (IF Busy(r) THEN late \cup {r} ELSE late \ {r})
      /\ tripped' = (IF Busy(r) THEN tripped ELSE tripped \ {r})
      /\ UNCHANGED <<clears, enabled, scene, bound, reentered, idle, dimmed, lights, litBy>>
  BY DEF Press, PressDrops, DropTimers, rooms, scenes
<1>2. kind \in Presses \cup Contacts
  BY MotionAssumption DEF Users
<1>3. SceneLit'
  <2>1. BagToSet(threads) \subseteq BagToSet(threads)'
    BY <1>1, ThreadsGrow
  <2>2. QED BY <1>1, <2>1, SceneLitSame DEF RInv
<1>4. IsABag(threads)
  BY DEF IInv, Types
<1>5. ASSUME NEW q \in Orderly', q # r
      PROVE  RoomInv(q)'
  <2>1. ThreadsOf(q)' = ThreadsOf(q) /\ \A t \in ThreadsOf(q) : threads'[t] = threads[t]
    BY <1>1, <1>4, <1>5, StartsOne
  <2>2. RoomSame(q)
    BY <1>1, <1>5, <2>1 DEF RoomSame, Suppressed
  <2>3. RoomInv(q)
    BY <1>1, <1>5 DEF Orderly, RInv
  <2>4. QED BY <2>2, <2>3, RoomFrame
<1>6. ASSUME r \in Orderly'
      PROVE  RoomInv(r)'
  <2>1. ~Busy(r)
    BY <1>1, <1>6 DEF Orderly
  <2>2. r \notin clears /\ ThreadsOf(r) = {}
    BY <2>1, QuietFacts
  <2>3. ThreadsOf(r)' = {n} /\ threads'[n] = 1
    BY <1>1, <1>4, <2>2, StartsOne
  <2>4. Expects(r, n)'
    BY <1>1, <1>2, <2>2 DEF Expects, Motions, Restores, Brightens, Presses, Contacts, Requests
  <2>5. QED BY <2>3, <2>4, RoomOfOne
<1>7. QED BY <1>3, <1>5, <1>6 DEF RInv

\* Request: the only thread of a room that was quiet.
LEMMA RequestRooms ==
  ASSUME IInv, RInv, NEW r \in Rooms, NEW kind \in Requests, Request(r, kind)
  PROVE  RInv'
<1> DEFINE n == [kind |-> kind, room |-> r, at |-> "started"]
<1>1. /\ threads' = threads (+) Started(kind, {r})
      /\ late' = late \cup {u \in {r} : Busy(u)}
      /\ UNCHANGED <<owned, warned, clears, enabled, scene, bound, reentered, idle, dimmed, lights, litBy, tripped>>
  BY DEF Request, Decide, rooms, timers, scenes
<1>2. SceneLit'
  <2>1. BagToSet(threads) \subseteq BagToSet(threads)'
    BY <1>1, ThreadsGrow
  <2>2. QED BY <1>1, <2>1, SceneLitSame DEF RInv
<1>3. IsABag(threads)
  BY DEF IInv, Types
<1>4. ASSUME NEW q \in Orderly', q # r
      PROVE  RoomInv(q)'
  <2>1. ThreadsOf(q)' = ThreadsOf(q) /\ \A t \in ThreadsOf(q) : threads'[t] = threads[t]
    <3>1. threads' = threads (+) Started(kind, {r}) /\ q # r
      BY <1>1, <1>4
    <3> HIDE DEF n
    <3>2. QED BY <1>3, <3>1, StartsOne, ZenonT(40)
  <2>2. RoomSame(q)
    BY <1>1, <1>4, <2>1 DEF RoomSame, Suppressed
  <2>3. RoomInv(q)
    BY <1>1, <1>4, WasOrderly
  <2>4. QED BY <2>2, <2>3, RoomFrame
<1>5. ASSUME r \in Orderly'
      PROVE  RoomInv(r)'
  <2>1. ~Busy(r)
    BY <1>1, <1>5 DEF Orderly
  <2>2. r \notin clears /\ ThreadsOf(r) = {}
    BY <2>1, QuietFacts
  <2>3. ThreadsOf(r)' = {n} /\ threads'[n] = 1
    BY <1>1, <1>3, <2>2, StartsOne
  <2>4. Expects(r, n)'
    BY <1>1, <2>2 DEF Expects, Motions, Restores, Brightens, Requests
  <2>5. QED BY <2>3, <2>4, RoomOfOne
<1>6. QED BY <1>2, <1>4, <1>5 DEF RInv

\* A quiet room that is queued for a clear, by a setting or by a scene.
LEMMA QuietCleared ==
  ASSUME NEW r, ~Busy(r), threads' = threads, r \in clears', r \notin dimmed', litBy'[r] = "user"
  PROVE  RoomInv(r)'
<1>1. ThreadsOf(r)' = {}
  BY QuietFacts, ThreadsSame
<1>2. Rests(r)'
  BY DEF Rests, AgreesCleared
<1>3. QED BY <1>1, <1>2, RoomOfNone

\* SetEnabled: what was quiet awaits its clear.
LEMMA SetEnabledRooms ==
  ASSUME IInv, RInv, NEW r \in Rooms, SetEnabled(r)
  PROVE  RInv'
<1>1. /\ \A q \in Rooms : q # r => (q \in enabled' <=> q \in enabled)
      /\ clears' = clears \cup {r} /\ dimmed' = dimmed \ {r} /\ litBy' = [litBy EXCEPT ![r] = "user"]
      /\ late' = late \cup {u \in {r} : Busy(u)}
      /\ UNCHANGED <<owned, warned, scene, lights, threads, tripped>>
  BY DEF SetEnabled, Decide, timers, scenes
<1>2. litBy'[r] = "user" /\ \A q \in Rooms : q # r => litBy'[q] = litBy[q]
  BY <1>1 DEF IInv, Types
<1>3. SceneLit'
  BY <1>1, <1>2, ThreadsSame, SceneLitKept DEF RInv, IInv, Types
<1>4. ASSUME NEW q \in Orderly', q # r
      PROVE  RoomInv(q)'
  <2>1. q \in Rooms /\ RoomInv(q)
    BY <1>1, <1>4, WasOrderly
  <2>2. RoomSame(q)
    BY <1>1, <1>2, <1>4, <2>1, ThreadsSame DEF RoomSame, Suppressed
  <2>3. QED BY <2>1, <2>2, RoomFrame
<1>5. ASSUME r \in Orderly'
      PROVE  RoomInv(r)'
  BY <1>1, <1>2, <1>5, QuietCleared DEF Orderly
<1>6. QED BY <1>3, <1>4, <1>5 DEF RInv

\* SetBreaker: no room changes.
LEMMA SetBreakerRooms ==
  ASSUME RInv, SetBreaker
  PROVE  RInv'
<1>1. UNCHANGED <<owned, warned, clears, enabled, scene, dimmed, lights, litBy, threads, late, tripped>>
  BY DEF SetBreaker, rooms, timers, scenes
<1>2. \A q \in Orderly' : RoomSame(q)
  BY <1>1, ThreadsSame DEF RoomSame, Suppressed
<1>3. QED BY <1>1, <1>2, AllSame

\* ApplyScene: rooms that were quiet await their clear.
LEMMA ApplySceneRooms ==
  ASSUME RInv, ApplyScene
  PROVE  RInv'
<1>1. /\ scene' = Rooms /\ dimmed' = {} /\ litBy' = [r \in Rooms |-> "user"] /\ clears' = clears \cup Rooms
      /\ late' = late \cup {u \in Rooms : Busy(u)} /\ threads' = threads
  BY DEF ApplyScene, SceneClears, Decide
<1>2. SceneLit'
  BY <1>1 DEF SceneLit
<1>3. ASSUME NEW r \in Orderly'
      PROVE  RoomInv(r)'
  BY <1>1, <1>3, QuietCleared DEF Orderly
<1>4. QED BY <1>2, <1>3 DEF RInv

\* The timers that were to be cleared are cleared: what a room has agreed
\* with but for them it agrees with now.
LEMMA TakeClearsRooms ==
  ASSUME RInv, TakeClears
  PROVE  RInv'
<1>1. /\ owned' = owned \ clears /\ warned' = warned \ clears /\ clears' = {}
      /\ UNCHANGED <<enabled, scene, dimmed, lights, litBy, threads, late, tripped>>
  BY DEF TakeClears, DropTimers, rooms, scenes
<1>2. SceneLit'
  BY <1>1, SceneLitSame DEF RInv
<1>3. ASSUME NEW r \in Orderly'
      PROVE  RoomInv(r)'
  <2>1. RoomInv(r) /\ ThreadsOf(r)' = ThreadsOf(r)
    BY <1>1, <1>3, WasOrderly, ThreadsSame
  <2>2. CASE r \notin clears
    <3>1. RoomSame(r)
      BY <1>1, <2>2, ThreadsSame DEF RoomSame, Suppressed
    <3>2. QED BY <2>1, <3>1, RoomFrame
  <2>3. CASE r \in clears
    <3>1. \A t : Expects(r, t) => Expects(r, t)'
      BY <1>1, <2>3 DEF Expects, Suppressed, Brightens
    <3>2. Rests(r) => Rests(r)'
      BY <1>1, <2>3 DEF Rests, Agrees, AgreesCleared
    <3>3. QED BY <1>1, <2>1, <3>1, <3>2 DEF RoomInv
  <2>4. QED BY <2>2, <2>3
<1>4. QED BY <1>2, <1>3 DEF RInv

\* The open breaker swallows every timer: no room is orderly.
LEMMA BreakerClearsRooms ==
  ASSUME RInv, BreakerClears
  PROVE  RInv'
<1>1. tripped' = Rooms /\ scene' = scene /\ litBy' = litBy /\ threads' = threads
  BY DEF BreakerClears, rooms, scenes
<1>2. QED BY <1>1, SceneLitSame DEF RInv, Orderly

\* Tick: no room changes.
LEMMA TickRooms ==
  ASSUME RInv, Tick
  PROVE  RInv'
<1>1. UNCHANGED <<owned, warned, clears, enabled, scene, dimmed, lights, litBy, threads, late, tripped>>
  BY DEF Tick, rooms, scenes
<1>2. \A q \in Orderly' : RoomSame(q)
  BY <1>1, ThreadsSame DEF RoomSame, Suppressed
<1>3. QED BY <1>1, <1>2, AllSame

\* Adapt: a room that is lit stays lit.
LEMMA AdaptRooms ==
  ASSUME IInv, RInv, NEW r \in Rooms, Adapt(r)
  PROVE  RInv'
<1>1. /\ lights[r] = "dim" /\ lights' = [lights EXCEPT ![r] = "on"]
      /\ UNCHANGED <<owned, warned, clears, enabled, scene, dimmed, litBy, threads, late, tripped>>
  BY DEF Adapt, timers, scenes
<1>2. \A q \in Rooms : lights'[q] = "off" <=> lights[q] = "off"
  BY <1>1 DEF IInv, Types
<1>3. \A q \in Orderly' : RoomSame(q)
  BY <1>1, <1>2, ThreadsSame DEF RoomSame, Suppressed, Orderly
<1>4. QED BY <1>1, <1>3, AllSame

\* check_motion_timers: a room that loses its timers without a thread has
\* them cleared anyway, or motion does not own it.
LEMMA CheckRooms ==
  ASSUME IInv, RInv, Check
  PROVE  RInv'
<1> DEFINE lost == (Rooms \ Governed) \cup Expired
           R1 == Warns
           R2 == Expired \cap owned
<1>1. /\ owned' = owned \ lost /\ warned' = (warned \ lost) \cup R1
      /\ threads' = threads (+) Started("dim", R1) (+) Started("restore", R2)
      /\ late' = late \cup {u \in R1 \cup R2 : Busy(u)}
      /\ UNCHANGED <<clears, enabled, scene, bound, reentered, idle, dimmed, lights, litBy, tripped>>
  BY DEF Check, Decide, rooms, scenes
<1>2. /\ R1 \subseteq owned /\ R1 \cap lost = {} /\ R1 \cap R2 = {} /\ R2 \subseteq lost
      /\ R1 \subseteq Governed /\ R2 \subseteq Governed /\ R2 \subseteq owned
  BY DEF Warns, Expired
<1>3. IsABag(threads)
  BY DEF IInv, Types
<1>4. \A q \in owned : q \in Rooms /\ (Suppressed(q) => q \in clears)
  BY DEF IInv, Types, TimerInv, NotTracked, TimersAgree
<1>5. warned \subseteq owned
  BY DEF IInv, TimerInv, TimersAgree
<1>6. \A q \in Rooms : q \in lost /\ q \in owned => q \in R2 \/ Suppressed(q)
  BY DEF Governed
<1> DEFINE B1 == threads (+) Started("dim", R1)
           B2 == B1 (+) Started("restore", R2)
<1>7. threads' = B2
  BY <1>1
<1> HIDE DEF R1, R2, lost
<1>8. IsABag(B1)
  <2>1. ASSUME NEW q
        PROVE  LET n == [kind |-> "dim", room |-> q, at |-> "started"]
               IN  /\ IsABag(B1)
                   /\ q \notin R1 => Of(B1, q) = Of(threads, q)
                   /\ q \in R1 => Of(B1, q) = Of(threads, q) \cup {n}
                   /\ \A t \in Of(threads, q) : q \notin R1 \/ t # n => B1[t] = threads[t]
                   /\ q \in R1 /\ n \notin Of(threads, q) => B1[n] = 1
    BY <1>3, StartThreads
  <2>2. QED BY <2>1
<1>9. ASSUME NEW q, q \in R1, Of(threads, q) = {}
      PROVE  LET n == [kind |-> "dim", room |-> q, at |-> "started"]
             IN  Of(B2, q) = {n} /\ B2[n] = 1
  <2> DEFINE n == [kind |-> "dim", room |-> q, at |-> "started"]
  <2>1. Of(B1, q) = {n} /\ B1[n] = 1
    BY <1>3, <1>9, StartThreads
  <2>2. q \notin R2
    BY <1>2, <1>9
  <2> HIDE DEF B1
  <2>3. Of(B2, q) = Of(B1, q) /\ B2[n] = B1[n]
    BY <1>8, <2>1, <2>2, StartOthers, StartCounts
  <2>4. QED BY <2>1, <2>3
<1>10. ASSUME NEW q, q \notin R1
       PROVE  Of(B1, q) = Of(threads, q) /\ \A t \in Of(threads, q) : B1[t] = threads[t]
  BY <1>3, <1>10, StartOthers, StartCounts
<1>11. ASSUME NEW q, q \in R2, Of(threads, q) = {}
       PROVE  LET n == [kind |-> "restore", room |-> q, at |-> "started"]
              IN  Of(B2, q) = {n} /\ B2[n] = 1
  <2>1. Of(B1, q) = {}
    BY <1>2, <1>10, <1>11
  <2> HIDE DEF B1
  <2>2. QED BY <1>8, <1>11, <2>1, StartThreads
<1>12. ASSUME NEW q, q \notin R1, q \notin R2
       PROVE  Of(B2, q) = Of(threads, q) /\ \A t \in Of(threads, q) : B2[t] = threads[t]
  <2>1. Of(B1, q) = Of(threads, q) /\ \A t \in Of(threads, q) : B1[t] = threads[t]
    BY <1>10, <1>12
  <2> HIDE DEF B1
  <2>2. Of(B2, q) = Of(B1, q) /\ \A t \in Of(B1, q) : B2[t] = B1[t]
    BY <1>8, <1>12, StartOthers, StartCounts
  <2>3. QED BY <2>1, <2>2
<1> HIDE DEF B1, B2
<1>13. SceneLit'
  <2>1. BagToSet(threads) \subseteq BagToSet(B1) /\ BagToSet(B1) \subseteq BagToSet(B2)
    BY ThreadsGrow DEF B1, B2
  <2>2. BagToSet(threads) \subseteq BagToSet(threads)'
    BY <1>7, <2>1
  <2>3. QED BY <1>1, <2>2, SceneLitSame DEF RInv
<1>14. ASSUME NEW q \in Orderly'
       PROVE  RoomInv(q)'
  <2>1. q \in Rooms /\ RoomInv(q) /\ q \notin late'
    BY <1>1, <1>14, WasOrderly DEF Orderly
  <2>2. Suppressed(q)' <=> Suppressed(q)
    BY <1>1 DEF Suppressed
  <2>3. q \in R1 \cup R2 => /\ q \notin clears /\ ThreadsOf(q) = {} /\ ~Suppressed(q)
    BY <1>1, <1>2, <2>1, QuietFacts DEF Governed
  <2>4. CASE q \in R1
    <3> DEFINE n == [kind |-> "dim", room |-> q, at |-> "started"]
    <3>1. ThreadsOf(q)' = {n} /\ threads'[n] = 1
      BY <1>7, <1>9, <2>3, <2>4 DEF ThreadsOf
    <3>2. Expects(q, n)'
      BY <1>1, <1>2, <2>2, <2>3, <2>4 DEF Expects, Brightens, Requests
    <3>3. QED BY <3>1, <3>2, RoomOfOne
  <2>5. CASE q \in R2
    <3> DEFINE n == [kind |-> "restore", room |-> q, at |-> "started"]
    <3>1. ThreadsOf(q)' = {n} /\ threads'[n] = 1
      BY <1>7, <1>11, <2>3, <2>5 DEF ThreadsOf
    <3>2. Expects(q, n)'
      BY <1>1, <1>2, <2>2, <2>3, <2>5 DEF Expects, Brightens, Requests
    <3>3. QED BY <3>1, <3>2, RoomOfOne
  <2>6. CASE q \notin R1 /\ q \notin R2
    <3>1. ThreadsOf(q)' = ThreadsOf(q) /\ \A t \in ThreadsOf(q) : threads'[t] = threads[t]
      BY <1>7, <1>12, <2>6 DEF ThreadsOf
    <3>2. CASE q \notin owned \/ q \notin lost
      <4>1. (q \in owned' <=> q \in owned) /\ (q \in warned' <=> q \in warned)
        BY <1>1, <1>5, <2>6, <3>2
      <4>2. RoomSame(q)
        BY <1>1, <2>2, <3>1, <4>1 DEF RoomSame
      <4>3. QED BY <2>1, <4>2, RoomFrame
    <3>3. CASE q \in owned /\ q \in lost
      <4>1. q \in clears /\ q \in clears'
        BY <1>1, <1>4, <1>6, <2>1, <2>6, <3>3
      <4>2. \A t : Expects(q, t) => Expects(q, t)'
        BY <1>1, <2>2, <4>1 DEF Expects, Brightens
      <4>3. Rests(q) => Rests(q)'
        BY <1>1, <4>1 DEF Rests, AgreesCleared
      <4>4. QED BY <2>1, <3>1, <4>2, <4>3 DEF RoomInv
    <3>4. QED BY <3>2, <3>3
  <2>7. QED BY <2>4, <2>5, <2>6
<1>15. QED BY <1>13, <1>14 DEF RInv

-----------------------------------------------------------------------------
(* The threads.                                                             *)

\* The thread t of room r is its only one, or the other is its companion.
LEMMA Companions ==
  ASSUME NEW r, RoomInv(r), NEW t \in ThreadsOf(r), t.kind \notin {"on", "bright"}
  PROVE  ThreadsOf(r) = {t}
BY DEF RoomInv, Pair

\* A thread gets on in a room without changing what the others expect.
LEMMA RoomMoves ==
  ASSUME NEW r, RoomInv(r), NEW t \in ThreadsOf(r), NEW n,
         ThreadsOf(r)' = (ThreadsOf(r) \ {t}) \cup {n}, n.kind = t.kind,
         threads'[n] = 1, \A u \in ThreadsOf(r) : u # t => threads'[u] = threads[u],
         Expects(r, n)', \A u \in ThreadsOf(r) : u # t => Expects(r, u)'
  PROVE  RoomInv(r)'
<1>1. \A u \in ThreadsOf(r)' : threads'[u] = 1 /\ Expects(r, u)'
  BY DEF RoomInv
<1>2. \A u, v \in ThreadsOf(r)' : u = v \/ Pair(u, v) \/ Pair(v, u)
  BY DEF RoomInv, Pair
<1>3. ThreadsOf(r)' # {}
  OBVIOUS
<1>4. QED BY <1>1, <1>2, <1>3 DEF RoomInv

\* A thread ends in a room without changing what the others expect.
LEMMA RoomEnds ==
  ASSUME NEW r, RoomInv(r), NEW t \in ThreadsOf(r),
         ThreadsOf(r)' = ThreadsOf(r) \ {t},
         \A u \in ThreadsOf(r) : u # t => threads'[u] = threads[u] /\ Expects(r, u)',
         ThreadsOf(r) = {t} => Rests(r)'
  PROVE  RoomInv(r)'
<1>1. \A u \in ThreadsOf(r)' : threads'[u] = 1 /\ Expects(r, u)'
  BY DEF RoomInv
<1>2. \A u, v \in ThreadsOf(r)' : u = v \/ Pair(u, v) \/ Pair(v, u)
  BY DEF RoomInv
<1>3. ThreadsOf(r)' = {} => Rests(r)'
  OBVIOUS
<1>4. QED BY <1>1, <1>2, <1>3 DEF RoomInv

\* How the threads of the rooms change when t ends or becomes another.
LEMMA ThreadsEnd ==
  ASSUME Types, NEW t \in BagToSet(threads), threads' = Without(t), NEW q,
         t.room = q => RoomInv(q)
  PROVE  /\ ThreadsOf(q)' = ThreadsOf(q) \ {t}
         /\ \A u \in ThreadsOf(q) : u # t => threads'[u] = threads[u]
<1>1. t.room = q => threads[t] = 1
  BY DEF RoomInv, ThreadsOf, Of
<1>2. IsABag(threads)
  BY DEF Types
<1> DEFINE C == threads (-) SetToBag({t})
<1>3. /\ Of(C, q) = Of(threads, q) \ {t}
      /\ \A u \in Of(C, q) : C[u] = threads[u]
  BY <1>1, <1>2, EndThread
<1>4. threads' = C
  BY DEF Without
<1> HIDE DEF C
<1>5. QED BY <1>3, <1>4 DEF ThreadsOf

\* The thread becomes another of the same room.
LEMMA ThreadsMove ==
  ASSUME Types, NEW t \in BagToSet(threads), NEW n, n # t, n.room = t.room, threads' = MovedOn(t, n),
         NEW q, t.room = q => RoomInv(q) /\ n \notin ThreadsOf(q)
  PROVE  /\ t.room # q => /\ ThreadsOf(q)' = ThreadsOf(q)
                          /\ \A u \in ThreadsOf(q) : threads'[u] = threads[u]
         /\ t.room = q => /\ ThreadsOf(q)' = (ThreadsOf(q) \ {t}) \cup {n}
                          /\ threads'[n] = 1
                          /\ \A u \in ThreadsOf(q) : u # t => threads'[u] = threads[u]
<1>1. IsABag(threads)
  BY DEF Types
<1>2. t.room = q => threads[t] = 1 /\ n \notin BagToSet(threads)
  BY DEF RoomInv, ThreadsOf, Of
<1> DEFINE A == threads (-) SetToBag({t})
           C == A (+) SetToBag({n})
<1>3. /\ t.room # q => Of(C, q) = Of(threads, q)
      /\ t.room = q => Of(C, q) = (Of(threads, q) \ {t}) \cup {n}
      /\ t.room = q => C[n] = 1
      /\ \A u \in Of(C, q) : u # n => C[u] = threads[u]
  <2>1. IsABag(A) /\ Of(A, q) = Of(threads, q) \ {t} /\ \A u \in Of(A, q) : A[u] = threads[u]
    <3>1. t.room = q => threads[t] = 1
      BY <1>2
    <3>2. QED BY ONLY <3>1, <1>1, t \in BagToSet(threads), EndThread
  <2>2. BagToSet(A) \subseteq BagToSet(threads)
    BY <1>1, BagRemove
  <2> HIDE DEF A
  <2>3. BagToSet(C) = BagToSet(A) \cup {n}
    BY BagAdd
  <2>4. \A u \in BagToSet(A) \cup {n} :
          C[u] = (IF u \in BagToSet(A) THEN A[u] ELSE 0) + (IF u = n THEN 1 ELSE 0)
    <3>1. /\ DOMAIN SetToBag({n}) = {n} /\ DOMAIN A = BagToSet(A) /\ SetToBag({n})[n] = 1
      BY DEF SetToBag, BagToSet
    <3>2. QED BY <3>1 DEF (+)
  <2> HIDE DEF C
  <2>5. \A u \in BagToSet(A) : A[u] \in Nat
    BY <2>1 DEF IsABag, BagToSet
  <2>6. t.room # q => Of(C, q) = Of(threads, q)
    BY <2>1, <2>3 DEF Of
  <2>7. t.room = q => Of(C, q) = (Of(threads, q) \ {t}) \cup {n}
    BY <2>1, <2>3 DEF Of
  <2>8. t.room = q => C[n] = 1
    BY <1>2, <2>2, <2>4
  <2>9. \A u \in Of(C, q) : u # n => C[u] = threads[u]
    <3>1. SUFFICES ASSUME NEW u \in Of(C, q), u # n PROVE C[u] = threads[u]
      OBVIOUS
    <3>2. u \in BagToSet(A) /\ u \in Of(A, q)
      BY <2>3, <3>1 DEF Of
    <3>3. QED BY <2>1, <2>4, <2>5, <3>1, <3>2
  <2>10. QED BY <2>6, <2>7, <2>8, <2>9
<1>4. threads' = C
  BY DEF MovedOn, Without
<1> HIDE DEF C
<1>5. t.room # q => n \notin Of(threads, q)
  BY DEF Of
<1>6. t.room = q => n \notin Of(threads, q)
  BY <1>2 DEF Of
<1>7. QED BY <1>3, <1>4, <1>5, <1>6 DEF ThreadsOf

\* Admit: a thread of an orderly room is admitted, but for a contact that
\* finds a home scene.
LEMMA AdmitRooms ==
  ASSUME IInv, RInv, NEW t \in BagToSet(threads), Admit(t)
  PROVE  RInv'
<1> DEFINE r == t.room
           n == [t EXCEPT !.at = "reading"]
<1>1. /\ t.kind \notin Users /\ t.at = "started"
      /\ threads' = (IF Retires(t) THEN Without(t) ELSE MovedOn(t, n))
      /\ tripped' = (IF breaker THEN tripped ELSE tripped \cup {r})
      /\ UNCHANGED <<owned, warned, clears, breaker, enabled, scene, dimmed, lights, litBy, late>>
  BY DEF Admit, timers, rooms, scenes
<1>2. /\ t \in ThreadsOf(r) /\ Types /\ t.kind \in Kinds
      /\ n # t /\ n.room = r /\ n.kind = t.kind /\ n.at = "reading"
  BY <1>1 DEF ThreadsOf, Of, IInv, Types, Thread
<1> HIDE DEF n
<1>3. \A q \in Orderly' : q \in Rooms /\ RoomInv(q)
  BY <1>1, WasOrderly
<1>4. SceneLit'
  <2>1. BagToSet(threads) \ {t} \subseteq BagToSet(threads)'
    <3>1. IsABag(threads)
      BY <1>2 DEF Types
    <3>2. BagToSet(threads) \ {t} \subseteq BagToSet(Without(t))
      BY <3>1, BagRemove DEF Without
    <3>3. BagToSet(MovedOn(t, n)) = BagToSet(Without(t)) \cup {n}
      BY BagAdd DEF MovedOn
    <3>4. QED BY <1>1, <3>2, <3>3
  <2>2. \A q : \A u \in ThreadsOf(q) : u.at = "flagged" => u \in ThreadsOf(q)'
    BY <1>1, <2>1 DEF ThreadsOf, Of
  <2>3. QED BY <1>1, <2>2, SceneLitKept DEF RInv
<1>5. ASSUME NEW q \in Orderly', q # r
      PROVE  RoomInv(q)'
  <2>1. ThreadsOf(q)' = ThreadsOf(q) /\ \A u \in ThreadsOf(q) : threads'[u] = threads[u]
    <3>1. CASE Retires(t)
      <4>1. t \notin ThreadsOf(q)
        BY <1>5 DEF ThreadsOf, Of
      <4>2. QED BY <1>1, <1>2, <1>5, <3>1, <4>1, ThreadsEnd
    <3>2. CASE ~Retires(t)
      BY <1>1, <1>2, <1>5, <3>2, ThreadsMove
    <3>3. QED BY <3>1, <3>2
  <2>2. RoomSame(q)
    BY <1>1, <2>1 DEF RoomSame, Suppressed
  <2>3. QED BY <1>3, <1>5, <2>2, RoomFrame
<1>6. ASSUME r \in Orderly'
      PROVE  RoomInv(r)'
  <2>1. RoomInv(r) /\ breaker /\ Expects(r, t)
    BY <1>1, <1>2, <1>3, <1>6 DEF Orderly, RoomInv
  <2>2. CASE Retires(t)
    <3>1. t.kind \notin Motions
      BY <1>1, <2>1, <2>2 DEF Retires, Expects
    <3>2. t.kind \in Contacts /\ r \in scene
      BY <1>1, <1>2, <2>1, <2>2, <3>1 DEF Retires, Kinds
    <3>3. t.kind \notin {"on", "bright"} /\ t.kind \notin Brightens /\ t.kind \notin Requests
      BY <3>2 DEF Contacts, Brightens, Requests
    <3>4. ThreadsOf(r) = {t}
      BY <1>2, <2>1, <3>3, Companions
    <3>5. ThreadsOf(r)' = {}
      BY <1>1, <1>2, <2>1, <2>2, <3>4, ThreadsEnd
    <3>6. r \notin clears /\ r \notin owned /\ r \notin dimmed /\ litBy[r] # "motion"
      <4>1. ~MoodDue(r)
        BY <1>1, <3>4 DEF MoodDue
      <4>2. QED BY <1>1, <1>2, <2>1, <3>2, <3>3, <4>1 DEF Expects, RInv, SceneLit, IInv, SceneInv
    <3>7. Rests(r)'
      BY <1>1, <3>6 DEF Rests, Agrees
    <3>8. QED BY <3>5, <3>7, RoomOfNone
  <2>3. CASE ~Retires(t)
    <3>1. n \notin ThreadsOf(r)
      BY <1>2, <2>1 DEF RoomInv, Pair
    <3>2. /\ ThreadsOf(r)' = (ThreadsOf(r) \ {t}) \cup {n} /\ threads'[n] = 1
          /\ \A u \in ThreadsOf(r) : u # t => threads'[u] = threads[u]
      BY <1>1, <1>2, <2>1, <2>3, <3>1, ThreadsMove
    <3>3. \A u : Expects(r, u) => Expects(r, u)'
      BY <1>1 DEF Expects, Suppressed
    <3>4. Expects(r, n)'
      BY <1>1, <1>2, <2>1 DEF Expects, Suppressed
    <3>5. \A u \in ThreadsOf(r) : Expects(r, u)'
      BY <2>1, <3>3 DEF RoomInv
    <3>6. QED BY <1>2, <2>1, <3>2, <3>4, <3>5, RoomMoves
  <2>4. QED BY <2>2, <2>3
<1>7. QED BY <1>4, <1>5, <1>6 DEF RInv

\* SetMode: from here on the room's timers are to be cleared.
LEMMA SetModeRooms ==
  ASSUME IInv, RInv, NEW t \in BagToSet(threads), SetMode(t)
  PROVE  RInv'
<1> DEFINE r == t.room
<1>1. PICK mode \in Restores \cup Requests :
        /\ \/ t.kind = "restore" /\ t.at = "reading" /\ mode \in Restores
           \/ t.kind = mode /\ t.at = "started" /\ mode \in Requests
        /\ IF mode \in Moods THEN EnterMood(t) ELSE scene' = scene \ {r} /\ UNCHANGED reentered
        /\ dimmed' = dimmed \ {r} /\ clears' = clears \cup {r}
        /\ threads' = MovedOn(t, [t EXCEPT !.kind = mode, !.at = "flagged"])
        /\ UNCHANGED <<owned, warned, enabled, lights, litBy, late, tripped>>
  BY DEF SetMode, timers
<1>2. PICK n : n = [t EXCEPT !.kind = mode, !.at = "flagged"]
  OBVIOUS
<1>3. /\ t \in ThreadsOf(r) /\ Types /\ r \in Rooms
      /\ n.room = r /\ n.kind = mode /\ n.at = "flagged" /\ n # t
  BY <1>1, <1>2 DEF ThreadsOf, Of, IInv, Types, Thread
<1>4. threads' = MovedOn(t, n)
  BY <1>1, <1>2
<1>5. \A q \in scene' : q # r => q \in scene
  BY <1>1, EnterMoodFacts
<1>6. SceneLit'
  <2>1. (BagToSet(threads) \ {t}) \cup {n} \subseteq BagToSet(threads)'
    <3>1. IsABag(threads)
      BY <1>3 DEF Types
    <3>2. BagToSet(threads) \ {t} \subseteq BagToSet(Without(t))
      BY <3>1, BagRemove DEF Without
    <3>3. BagToSet(MovedOn(t, n)) = BagToSet(Without(t)) \cup {n}
      BY BagAdd DEF MovedOn
    <3>4. QED BY <1>4, <3>2, <3>3
  <2>2. ASSUME NEW q \in scene', q # r
        PROVE  q \in scene /\ \A u \in ThreadsOf(q) : u \in ThreadsOf(q)'
    BY <1>5, <2>1, <2>2 DEF ThreadsOf, Of
  <2>3. r \in scene' => MoodDue(r)'
    <3>1. r \in scene' => mode \in Moods
      BY <1>1
    <3>2. n \in ThreadsOf(r)'
      BY <1>3, <2>1 DEF ThreadsOf, Of
    <3>3. QED BY <1>3, <3>1, <3>2 DEF MoodDue
  <2>4. QED BY <1>1, <2>2, <2>3, SceneLitKept DEF RInv
<1>7. ASSUME NEW q \in Orderly', q # r
      PROVE  RoomInv(q)'
  <2>1. ThreadsOf(q)' = ThreadsOf(q) /\ \A u \in ThreadsOf(q) : threads'[u] = threads[u]
    BY <1>3, <1>4, <1>7, ThreadsMove
  <2>2. RoomSame(q)
    BY <1>1, <1>5, <1>7, <2>1 DEF RoomSame, Suppressed
  <2>3. QED BY <1>1, <1>7, <2>2, WasOrderly, RoomFrame
<1>8. ASSUME r \in Orderly'
      PROVE  RoomInv(r)'
  <2>1. RoomInv(r) /\ Expects(r, t)
    BY <1>1, <1>3, <1>8, WasOrderly DEF RoomInv
  <2>2. t.kind \notin {"on", "bright"}
    BY <1>1 DEF Requests
  <2>3. ThreadsOf(r) = {t}
    BY <1>3, <2>1, <2>2, Companions
  <2>4. ThreadsOf(r)' = {n} /\ threads'[n] = 1
    BY <1>3, <1>4, <2>1, <2>3, ThreadsMove
  <2>5. Expects(r, n)'
    <3>1. t.kind = "restore" => r \notin owned
      BY <2>1 DEF Expects, Kinds, Motions, Brightens, Requests
    <3>2. mode \notin Brightens /\ (t.kind # "restore" => mode \in Requests)
      BY <1>1 DEF Restores, Requests, Brightens
    <3>3. QED BY <1>1, <1>3, <3>1, <3>2 DEF Expects, Brightens
  <2>6. QED BY <2>4, <2>5, RoomOfOne
<1>9. QED BY <1>6, <1>7, <1>8 DEF RInv

\* Send: the lights are now as the timers have them.
LEMMA SendRooms ==
  ASSUME IInv, RInv, NEW t \in BagToSet(threads), Send(t)
  PROVE  RInv'
<1> DEFINE r == t.room
<1>1. /\ Ready(t) /\ threads' = Without(t)
      /\ dimmed' = (IF t.kind = "dim" THEN dimmed \cup {r} ELSE dimmed \ {r})
      /\ scene' = scene \ {r}
      /\ UNCHANGED <<owned, warned, clears, enabled, late, tripped>>
  BY DEF Send, timers
<1>2. /\ t \in ThreadsOf(r) /\ Types /\ r \in Rooms /\ t.kind \in Kinds
  BY DEF ThreadsOf, Of, IInv, Types, Thread
<1>3. /\ lights'[r] = "off" <=> t.kind \in TurnsOff
      /\ \A q \in Rooms : q # r => lights'[q] = lights[q]
  BY <1>2 DEF Send, Types
<1>4. /\ t.kind = "on" => litBy'[r] = "motion"
      /\ t.kind = "restoreOn" => litBy'[r] = "mode"
      /\ t.kind \notin Motions => litBy'[r] = "user"
      /\ \A q \in Rooms : q # r => litBy'[q] = litBy[q]
  BY <1>2 DEF Send, Types, Motions, Restores
<1>5. \A q : q # r => ThreadsOf(q)' = ThreadsOf(q)
  <2>1. SUFFICES ASSUME NEW q, q # r PROVE ThreadsOf(q)' = ThreadsOf(q)
    OBVIOUS
  <2>2. ThreadsOf(q)' = ThreadsOf(q) \ {t}
    BY <1>1, <1>2, <2>1, ThreadsEnd
  <2>3. t \notin ThreadsOf(q)
    BY <2>1 DEF ThreadsOf, Of
  <2>4. QED BY <2>2, <2>3
<1>6. SceneLit'
  <2>1. \A q \in scene' : q \in scene /\ q # r /\ q \in Rooms
    BY <1>1, <1>2 DEF Types
  <2>2. QED BY <1>4, <1>5, <2>1, SceneLitKept DEF RInv
<1>7. ASSUME NEW q \in Orderly', q # r
      PROVE  RoomInv(q)'
  <2>1. q \in Rooms /\ RoomInv(q) /\ t \notin ThreadsOf(q)
    BY <1>1, <1>7, WasOrderly DEF ThreadsOf, Of
  <2>2. ThreadsOf(q)' = ThreadsOf(q) /\ \A u \in ThreadsOf(q) : threads'[u] = threads[u]
    BY <1>1, <1>2, <1>7, <2>1, ThreadsEnd
  <2>3. Suppressed(q)' => Suppressed(q)
    BY <1>1 DEF Suppressed
  <2>4. RoomSame(q)
    BY <1>1, <1>3, <1>4, <1>7, <2>1, <2>2, <2>3 DEF RoomSame
  <2>5. QED BY <2>1, <2>4, RoomFrame
<1>8. ASSUME r \in Orderly'
      PROVE  RoomInv(r)'
  <2>1. RoomInv(r) /\ Expects(r, t)
    BY <1>1, <1>2, <1>8, WasOrderly DEF RoomInv
  <2>2. /\ ThreadsOf(r)' = ThreadsOf(r) \ {t}
        /\ \A u \in ThreadsOf(r) : u # t => threads'[u] = threads[u]
    BY <1>1, <1>2, <2>1, ThreadsEnd
  <2>3. Rests(r)'
    <3>1. CASE t.kind \in Brightens
      <4>1. t.kind \notin TurnsOff
        BY <3>1 DEF Brightens, TurnsOff
      <4>2. r \in owned /\ r \notin clears /\ (t.kind = "dim" => r \in warned)
        BY <2>1, <3>1 DEF Expects
      <4>3. QED BY <1>1, <1>3, <4>1, <4>2 DEF Rests, Agrees
    <3>2. CASE t.kind \notin Brightens
      <4>1. litBy'[r] = "motion" => lights'[r] = "off"
        <5>1. t.kind # "restoreMood"
          BY <1>1 DEF Ready, Contacts, Moods
        <5>2. QED BY <1>3, <1>4, <3>2, <5>1 DEF Brightens, Motions, Restores, TurnsOff
      <4>2. r \notin dimmed'
        BY <1>1, <3>2 DEF Brightens
      <4>3. t.kind \in Requests => t.at = "flagged"
        BY <1>1 DEF Ready, Requests, Contacts
      <4>4. r \in clears \/ r \notin owned
        BY <1>2, <2>1, <3>2, <4>3 DEF Expects
      <4>5. QED BY <1>1, <4>1, <4>2, <4>4 DEF Rests, Agrees, AgreesCleared
    <3>3. QED BY <3>1, <3>2
  <2>4. ASSUME NEW u \in ThreadsOf(r), u # t
        PROVE  Expects(r, u)'
    <3>1. u.kind \in {"on", "bright"} /\ t.kind \in {"on", "bright"} /\ Expects(r, u)
      BY <1>2, <2>1, <2>4 DEF RoomInv, Pair
    <3>2. lights'[r] # "off"
      BY <1>3, <3>1 DEF TurnsOff
    <3>3. Suppressed(r)' => Suppressed(r)
      BY <1>1 DEF Suppressed
    <3>4. QED BY <1>1, <3>1, <3>2, <3>3 DEF Expects
  <2>5. QED BY <1>2, <2>1, <2>2, <2>3, <2>4, RoomEnds
<1>9. QED BY <1>6, <1>7, <1>8 DEF RInv

\* The only thread of a room ends and nothing happens to the other rooms.
LEMMA LastEnds ==
  ASSUME IInv, RInv, NEW t \in BagToSet(threads), t.kind \notin {"on", "bright"},
         threads' = Without(t), late' = late, tripped' = tripped,
         litBy'[t.room] # "motion", \A q \in scene' : q # t.room => q \in scene,
         \A q \in Rooms : q # t.room =>
           /\ (q \in owned' <=> q \in owned) /\ (q \in warned' <=> q \in warned)
           /\ (q \in dimmed' <=> q \in dimmed) /\ (q \in clears' <=> q \in clears)
           /\ (q \in enabled' <=> q \in enabled) /\ litBy'[q] = litBy[q] /\ lights'[q] = lights[q],
         scene' \subseteq Rooms,
         RoomInv(t.room) /\ Expects(t.room, t) => Rests(t.room)'
  PROVE  RInv'
<1> DEFINE r == t.room
<1>1. t \in ThreadsOf(r) /\ Types
  BY DEF ThreadsOf, Of, IInv
<1>2. ASSUME NEW q, q # r
      PROVE  ThreadsOf(q)' = ThreadsOf(q) /\ \A u \in ThreadsOf(q) : threads'[u] = threads[u]
  <2>1. t \notin ThreadsOf(q)
    BY <1>2 DEF ThreadsOf, Of
  <2>2. /\ ThreadsOf(q)' = ThreadsOf(q) \ {t}
        /\ \A u \in ThreadsOf(q) : u # t => threads'[u] = threads[u]
    BY <1>1, <1>2, ThreadsEnd
  <2>3. QED BY <2>1, <2>2
<1>3. SceneLit'
  BY <1>2, SceneLitKept DEF RInv
<1>4. ASSUME NEW q \in Orderly', q # r
      PROVE  RoomInv(q)'
  <2>1. q \in Rooms /\ RoomInv(q)
    BY <1>4, WasOrderly
  <2>2. Suppressed(q)' => Suppressed(q)
    BY <1>4, <2>1 DEF Suppressed
  <2>3. RoomSame(q)
    BY <1>2, <1>4, <2>1, <2>2 DEF RoomSame
  <2>4. QED BY <2>1, <2>3, RoomFrame
<1>5. ASSUME r \in Orderly'
      PROVE  RoomInv(r)'
  <2>1. RoomInv(r) /\ Expects(r, t)
    BY <1>1, <1>5, WasOrderly DEF RoomInv
  <2>2. ThreadsOf(r) = {t}
    BY <1>1, <2>1, Companions
  <2>3. ThreadsOf(r)' = {}
    BY <1>1, <2>1, <2>2, ThreadsEnd
  <2>4. QED BY <2>1, <2>3, RoomOfNone
<1>6. QED BY <1>3, <1>4, <1>5 DEF RInv

\* SendMood: the mood is nobody's motion, and its clear is under way.
LEMMA SendMoodRooms ==
  ASSUME IInv, RInv, NEW t \in BagToSet(threads), SendMood(t)
  PROVE  RInv'
<1> DEFINE r == t.room
<1>1. /\ t.kind \in Moods /\ t.at = "flagged" /\ EnterMood(t)
      /\ lights' = [lights EXCEPT ![r] = "on"] /\ dimmed' = dimmed \ {r}
      /\ clears' = clears \cup ({r} \cap bound) /\ threads' = Without(t)
      /\ UNCHANGED <<owned, warned, enabled, late, tripped>>
  BY DEF SendMood, timers
<1>2. t \in Thread /\ r \in Rooms
  BY DEF IInv, Types, Thread
<1>3. litBy'[r] # "motion" /\ \A q \in Rooms : q # r => litBy'[q] = litBy[q] /\ lights'[q] = lights[q]
  BY <1>2 DEF SendMood, IInv, Types
<1>4. scene' \subseteq Rooms /\ \A q \in scene' : q # r => q \in scene
  BY <1>1, <1>2, EnterMoodFacts DEF IInv, Types
<1>5. Expects(r, t) => Rests(r)'
  <2>1. Expects(r, t) => r \in clears \/ r \notin owned
    BY <1>1 DEF Expects, Moods, Requests, Brightens, Kinds, Motions, Restores, Users
  <2>2. QED BY <1>1, <1>3, <2>1 DEF Rests, Agrees, AgreesCleared
<1>6. t.kind \notin {"on", "bright"}
  BY <1>1 DEF Moods
<1>7. QED BY <1>1, <1>3, <1>4, <1>5, <1>6, LastEnds

\* Keep: a press without effect, whose timers are gone.
LEMMA KeepRooms ==
  ASSUME IInv, RInv, NEW t \in BagToSet(threads), Keep(t)
  PROVE  RInv'
<1> DEFINE r == t.room
<1>1. /\ t.kind = "pressKeep" /\ GateFree(r) /\ threads' = Without(t)
      /\ UNCHANGED <<owned, warned, clears, enabled, scene, dimmed, lights, late, tripped>>
  BY DEF Keep, timers, scenes
<1>2. t \in Thread /\ r \in Rooms /\ scene \subseteq Rooms
  BY DEF IInv, Types, Thread
<1>3. litBy'[r] = "left" /\ \A q \in Rooms : q # r => litBy'[q] = litBy[q]
  BY <1>2 DEF Keep, IInv, Types
<1>4. Expects(r, t) => Rests(r)'
  <2>1. t.at # "flagged"
    BY <1>1 DEF GateFree
  <2>2. Expects(r, t) => r \notin clears /\ r \notin owned
    BY <1>1, <2>1 DEF Expects, Requests, Brightens, Kinds, Users, Presses
  <2>3. QED BY <1>1, <1>3, <2>2 DEF Rests, Agrees
<1>5. QED BY <1>1, <1>2, <1>3, <1>4, LastEnds

-----------------------------------------------------------------------------

\* Every room is quiet at the start.
LEMMA InitRooms == Init => RInv
<1>1. SUFFICES ASSUME Init PROVE RInv
  OBVIOUS
<1>2. \A r : ThreadsOf(r) = {}
  BY <1>1 DEF Init, ThreadsOf, Of, EmptyBag, SetToBag, BagToSet
<1>3. \A r : r \notin owned /\ r \notin clears /\ r \notin dimmed
  BY <1>1 DEF Init
<1>4. \A r \in Rooms : litBy[r] = "user"
  BY <1>1 DEF Init
<1>5. \A r \in Rooms : RoomInv(r)
  BY <1>2, <1>3, <1>4 DEF RoomInv, Rests, Agrees
<1>6. SceneLit
  BY <1>1 DEF Init, SceneLit
<1>7. QED BY <1>5, <1>6 DEF RInv, Orderly

\* Every step keeps the second invariant.
LEMMA NextRooms == IInv /\ RInv /\ [Next]_vars => RInv'
<1>1. SUFFICES ASSUME IInv, RInv, [Next]_vars PROVE RInv'
  OBVIOUS
<1>2. CASE \E s \in Sensors, r \in Rooms : MotionStarts(s, r) \/ MotionStops(s, r)
  BY <1>1, <1>2, MotionRooms
<1>3. CASE \E r \in Rooms, kind \in Inputs \ Requests : Press(r, kind)
  BY <1>1, <1>3, PressRooms
<1>4. CASE \E r \in Rooms, kind \in Inputs \cap Requests : Request(r, kind)
  BY <1>1, <1>4, RequestRooms
<1>5. CASE \E r \in Rooms : SetEnabled(r) \/ Adapt(r)
  BY <1>1, <1>5, SetEnabledRooms, AdaptRooms
<1>6. CASE SetBreaker \/ ApplyScene
  BY <1>1, <1>6, SetBreakerRooms, ApplySceneRooms
<1>7. CASE TakeClears \/ BreakerClears
  BY <1>1, <1>7, TakeClearsRooms, BreakerClearsRooms
<1>8. CASE Check \/ Tick
  BY <1>1, <1>8, CheckRooms, TickRooms
<1>9. CASE ThreadStep
  BY <1>1, <1>9, AdmitRooms, SetModeRooms, SendRooms, SendMoodRooms, KeepRooms DEF ThreadStep
<1>10. CASE UNCHANGED vars
  <2>1. UNCHANGED <<owned, warned, clears, enabled, scene, dimmed, lights, litBy, threads, late, tripped>>
    BY <1>10 DEF vars, timers, rooms, scenes
  <2>2. \A q \in Orderly' : RoomSame(q)
    BY <2>1, ThreadsSame DEF RoomSame, Suppressed
  <2>3. QED BY <1>1, <2>1, <2>2, AllSame
<1>11. QED BY <1>1, <1>2, <1>3, <1>4, <1>5, <1>6, <1>7, <1>8, <1>9, <1>10 DEF Next

\* In an orderly room nothing is at odds with the timers once the threads are
\* done, however motion, presses, requests, scenes, moods and clears have taken
\* turns: motion leaves no lights on without a timer unless a mode default has
\* since decided that they stay on, and no warning dim without a countdown
\* unless a press without effect has taken the timers away (RoomAgrees).
THEOREM LightsFollowTimers == Spec => []RoomAgrees
<1>1. RInv => RoomAgrees
  <2>1. SUFFICES ASSUME RInv, NEW r \in Orderly, ~Busy(r) PROVE Agrees(r)
    BY DEF RoomAgrees, Agrees
  <2>2. RoomInv(r)
    BY <2>1 DEF RInv
  <2>3. QED BY <2>1, <2>2, QuietFacts
<1>2. Spec => []RInv
  BY Invariant, InitRooms, NextRooms, PTL DEF Spec
<1>3. QED BY <1>1, <1>2, PTL

-----------------------------------------------------------------------------
(***************************************************************************)
(* The number of threads.  A room that motion owns can still cost the      *)
(* event loop two threads, a warning and the switching off, and one once   *)
(* it has been warned; only a detection makes rooms owned, and it waits    *)
(* for the threads to become fewer.                                        *)
(***************************************************************************)

\* Cardinalities of the rooms that may still cost threads.
Budget == Cardinality(owned) + Cardinality(owned \ warned)

CountInv ==
  /\ IsFiniteSet(Copies(threads))
  /\ Unfinished + Budget <= MaxThreads + 1 + 2 * Cardinality(Rooms)

LEMMA BudgetFacts ==
  ASSUME Types
  PROVE  /\ IsFiniteSet(Rooms) /\ IsFiniteSet(owned) /\ IsFiniteSet(warned)
         /\ Cardinality(Rooms) \in Nat /\ MaxThreads \in Nat
         /\ Cardinality(owned) \in Nat /\ Cardinality(owned) <= Cardinality(Rooms)
         /\ Cardinality(owned \ warned) \in Nat /\ Cardinality(owned \ warned) <= Cardinality(Rooms)
         /\ Budget \in Nat /\ Budget <= 2 * Cardinality(Rooms)
<1>1. IsFiniteSet(Rooms) /\ MaxThreads \in Nat
  BY MotionAssumption
<1>2. Cardinality(Rooms) \in Nat
  BY <1>1, FS_CardinalityType
<1>3. owned \in SUBSET Rooms /\ warned \in SUBSET Rooms /\ owned \ warned \in SUBSET Rooms
  BY DEF Types
<1>4. /\ IsFiniteSet(owned) /\ Cardinality(owned) <= Cardinality(Rooms)
      /\ IsFiniteSet(owned \ warned) /\ Cardinality(owned \ warned) <= Cardinality(Rooms)
      /\ IsFiniteSet(warned)
  BY <1>1, <1>3, FS_Subset
<1>5. Cardinality(owned) \in Nat /\ Cardinality(owned \ warned) \in Nat
  BY <1>4, FS_CardinalityType
<1>6. Budget \in Nat /\ Budget <= 2 * Cardinality(Rooms)
  BY <1>2, <1>4, <1>5 DEF Budget
<1>7. QED BY <1>1, <1>2, <1>4, <1>5, <1>6

LEMMA TwiceRooms ==
  ASSUME NEW O, NEW P, O \subseteq Rooms, P \subseteq Rooms
  PROVE  /\ Cardinality(O) + Cardinality(P) \in Nat
         /\ Cardinality(O) + Cardinality(P) <= 2 * Cardinality(Rooms)
<1>1. IsFiniteSet(Rooms) /\ O \in SUBSET Rooms /\ P \in SUBSET Rooms
  BY MotionAssumption
<1>2. /\ IsFiniteSet(O) /\ Cardinality(O) <= Cardinality(Rooms)
      /\ IsFiniteSet(P) /\ Cardinality(P) <= Cardinality(Rooms)
  BY <1>1, FS_Subset
<1>3. Cardinality(O) \in Nat /\ Cardinality(P) \in Nat /\ Cardinality(Rooms) \in Nat
  BY <1>1, <1>2, FS_CardinalityType
<1>4. QED BY <1>2, <1>3

\* Fewer rooms cost less.
LEMMA BudgetShrinks ==
  ASSUME Types, Types', owned' \subseteq owned, owned' \ warned' \subseteq owned \ warned
  PROVE  Budget' <= Budget /\ Budget \in Nat /\ Budget' \in Nat
<1>1. IsFiniteSet(owned) /\ owned' \in SUBSET owned /\ owned \ warned \in SUBSET owned
  BY BudgetFacts
<1>2. IsFiniteSet(owned \ warned)
  BY <1>1, FS_Subset
<1>3. /\ Cardinality(owned') <= Cardinality(owned)
      /\ Cardinality(owned' \ warned') <= Cardinality(owned \ warned)
  <2>1. owned' \ warned' \in SUBSET (owned \ warned)
    OBVIOUS
  <2>2. QED BY <1>1, <1>2, <2>1, FS_Subset
<1>4. /\ Cardinality(owned) \in Nat /\ Cardinality(owned \ warned) \in Nat
      /\ Cardinality(owned') \in Nat /\ Cardinality(owned' \ warned') \in Nat
  <2>1. IsFiniteSet(owned')
    BY <1>1, FS_Subset
  <2>2. IsFiniteSet(owned' \ warned')
    BY <1>2, FS_Subset
  <2>3. QED BY <1>1, <1>2, <2>1, <2>2, FS_CardinalityType
<1>5. QED BY <1>3, <1>4 DEF Budget

\* The copies one by one.
LEMMA CopiesFacts ==
  ASSUME NEW B, NEW c
  PROVE  c \in Copies(B) <=> \E t \in BagToSet(B) : \E i \in 1..B[t] : c = <<t, i>>
BY DEF Copies

\* A set of threads is started: one copy more of each.
LEMMA CopiesAdd ==
  ASSUME NEW B, IsABag(B), IsFiniteSet(Copies(B)), NEW S, IsFiniteSet(S)
  PROVE  /\ IsFiniteSet(Copies(B (+) SetToBag(S)))
         /\ Cardinality(Copies(B (+) SetToBag(S))) <= Cardinality(Copies(B)) + Cardinality(S)
         /\ Cardinality(Copies(B (+) SetToBag(S))) \in Nat
<1> DEFINE had(s) == IF s \in DOMAIN B THEN B[s] ELSE 0
<1>1. PICK C : C = B (+) SetToBag(S)
  OBVIOUS
<1>2. DOMAIN C = DOMAIN B \cup S /\ \A t \in DOMAIN C : C[t] = had(t) + (IF t \in S THEN 1 ELSE 0)
  BY <1>1 DEF (+), SetToBag
<1>3. \A t \in DOMAIN B : B[t] \in Nat
  BY DEF IsABag
<1>4. \A t : had(t) \in Nat
  BY <1>3
<1>5. PICK g : g = [s \in S |-> <<s, had(s) + 1>>]
  OBVIOUS
<1>6. PICK N : N = {g[s] : s \in S}
  OBVIOUS
<1>7. Copies(C) \subseteq Copies(B) \cup N
  <2>1. SUFFICES ASSUME NEW t \in DOMAIN C, NEW i \in 1..C[t]
                 PROVE  <<t, i>> \in Copies(B) \cup N
    BY CopiesFacts DEF BagToSet
  <2>2. CASE i <= had(t)
    <3>1. t \in DOMAIN B /\ i \in 1..B[t]
      <4>1. i >= 1 /\ i \in Int
        BY <1>2, <1>4, <2>1
      <4>2. t \in DOMAIN B
        BY <2>2, <4>1
      <4>3. QED BY <1>3, <2>2, <4>1, <4>2
    <3>2. QED BY <3>1, CopiesFacts DEF BagToSet
  <2>3. CASE ~(i <= had(t))
    <3>1. t \in S /\ i = had(t) + 1
      <4>1. C[t] = had(t) + (IF t \in S THEN 1 ELSE 0) /\ had(t) \in Nat
        BY <1>2, <1>4
      <4> HIDE DEF had
      <4>2. QED BY <2>1, <2>3, <4>1
    <3> HIDE DEF had
    <3>2. QED BY <1>5, <1>6, <3>1
  <2>4. QED BY <2>2, <2>3
<1>8. IsFiniteSet(N) /\ Cardinality(N) <= Cardinality(S)
  <2>1. g \in Surjection(S, N)
    BY <1>5, <1>6 DEF Surjection
  <2>2. QED BY <2>1, FS_Surjection
<1>9. /\ IsFiniteSet(Copies(B) \cup N)
      /\ Cardinality(Copies(B) \cup N) = Cardinality(Copies(B)) + Cardinality(N) - Cardinality(Copies(B) \cap N)
  BY <1>8, FS_Union
<1>10. /\ IsFiniteSet(Copies(C)) /\ Cardinality(Copies(C)) <= Cardinality(Copies(B) \cup N)
  <2>1. Copies(C) \in SUBSET (Copies(B) \cup N)
    BY <1>7
  <2>2. QED BY <1>9, <2>1, FS_Subset
<1>11. /\ Cardinality(Copies(C)) \in Nat /\ Cardinality(Copies(B)) \in Nat /\ Cardinality(N) \in Nat
       /\ Cardinality(S) \in Nat /\ Cardinality(Copies(B) \cap N) \in Nat
  <2>1. IsFiniteSet(Copies(B) \cap N)
    BY <1>8, FS_Intersection
  <2>2. QED BY <1>8, <1>10, <2>1, FS_CardinalityType
<1>12. Cardinality(Copies(C)) <= Cardinality(Copies(B)) + Cardinality(S)
  BY <1>8, <1>9, <1>10, <1>11
<1>13. QED BY <1>1, <1>10, <1>11, <1>12

\* One thread ends.
LEMMA CopiesRemove ==
  ASSUME NEW B, IsABag(B), IsFiniteSet(Copies(B)), NEW x \in BagToSet(B)
  PROVE  /\ IsFiniteSet(Copies(B (-) SetToBag({x})))
         /\ Cardinality(Copies(B (-) SetToBag({x}))) + 1 <= Cardinality(Copies(B))
         /\ Cardinality(Copies(B (-) SetToBag({x}))) \in Nat /\ Cardinality(Copies(B)) \in Nat
<1>1. PICK C : C = B (-) SetToBag({x})
  OBVIOUS
<1>2. \A t \in DOMAIN B : B[t] \in Nat /\ B[t] > 0
  BY DEF IsABag
<1>3. /\ DOMAIN C \subseteq DOMAIN B
      /\ \A t \in DOMAIN C : C[t] = IF t = x THEN B[t] - 1 ELSE B[t]
  BY <1>1 DEF (-), SetToBag
<1>4. PICK z : z = <<x, B[x]>>
  OBVIOUS
<1>5. z \in Copies(B)
  <2>1. x \in DOMAIN B /\ B[x] \in 1..B[x]
    BY <1>2 DEF BagToSet
  <2>2. QED BY <1>4, <2>1, CopiesFacts DEF BagToSet
<1>6. Copies(C) \subseteq Copies(B) \ {z}
  <2>1. SUFFICES ASSUME NEW t \in DOMAIN C, NEW i \in 1..C[t]
                 PROVE  <<t, i>> \in Copies(B) /\ <<t, i>> # z
    BY CopiesFacts DEF BagToSet
  <2>2. t \in DOMAIN B /\ B[t] \in Nat /\ C[t] = IF t = x THEN B[t] - 1 ELSE B[t]
    BY <1>2, <1>3
  <2>3. i \in 1..B[t] /\ (t = x => i # B[t])
    BY <2>1, <2>2
  <2>4. <<t, i>> \in Copies(B)
    BY <2>2, <2>3, CopiesFacts DEF BagToSet
  <2>5. QED BY <1>4, <2>3, <2>4
<1>7. IsFiniteSet(Copies(B) \ {z}) /\ Cardinality(Copies(B) \ {z}) = Cardinality(Copies(B)) - 1
  BY <1>5, FS_RemoveElement
<1>8. IsFiniteSet(Copies(C)) /\ Cardinality(Copies(C)) <= Cardinality(Copies(B) \ {z})
  <2>1. Copies(C) \in SUBSET (Copies(B) \ {z})
    BY <1>6
  <2>2. QED BY <1>7, <2>1, FS_Subset
<1>9. Cardinality(Copies(C)) \in Nat /\ Cardinality(Copies(B)) \in Nat
  BY <1>8, FS_CardinalityType
<1>10. QED BY <1>1, <1>7, <1>8, <1>9

\* What is left when a part of a finite set is taken away.
LEMMA Difference ==
  ASSUME NEW S, NEW T, IsFiniteSet(S), T \subseteq S
  PROVE  /\ IsFiniteSet(S \ T) /\ Cardinality(S \ T) = Cardinality(S) - Cardinality(T)
<1>1. S \ T \in SUBSET S /\ T \in SUBSET S
  OBVIOUS
<1>2. IsFiniteSet(S \ T) /\ IsFiniteSet(T)
  BY <1>1, FS_Subset
<1>3. S = (S \ T) \cup T /\ (S \ T) \cap T = {}
  OBVIOUS
<1>4. Cardinality(S) = Cardinality(S \ T) + Cardinality(T) - Cardinality({})
  BY <1>2, <1>3, FS_Union
<1>5. Cardinality({}) = 0 /\ Cardinality(S \ T) \in Nat /\ Cardinality(T) \in Nat /\ Cardinality(S) \in Nat
  BY <1>2, FS_EmptySet, FS_CardinalityType
<1>6. QED BY <1>2, <1>4, <1>5

\* One thread of a kind for each of some rooms.
LEMMA StartedCount ==
  ASSUME NEW B, IsABag(B), IsFiniteSet(Copies(B)), NEW kind, NEW R, IsFiniteSet(R)
  PROVE  /\ IsABag(B (+) Started(kind, R)) /\ IsFiniteSet(Copies(B (+) Started(kind, R)))
         /\ Cardinality(Copies(B (+) Started(kind, R))) <= Cardinality(Copies(B)) + Cardinality(R)
         /\ Cardinality(Copies(B (+) Started(kind, R))) \in Nat
         /\ Cardinality(Copies(B)) \in Nat /\ Cardinality(R) \in Nat
<1>1. PICK S : S = {[kind |-> kind, room |-> r, at |-> "started"] : r \in R}
  OBVIOUS
<1>2. B (+) Started(kind, R) = B (+) SetToBag(S)
  BY <1>1 DEF Started
<1>3. IsFiniteSet(S) /\ Cardinality(S) <= Cardinality(R)
  <2>1. PICK f : f = [r \in R |-> [kind |-> kind, room |-> r, at |-> "started"]]
    OBVIOUS
  <2>2. f \in Surjection(R, S)
    BY <1>1, <2>1 DEF Surjection
  <2>3. QED BY <2>2, FS_Surjection
<1>4. Cardinality(S) \in Nat /\ Cardinality(R) \in Nat /\ Cardinality(Copies(B)) \in Nat
  BY <1>3, FS_CardinalityType
<1>5. IsABag(B (+) SetToBag(S))
  BY BagAdd
<1>6. /\ IsFiniteSet(Copies(B (+) SetToBag(S)))
      /\ Cardinality(Copies(B (+) SetToBag(S))) <= Cardinality(Copies(B)) + Cardinality(S)
      /\ Cardinality(Copies(B (+) SetToBag(S))) \in Nat
  BY <1>3, CopiesAdd
<1>7. Cardinality(Copies(B (+) SetToBag(S))) <= Cardinality(Copies(B)) + Cardinality(R)
  BY <1>3, <1>4, <1>6
<1>8. QED BY <1>2, <1>4, <1>5, <1>6, <1>7

\* No more threads, and rooms that cost no more.
LEMMA CountKept ==
  ASSUME Types, Types', CountInv, IsFiniteSet(Copies(threads')), Unfinished' <= Unfinished,
         owned' \subseteq owned, owned' \ warned' \subseteq owned \ warned
  PROVE  CountInv'
<1>1. Budget' <= Budget /\ Budget \in Nat /\ Budget' \in Nat
  BY BudgetShrinks
<1>2. Unfinished \in Nat /\ Unfinished' \in Nat
  BY FS_CardinalityType DEF CountInv, Unfinished
<1>3. MaxThreads \in Nat /\ Cardinality(Rooms) \in Nat
  BY BudgetFacts
<1>4. QED BY <1>1, <1>2, <1>3 DEF CountInv

LEMMA CountSame ==
  ASSUME Types, Types', CountInv, threads' = threads,
         owned' \subseteq owned, owned' \ warned' \subseteq owned \ warned
  PROVE  CountInv'
<1>1. IsFiniteSet(Copies(threads')) /\ Unfinished' = Unfinished /\ Unfinished \in Nat
  BY FS_CardinalityType DEF CountInv, Unfinished
<1>2. QED BY <1>1, CountKept

\* Whatever comes in while there is room, and starts two threads at most.
LEMMA CountAdmitted ==
  ASSUME Types, Types', CountInv, Capacity, NEW k1, NEW k2, NEW R1, NEW R2,
         IsFiniteSet(R1), IsFiniteSet(R2), Cardinality(R1) <= 1, Cardinality(R2) <= 1,
         threads' = threads (+) Started(k1, R1) (+) Started(k2, R2)
  PROVE  CountInv'
<1>1. PICK B : B = threads (+) Started(k1, R1)
  OBVIOUS
<1>2. /\ IsABag(B) /\ IsFiniteSet(Copies(B)) /\ Cardinality(Copies(B)) \in Nat
      /\ Cardinality(Copies(B)) <= Unfinished + Cardinality(R1)
      /\ Unfinished \in Nat /\ Cardinality(R1) \in Nat
  BY <1>1, StartedCount DEF CountInv, Types, Unfinished
<1>3. /\ IsFiniteSet(Copies(threads')) /\ Unfinished' \in Nat
      /\ Unfinished' <= Cardinality(Copies(B)) + Cardinality(R2)
      /\ Cardinality(R2) \in Nat
  BY <1>1, <1>2, StartedCount DEF Unfinished
<1>4. Unfinished < MaxThreads
  BY DEF Capacity
<1>5. MaxThreads \in Nat /\ Cardinality(Rooms) \in Nat /\ Budget' \in Nat /\ Budget' <= 2 * Cardinality(Rooms)
  <2>1. owned' \subseteq Rooms /\ owned' \ warned' \subseteq Rooms
    BY DEF Types
  <2>2. Budget' \in Nat /\ Budget' <= 2 * Cardinality(Rooms)
    BY <2>1, TwiceRooms DEF Budget
  <2>3. QED BY <2>2, BudgetFacts
<1>6. Unfinished' <= MaxThreads + 1
  BY <1>2, <1>3, <1>4, <1>5
<1>7. QED BY <1>3, <1>5, <1>6 DEF CountInv

LEMMA AtMostOne ==
  ASSUME NEW x, NEW R, R \subseteq {x}
  PROVE  IsFiniteSet(R) /\ Cardinality(R) <= 1
<1>1. IsFiniteSet({x}) /\ Cardinality({x}) = 1 /\ R \in SUBSET {x}
  BY FS_Singleton
<1>2. QED BY <1>1, FS_Subset

LEMMA NothingStarted ==
  ASSUME NEW B, IsABag(B), NEW kind PROVE B (+) Started(kind, {}) = B
<1>1. Started(kind, {}) = SetToBag({})
  BY DEF Started
<1>2. PICK C : C = B (+) SetToBag({})
  OBVIOUS
<1>3. \A t \in DOMAIN B : B[t] \in Nat
  BY DEF IsABag
<1>4. DOMAIN C = DOMAIN B /\ \A t \in DOMAIN B : C[t] = B[t]
  BY <1>2, <1>3 DEF (+), SetToBag
<1>5. B = [t \in DOMAIN B |-> B[t]] /\ C = [t \in DOMAIN C |-> C[t]]
  BY <1>2 DEF IsABag, (+)
<1>6. C = B
  BY <1>4, <1>5
<1>7. QED BY <1>1, <1>2, <1>6

\* An event, a press or a request.
LEMMA CountEvent ==
  ASSUME IInv, IInv', CountInv,
         \/ \E s \in Sensors, r \in Rooms : MotionStarts(s, r) \/ MotionStops(s, r)
         \/ \E r \in Rooms, kind \in Inputs \ Requests : Press(r, kind)
         \/ \E r \in Rooms, kind \in Inputs \cap Requests : Request(r, kind)
  PROVE  CountInv'
<1>1. Types /\ Types' /\ IsABag(threads)
  BY DEF IInv, Types
<1>2. ASSUME UNCHANGED <<owned, warned, threads>> PROVE CountInv'
  BY <1>1, <1>2, CountSame
<1>3. ASSUME NEW s \in Sensors, NEW r \in Rooms, MotionStarts(s, r) PROVE CountInv'
  <2>1. CASE Ignored(r)
    BY <1>2, <1>3, <2>1 DEF MotionStarts, timers, scenes
  <2>2. CASE ~Ignored(r)
    <3>1. PICK seen : Detected(s, r, seen)
      BY <1>3, <2>2 DEF MotionStarts
    <3>2. Capacity
      BY <1>3 DEF MotionStarts
    <3>3. PICK R1, R2 : /\ R1 \subseteq {r} /\ R2 \subseteq {r}
                        /\ threads' = threads (+) Started("bright", R1) (+) Started("on", R2)
      BY <3>1 DEF Detected
    <3>4. IsFiniteSet(R1) /\ Cardinality(R1) <= 1 /\ IsFiniteSet(R2) /\ Cardinality(R2) <= 1
      BY <3>3, AtMostOne
    <3>5. QED BY <1>1, <3>2, <3>3, <3>4, CountAdmitted
  <2>3. QED BY <2>1, <2>2
<1>4. ASSUME NEW s \in Sensors, NEW r \in Rooms, MotionStops(s, r) PROVE CountInv'
  BY <1>2, <1>4 DEF MotionStops, Stopped, timers, scenes
<1>5. ASSUME NEW r \in Rooms, NEW kind, Press(r, kind) \/ Request(r, kind) PROVE CountInv'
  <2>1. Capacity /\ threads' = threads (+) Started(kind, {r})
    BY <1>5 DEF Press, Request
  <2>2. IsFiniteSet({r}) /\ Cardinality({r}) <= 1 /\ IsFiniteSet({}) /\ Cardinality({}) <= 1
    BY AtMostOne
  <2>3. IsABag(threads (+) Started(kind, {r}))
    BY <1>1, <2>2, StartedCount DEF CountInv
  <2>4. threads' = threads (+) Started(kind, {r}) (+) Started(kind, {})
    BY <2>1, <2>3, NothingStarted
  <2>5. QED BY <1>1, <2>1, <2>2, <2>4, CountAdmitted
<1>6. QED BY <1>3, <1>4, <1>5

\* The check starts a thread for every room that it makes cheaper by one.
LEMMA CountCheck ==
  ASSUME IInv, IInv', CountInv, Check
  PROVE  CountInv'
<1>1. Types /\ Types' /\ IsABag(threads) /\ IsFiniteSet(Copies(threads))
  BY DEF IInv, Types, CountInv
<1>2. PICK W, X : W = Warns /\ X = Expired \cap owned
  OBVIOUS
<1>3. W \subseteq owned \ warned /\ X \subseteq owned /\ W \cap X = {}
  BY <1>2 DEF Warns
<1>4. threads' = threads (+) Started("dim", W) (+) Started("restore", X)
  BY <1>2 DEF Check
<1>5. PICK lost : /\ owned' = owned \ lost /\ warned' = (warned \ lost) \cup W
                  /\ X \subseteq lost
  BY <1>2 DEF Check
<1>6. IsFiniteSet(owned)
  BY <1>1, BudgetFacts
<1>7. IsFiniteSet(W) /\ IsFiniteSet(X) /\ IsFiniteSet(owned \ warned) /\ IsFiniteSet(owned') /\ IsFiniteSet(owned' \ warned')
  <2>1. W \in SUBSET owned /\ X \in SUBSET owned /\ owned \ warned \in SUBSET owned
        /\ owned' \in SUBSET owned /\ owned' \ warned' \in SUBSET owned
    BY <1>3, <1>5
  <2>2. QED BY <1>6, <2>1, FS_Subset
<1>8. PICK w \in Nat, x \in Nat : w = Cardinality(W) /\ x = Cardinality(X)
  BY <1>7, FS_CardinalityType
<1>9. Unfinished' <= Unfinished + w + x /\ Unfinished \in Nat /\ Unfinished' \in Nat /\ IsFiniteSet(Copies(threads'))
  <2>1. PICK B : B = threads (+) Started("dim", W)
    OBVIOUS
  <2>2. /\ IsABag(B) /\ IsFiniteSet(Copies(B)) /\ Cardinality(Copies(B)) \in Nat
        /\ Cardinality(Copies(B)) <= Unfinished + w /\ Unfinished \in Nat
    BY <1>1, <1>7, <1>8, <2>1, StartedCount DEF Unfinished
  <2>3. /\ IsFiniteSet(Copies(threads')) /\ Unfinished' \in Nat
        /\ Unfinished' <= Cardinality(Copies(B)) + x
    BY <1>4, <1>7, <1>8, <2>1, <2>2, StartedCount DEF Unfinished
  <2>4. QED BY <2>2, <2>3
<1>10. Cardinality(owned') <= Cardinality(owned) - x
  <2>1. owned' \in SUBSET (owned \ X)
    BY <1>5
  <2>2. IsFiniteSet(owned \ X) /\ Cardinality(owned \ X) = Cardinality(owned) - x
    BY <1>3, <1>6, <1>7, <1>8, Difference
  <2>3. Cardinality(owned') <= Cardinality(owned \ X)
    BY <2>1, <2>2, FS_Subset
  <2>4. QED BY <2>2, <2>3
<1>11. Cardinality(owned' \ warned') <= Cardinality(owned \ warned) - w
  <2>1. owned' \ warned' \in SUBSET ((owned \ warned) \ W)
    BY <1>5
  <2>2. /\ IsFiniteSet((owned \ warned) \ W)
        /\ Cardinality((owned \ warned) \ W) = Cardinality(owned \ warned) - w
    BY <1>3, <1>7, <1>8, Difference
  <2>3. Cardinality(owned' \ warned') <= Cardinality((owned \ warned) \ W)
    BY <2>1, <2>2, FS_Subset
  <2>4. QED BY <2>2, <2>3
<1>12. PICK a \in Nat, b \in Nat, c \in Nat, d \in Nat :
         /\ a = Cardinality(owned) /\ b = Cardinality(owned \ warned)
         /\ c = Cardinality(owned') /\ d = Cardinality(owned' \ warned')
  BY <1>6, <1>7, FS_CardinalityType
<1>13. Budget' <= Budget - x - w /\ Budget \in Int /\ Budget' \in Int
  BY <1>8, <1>10, <1>11, <1>12 DEF Budget
<1>14. MaxThreads \in Nat /\ Cardinality(Rooms) \in Nat
  BY <1>1, BudgetFacts
<1>15. QED BY <1>8, <1>9, <1>13, <1>14 DEF CountInv

\* A thread ends or gets on.
LEMMA CountThread ==
  ASSUME IInv, IInv', CountInv, NEW t \in BagToSet(threads),
         Admit(t) \/ SetMode(t) \/ Send(t) \/ SendMood(t) \/ Keep(t)
  PROVE  CountInv'
<1>1. Types /\ Types' /\ IsABag(threads) /\ IsFiniteSet(Copies(threads))
  BY DEF IInv, Types, CountInv
<1>2. UNCHANGED <<owned, warned>>
  BY DEF Admit, SetMode, Send, SendMood, Keep, timers
<1>3. threads' = Without(t) \/ \E u : threads' = MovedOn(t, u)
  BY DEF Admit, SetMode, Send, SendMood, Keep
<1>4. PICK B : B = Without(t)
  OBVIOUS
<1>5. /\ IsABag(B) /\ IsFiniteSet(Copies(B)) /\ Cardinality(Copies(B)) \in Nat
      /\ Cardinality(Copies(B)) + 1 <= Unfinished /\ Unfinished \in Nat
  BY <1>1, <1>4, BagRemove, CopiesRemove DEF Without, Unfinished
<1>6. IsFiniteSet(Copies(threads')) /\ Unfinished' <= Unfinished
  <2>1. CASE threads' = B
    BY <1>5, <2>1 DEF Unfinished
  <2>2. ASSUME NEW u, threads' = MovedOn(t, u) PROVE IsFiniteSet(Copies(threads')) /\ Unfinished' <= Unfinished
    <3>1. PICK S : S = {u}
      OBVIOUS
    <3>2. threads' = B (+) SetToBag(S)
      BY <1>4, <2>2, <3>1 DEF MovedOn
    <3>3. IsFiniteSet(S) /\ Cardinality(S) = 1
      BY <3>1, FS_Singleton
    <3>4. /\ IsFiniteSet(Copies(threads')) /\ Unfinished' \in Nat
          /\ Unfinished' <= Cardinality(Copies(B)) + 1
      BY <1>5, <3>2, <3>3, CopiesAdd DEF Unfinished
    <3>5. QED BY <1>5, <3>4
  <2>3. QED BY <1>3, <1>4, <2>1, <2>2
<1>7. QED BY <1>1, <1>2, <1>6, CountKept

\* The steps that start nothing.
LEMMA CountOther ==
  ASSUME IInv, IInv', CountInv,
         \/ \E r \in Rooms : SetEnabled(r) \/ Adapt(r)
         \/ SetBreaker \/ ApplyScene \/ TakeClears \/ BreakerClears \/ Tick
  PROVE  CountInv'
<1>1. Types /\ Types'
  BY DEF IInv
<1>2. ASSUME UNCHANGED <<owned, warned, threads>> PROVE CountInv'
  BY <1>1, <1>2, CountSame
<1>3. ASSUME NEW r \in Rooms, SetEnabled(r) \/ Adapt(r) PROVE CountInv'
  BY <1>2, <1>3 DEF SetEnabled, Adapt, timers, scenes
<1>4. CASE SetBreaker \/ ApplyScene \/ Tick
  BY <1>2, <1>4 DEF SetBreaker, ApplyScene, Tick, timers, scenes
<1>5. CASE TakeClears \/ BreakerClears
  <2>1. PICK rs : DropTimers(rs) /\ threads' = threads
    BY <1>5 DEF TakeClears, BreakerClears
  <2>2. owned' \subseteq owned /\ owned' \ warned' \subseteq owned \ warned
    BY <2>1 DEF DropTimers
  <2>3. QED BY <1>1, <2>1, <2>2, CountSame
<1>6. QED BY <1>3, <1>4, <1>5

LEMMA CountInit == Init => CountInv
<1>1. SUFFICES ASSUME Init PROVE CountInv
  OBVIOUS
<1>2. owned = {} /\ Types
  <2>1. IInv
    BY <1>1, InitInvariant
  <2>2. QED BY <1>1, <2>1 DEF Init, IInv
<1>3. Copies(threads) = {}
  <2>1. BagToSet(threads) = {}
    BY <1>1 DEF Init, EmptyBag, SetToBag, BagToSet
  <2>2. QED BY <2>1 DEF Copies
<1>4. IsFiniteSet(Copies(threads)) /\ Unfinished = 0
  BY <1>3, FS_EmptySet DEF Unfinished
<1>5. MaxThreads \in Nat /\ Cardinality(Rooms) \in Nat /\ Budget \in Nat /\ Budget <= 2 * Cardinality(Rooms)
  BY <1>2, BudgetFacts
<1>6. QED BY <1>4, <1>5 DEF CountInv

LEMMA CountNext == IInv /\ IInv' /\ CountInv /\ [Next]_vars => CountInv'
<1>1. SUFFICES ASSUME IInv, IInv', CountInv, [Next]_vars PROVE CountInv'
  OBVIOUS
<1>2. CASE \/ \E s \in Sensors, r \in Rooms : MotionStarts(s, r) \/ MotionStops(s, r)
           \/ \E r \in Rooms, kind \in Inputs \ Requests : Press(r, kind)
           \/ \E r \in Rooms, kind \in Inputs \cap Requests : Request(r, kind)
  BY <1>1, <1>2, CountEvent
<1>3. CASE \/ \E r \in Rooms : SetEnabled(r) \/ Adapt(r)
           \/ SetBreaker \/ ApplyScene \/ TakeClears \/ BreakerClears \/ Tick
  BY <1>1, <1>3, CountOther
<1>4. CASE Check
  BY <1>1, <1>4, CountCheck
<1>5. CASE ThreadStep
  BY <1>1, <1>5, CountThread DEF ThreadStep
<1>6. CASE UNCHANGED vars
  <2>1. UNCHANGED <<owned, warned, threads>>
    BY <1>6 DEF vars, timers, scenes
  <2>2. QED BY <1>1, <2>1, CountSame DEF IInv
<1>7. QED BY <1>1, <1>2, <1>3, <1>4, <1>5, <1>6 DEF Next

\* Every variable keeps its type.  However late and however often the check
\* comes, the event loop has no more than two threads a room under way beyond
\* those that events have started, since check_motion_timers starts a thread
\* only for a room that it warns or that it no longer owns.
THEOREM TypeCorrect == Spec => []TypeOK
<1>1. IInv /\ CountInv => TypeOK
  <2>1. SUFFICES ASSUME IInv, CountInv PROVE TypeOK
    OBVIOUS
  <2>2. Types
    BY <2>1 DEF IInv
  <2>3. Unfinished <= MaxThreads + 1 + 2 * Cardinality(Rooms)
    <3>1. Unfinished \in Nat
      BY <2>1, FS_CardinalityType DEF CountInv, Unfinished
    <3>2. Budget \in Nat /\ MaxThreads \in Nat /\ Cardinality(Rooms) \in Nat
      BY <2>2, BudgetFacts
    <3>3. QED BY <2>1, <3>1, <3>2 DEF CountInv
  <2>4. QED BY <2>2, <2>3 DEF Types, TypeOK, Thread
<1>2. QED BY Invariant, CountInit, CountNext, <1>1, PTL DEF Spec
=============================================================================
