----------------------------- MODULE MotionTimers ----------------------------
(***************************************************************************)
(* Lights switched by motion (rhythm-os event_loop.rs, commands.rs): the   *)
(* timers that the event loop keeps of every room, and the threads it      *)
(* starts for what has to be sent.                                         *)
(*                                                                         *)
(* The event loop alone owns the timers and never waits for a light.  A    *)
(* motion thread is admitted under the read side of the arbitration lock   *)
(* that a home scene takes for writing, and holds it until it is done; so  *)
(* is the thread of a door contact.  Button presses and settings do not    *)
(* take that lock; settings, presses, contacts and the restoring of a mode *)
(* default exclude one another by the room's gate.  Settings and restores  *)
(* queue a clear of the room's timers, which the event loop takes on its   *)
(* next round.  A home scene leaves its binding with a room; setting the   *)
(* room to Mood later brings the scene back, without the arbitration lock. *)
(*                                                                         *)
(* The unit of time is the interval of the periodic check.  A room's mode  *)
(* is reduced to whether it is idle (off, standby or mood) and whether a   *)
(* home scene owns it.  What the event loop believes of a room's power is  *)
(* right or unknown.  Rooms share nothing but the arbitration lock.        *)
(***************************************************************************)
EXTENDS Integers, FiniteSets, Bags

CONSTANTS
  Rooms,
  Sensors, TargetsOf,  \* the motion sensors, and sensor -> the rooms it controls
  Inputs,              \* the presses, contact events and requests that occur
  Timeout,             \* room -> its motion timeout; 0: never
  Warning,             \* WARNING_BEFORE_SECS
  MaxGap,              \* bound on the delay of a periodic check
  MaxThreads,          \* bound on unfinished threads when an event comes in
  MaxSwitches          \* bound on changes of breaker, policy and scene

Pairs == {p \in Sensors \X Rooms : p[2] \in TargetsOf[p[1]]}

\* The clock of a stopped source runs no further than one past this.
Horizon == MaxGap + CHOOSE t \in {Timeout[r] : r \in Rooms} : \A r \in Rooms : Timeout[r] <= t

\* What a thread is for.
\* A restore sets the mode's default: standby or hard off, active, or mood.
\* pressKeep: Stop, which does nothing, or a brightness button in a scene.
Restores == {"restoreOff", "restoreOn", "restoreMood"}
Motions == {"on", "dim", "bright", "restore"} \cup Restores
Contacts == {"contactOn", "contactOff"}
Presses == {"pressOn", "pressOff", "pressKeep"}
Requests == {"setOn", "setOff", "setMood"}
Users == Presses \cup Requests
Moods == {"setMood", "restoreMood"}
TurnsOff == {"restore", "restoreOff", "contactOff", "pressOff", "setOff"}

ASSUME MotionAssumption ==
  /\ IsFiniteSet(Rooms)
  /\ TargetsOf \in [Sensors -> SUBSET Rooms] /\ Inputs \subseteq Contacts \cup Users
  /\ Timeout \in [Rooms -> Nat] /\ Warning \in Nat
  /\ \E r \in Rooms : \A q \in Rooms : Timeout[q] <= Timeout[r]
  /\ MaxGap \in Nat \ {0} /\ MaxThreads \in Nat /\ MaxSwitches \in Nat

\* A check is never late by as much as the warning lasts (60 s against 30 s).
ASSUME CadenceAssumption == MaxGap <= Warning

VARIABLES
  (* MotionTimerState *)
  source,      \* pair -> Untracked, Active, or the time since the motion stopped
  owned,       \* motion_owned
  requested,   \* motion_turn_on_requested
  warned,      \* warning_active
  sinceCheck,  \* last_motion_check
  (* shared state *)
  clears,      \* pending_motion_clear
  breaker,     \* light_breaker_enabled
  enabled,     \* rooms with motion activation enabled
  scene,       \* rooms that a home scene owns
  bound,       \* rooms with mood_scene_id and mood_scene_palette_span
  idle,        \* rooms that are hard off, soft off or in a mood
  dimmed,      \* Room.warning_active: the periodic tick leaves these alone
  lights,      \* room -> "off", "dim" or "on"
  threads,     \* the bag of threads under way
  (* observation only *)
  moving,      \* pairs whose last event was motion
  litBy,       \* room -> who has decided last that its lights be on
  reentered,   \* rooms set to Mood under a motion thread already admitted
  late,        \* rooms decided about before an older decision was carried out
  tripped,     \* rooms whose timers or events the open breaker has swallowed
  switches

timers == <<source, owned, requested, warned>>
rooms == <<idle, dimmed, lights, litBy>>
scenes == <<scene, bound, reentered>>
vars == <<timers, sinceCheck, clears, breaker, enabled, scenes, rooms, threads,
          moving, late, tripped, switches>>

Untracked == -2
Active == -1

Init ==
  /\ source = [p \in Pairs |-> Untracked]
  /\ owned = {} /\ requested = {} /\ warned = {} /\ sinceCheck = 0
  /\ clears = {} /\ breaker = TRUE /\ enabled = Rooms
  /\ scene = {} /\ bound = {} /\ reentered = {}
  /\ idle = Rooms /\ dimmed = {} /\ lights = [r \in Rooms |-> "off"]
  /\ threads = EmptyBag /\ moving = {} /\ litBy = [r \in Rooms |-> "user"]
  /\ late = {} /\ tripped = {} /\ switches = 0

-----------------------------------------------------------------------------
(* Helpers.                                                                 *)

\* One thread for each of the rooms rs.
Started(kind, rs) == SetToBag({[kind |-> kind, room |-> r, at |-> "started"] : r \in rs})

\* The threads once t has ended, and once it has become u.
Without(t) == threads (-) SetToBag({t})
MovedOn(t, u) == Without(t) (+) SetToBag({u})

SourcesOf(r) == {p \in Pairs : p[2] = r /\ source[p] # Untracked}

\* has_active_sources_for_target
HasActive(r) == \E p \in SourcesOf(r) : source[p] = Active

\* The timers without those of the rooms rs.
Dropped(rs) == [p \in Pairs |-> IF p[2] \in rs THEN Untracked ELSE source[p]]

DropTimers(rs) ==
  /\ source' = Dropped(rs)
  /\ owned' = owned \ rs /\ requested' = requested \ rs /\ warned' = warned \ rs

\* motion_suppression_reason_for_target
Suppressed(r) == r \notin enabled \/ r \in scene

Busy(r) == r \in clears \/ \E t \in BagToSet(threads) : t.room = r

\* A decision about the rooms rs, which may come before an older one is done.
Decide(rs) == late' = late \cup {r \in rs : Busy(r)}

\* How many threads are under way: the copies of each in the bag.
Copies(bag) == UNION {{t} \X (1..bag[t]) : t \in BagToSet(bag)}
Unfinished == Cardinality(Copies(threads))

Capacity == Unfinished < MaxThreads

-----------------------------------------------------------------------------
(* handle_hub_event: motion.                                                *)

\* What the loop may believe of the lights.
Observed(r) == {"unknown", IF lights[r] = "off" THEN "off" ELSE "on"}

\* should_turn_on of a room that motion owns from now on.
TurnsOn(r, seen) == r \notin owned \/ seen = "off" \/ (seen = "unknown" /\ r \notin requested)

\* target_was_already_on
AlreadyOn(r, seen) == r \notin owned /\ seen = "on" /\ r \notin idle

Detected(s, r, seen) ==
  LET owns == ~HasActive(r) /\ ~AlreadyOn(r, seen)
      on == owns /\ TurnsOn(r, seen)
  IN  /\ source' = [source EXCEPT ![<<s, r>>] = Active]
      /\ warned' = warned \ {r}
      /\ owned' = IF owns THEN owned \cup {r} ELSE owned
      /\ requested' = IF on THEN requested \cup {r} ELSE requested
      /\ threads' = threads (+) Started("bright", warned \cap {r})
                         (+) Started("on", IF on THEN {r} ELSE {})
      /\ Decide({r})

\* A source that is not tracked has nothing to stop.
Stopped(s, r) ==
  /\ source' = [source EXCEPT ![<<s, r>>] = IF @ = Untracked THEN Untracked ELSE 0]
  /\ UNCHANGED <<owned, requested, warned, threads, late>>

Ignored(r) == ~breaker \/ Suppressed(r)

\* One target of a motion event: the sensor detects motion ...
MotionStarts(s, r) ==
  /\ Capacity /\ <<s, r>> \in Pairs
  /\ moving' = moving \cup {<<s, r>>}
  /\ IF Ignored(r) THEN UNCHANGED <<timers, threads, late>>
     ELSE \E seen \in Observed(r) : Detected(s, r, seen)
  /\ tripped' = IF breaker THEN tripped ELSE tripped \cup {r}
  /\ UNCHANGED <<sinceCheck, clears, breaker, enabled, scenes, rooms, switches>>

\* ... or none any more.
MotionStops(s, r) ==
  /\ Capacity /\ <<s, r>> \in Pairs
  /\ moving' = moving \ {<<s, r>>}
  /\ IF Ignored(r) THEN UNCHANGED <<timers, threads, late>> ELSE Stopped(s, r)
  /\ tripped' = IF breaker THEN tripped ELSE tripped \cup {r}
  /\ UNCHANGED <<sinceCheck, clears, breaker, enabled, scenes, rooms, switches>>

-----------------------------------------------------------------------------
(* handle_hub_event: a button or a contact; and requests of the app.        *)

\* Mutant: a press only disowns the room.
PressKeepsTimers(r) ==
  owned' = owned \ {r} /\ UNCHANGED <<source, requested, warned>>

\* Mutant: a press leaves the room to motion.
PressIgnored(r) == UNCHANGED timers

\* The timers after a press.
PressDrops(r) == DropTimers({r})

\* The open breaker ignores it.  On an otherwise quiet room it puts an end to
\* what went before.
Press(r, kind) ==
  /\ Capacity /\ breaker
  /\ PressDrops(r)
  /\ threads' = threads (+) Started(kind, {r})
  /\ late' = IF Busy(r) THEN late \cup {r} ELSE late \ {r}
  /\ tripped' = IF Busy(r) THEN tripped ELSE tripped \ {r}
  /\ UNCHANGED <<sinceCheck, clears, breaker, enabled, scenes, rooms, moving, switches>>

\* do_node_preferences_set with an explicit state.
Request(r, kind) ==
  /\ Capacity
  /\ threads' = threads (+) Started(kind, {r})
  /\ Decide({r})
  /\ UNCHANGED <<timers, sinceCheck, clears, breaker, enabled, scenes, rooms, moving, tripped,
                 switches>>

Switch == switches < MaxSwitches /\ switches' = switches + 1

\* ... with another motion activation: the room's fate is the user's.
SetEnabled(r) ==
  /\ Switch
  /\ enabled' = IF r \in enabled THEN enabled \ {r} ELSE enabled \cup {r}
  /\ clears' = clears \cup {r}
  /\ dimmed' = dimmed \ {r}
  /\ litBy' = [litBy EXCEPT ![r] = "user"]
  /\ Decide({r})
  /\ UNCHANGED <<timers, sinceCheck, breaker, scenes, idle, lights, threads, moving, tripped>>

\* do_light_breaker_set
SetBreaker ==
  /\ Switch
  /\ breaker' = ~breaker
  /\ UNCHANGED <<timers, sinceCheck, clears, enabled, scenes, rooms, threads, moving, late, tripped>>

Reading == {t \in BagToSet(threads) : t.kind \notin Users /\ t.at \in {"reading", "flagged"}}

\* Mutant: a scene does not wait for the motion threads.
ArbitrationIgnored == TRUE

\* Nobody holds the arbitration lock for reading.
Arbitration == Reading = {}

\* The timers to be cleared when a scene has marked its rooms.
SceneClears == clears \cup Rooms

\* do_home_scene_apply: every light is set, every room is marked.
ApplyScene ==
  /\ Switch
  /\ Arbitration
  /\ scene' = Rooms /\ bound' = Rooms /\ reentered' = {}
  /\ idle' = Rooms /\ dimmed' = {}
  /\ lights' = [r \in Rooms |-> "on"] /\ litBy' = [r \in Rooms |-> "user"]
  /\ clears' = SceneClears
  /\ Decide(Rooms)
  /\ UNCHANGED <<timers, sinceCheck, breaker, enabled, threads, moving, tripped>>

-----------------------------------------------------------------------------
(* run_event_loop: clears, the open breaker, the periodic check.            *)

TakeClears ==
  /\ clears # {} /\ clears' = {}
  /\ DropTimers(clears)
  /\ UNCHANGED <<sinceCheck, breaker, enabled, scenes, rooms, threads, moving, late, tripped, switches>>

\* ... and leaves the periodic check nothing to do.
BreakerClears ==
  /\ ~breaker
  /\ source # Dropped(Rooms) \/ sinceCheck > 0
  /\ DropTimers(Rooms)
  /\ sinceCheck' = 0 /\ tripped' = Rooms
  /\ UNCHANGED <<clears, breaker, enabled, scenes, rooms, threads, moving, late, switches>>

\* Mutant: only the rooms that motion owns are counted down.
CountingOwned(r) == r \in owned /\ SourcesOf(r) # {} /\ ~HasActive(r) /\ Timeout[r] > 0

\* A countdown runs: every source has stopped.
Counting(r) == SourcesOf(r) # {} /\ ~HasActive(r) /\ Timeout[r] > 0

\* The time since the last source stopped.
Elapsed(r) == CHOOSE t \in {source[p] : p \in SourcesOf(r)} : \A p \in SourcesOf(r) : t <= source[p]

\* The rooms that motion governs.
Governed == {r \in Rooms : ~Suppressed(r)}

Expired == {r \in Governed : Counting(r) /\ Elapsed(r) > Timeout[r]}

\* Mutant: the warning is due at one moment only.
DueOnce(r) == Timeout[r] - Elapsed(r) = Warning

\* The warning is due.
Due(r) == Timeout[r] - Elapsed(r) <= Warning

\* Mutant: the warning is repeated.
WarnsAgain == {r \in Governed \ Expired : Counting(r) /\ Due(r) /\ Timeout[r] > Warning /\ r \in owned}

\* The rooms to be warned now.
Warns == {r \in Governed \ Expired :
            Counting(r) /\ Due(r) /\ Timeout[r] > Warning /\ r \in owned \ warned}

\* check_motion_timers: rooms that motion does not govern lose their timers.
\* An expired room is restored to its mode's default.
Check ==
  LET lost == (Rooms \ Governed) \cup Expired
  IN  /\ breaker /\ sinceCheck > 0 /\ sinceCheck' = 0
      /\ source' = Dropped(lost)
      /\ owned' = owned \ lost /\ requested' = requested \ lost
      /\ warned' = (warned \ lost) \cup Warns
      /\ threads' = threads (+) Started("dim", Warns) (+) Started("restore", Expired \cap owned)
      /\ Decide(Warns \cup (Expired \cap owned))
      /\ UNCHANGED <<clears, breaker, enabled, scenes, rooms, moving, tripped, switches>>

\* Time passes; a check is not put off for ever.
Tick ==
  /\ sinceCheck < MaxGap /\ sinceCheck' = sinceCheck + 1
  /\ source' = [p \in Pairs |-> IF source[p] \in 0..Horizon THEN source[p] + 1 ELSE source[p]]
  /\ UNCHANGED <<owned, requested, warned, clears, breaker, enabled, scenes, rooms, threads, moving,
                 late, tripped, switches>>

-----------------------------------------------------------------------------
(* The threads.                                                             *)

GateFree(r) == ~\E t \in BagToSet(threads) : t.room = r /\ t.at = "flagged"

\* The room has changed hands since the thread was started.
Retires(t) == IF t.kind \in Motions THEN Suppressed(t.room) ELSE ~breaker \/ t.room \in scene

\* run_motion_action_if_allowed, run_button_ingress_action of a contact:
\* admitted or retired.
Admit(t) ==
  /\ t.kind \notin Users /\ t.at = "started"
  /\ threads' = IF Retires(t) THEN Without(t) ELSE MovedOn(t, [t EXCEPT !.at = "reading"])
  /\ tripped' = IF breaker THEN tripped ELSE tripped \cup {t.room}
  /\ UNCHANGED <<timers, sinceCheck, clears, breaker, enabled, scenes, rooms, moving, late, switches>>

\* Mood brings back the home scene that the room is bound to.  Another motion
\* or contact thread of the room may hold the arbitration lock meanwhile.
EnterMood(t) ==
  LET r == t.room
      held == \E u \in BagToSet(Without(t)) :
                u.room = r /\ u.kind \notin Users /\ u.at \in {"reading", "flagged"}
  IN  /\ scene' = scene \cup ({r} \cap bound)
      /\ reentered' = IF held THEN reentered \cup {r} ELSE reentered \ {r}

\* An explicit mode is set and the room's timers are to be cleared, before
\* anything is sent: the one requested, or any that the default may be.
SetMode(t) ==
  \E mode \in Restores \cup Requests :
  LET r == t.room
  IN  /\ \/ t.kind = "restore" /\ t.at = "reading" /\ mode \in Restores
         \/ t.kind = mode /\ t.at = "started" /\ mode \in Requests
      /\ GateFree(r)
      /\ idle' = IF mode \in {"setOn", "restoreOn"} THEN idle \ {r} ELSE idle \cup {r}
      /\ IF mode \in Moods THEN EnterMood(t) ELSE scene' = scene \ {r} /\ UNCHANGED reentered
      /\ dimmed' = dimmed \ {r}
      /\ clears' = clears \cup {r}
      /\ threads' = MovedOn(t, [t EXCEPT !.kind = mode, !.at = "flagged"])
      /\ UNCHANGED <<timers, sinceCheck, breaker, enabled, bound, lights, litBy, moving, late,
                     tripped, switches>>

\* The thread may send: a press, a contact and the OffPress of a restore that
\* has no default have found the gate free, an explicit mode has been set.
Ready(t) ==
  \/ t.kind \in {"on", "dim", "bright"} /\ t.at = "reading"
  \/ t.kind \in {"pressOn", "pressOff"} /\ t.at = "started" /\ GateFree(t.room)
  \/ t.kind \in Contacts \cup {"restore"} /\ t.at = "reading" /\ GateFree(t.room)
  \/ t.kind \notin Moods /\ t.at = "flagged"

\* The room's lights are planned and sent under its dispatch lock.  No plan
\* but that of a mood leaves the room in one.
Send(t) ==
  LET r == t.room
  IN  /\ Ready(t)
      /\ lights' = [lights EXCEPT ![r] = IF t.kind \in TurnsOff THEN "off"
                                         ELSE IF t.kind = "dim" THEN "dim" ELSE "on"]
      /\ idle' = IF t.kind \in TurnsOff THEN idle \cup {r} ELSE idle \ {r}
      /\ dimmed' = IF t.kind = "dim" THEN dimmed \cup {r} ELSE dimmed \ {r}
      /\ scene' = scene \ {r}
      /\ litBy' = [litBy EXCEPT ![r] = IF t.kind = "on" THEN "motion"
                                       ELSE IF t.kind = "restoreOn" THEN "mode"
                                       ELSE IF t.kind \in Motions THEN @ ELSE "user"]
      /\ threads' = Without(t)
      /\ UNCHANGED <<timers, sinceCheck, clears, breaker, enabled, bound, reentered, moving, late,
                     tripped, switches>>

\* apply_mood_scene_or_tick: a bound scene is sent and marked again, with
\* another clear of the timers; without one the mood's light is sent.
SendMood(t) ==
  LET r == t.room
  IN  /\ t.kind \in Moods /\ t.at = "flagged"
      /\ lights' = [lights EXCEPT ![r] = "on"]
      /\ idle' = idle \cup {r} /\ dimmed' = dimmed \ {r}
      /\ EnterMood(t)
      /\ clears' = clears \cup ({r} \cap bound)
      /\ litBy' = [litBy EXCEPT ![r] = IF t.kind = "setMood" THEN "user" ELSE "mode"]
      /\ threads' = Without(t)
      /\ UNCHANGED <<timers, sinceCheck, breaker, enabled, bound, moving, late, tripped, switches>>

\* The room is left as it is, its timers being gone.
Keep(t) ==
  /\ t.kind = "pressKeep" /\ GateFree(t.room)
  /\ litBy' = [litBy EXCEPT ![t.room] = "left"]
  /\ threads' = Without(t)
  /\ UNCHANGED <<timers, sinceCheck, clears, breaker, enabled, scenes, idle, dimmed, lights, moving,
                 late, tripped, switches>>

\* The periodic tick brings an active room back to its curve.
Adapt(r) ==
  /\ breaker /\ r \notin idle \cup dimmed /\ lights[r] = "dim"
  /\ lights' = [lights EXCEPT ![r] = "on"]
  /\ UNCHANGED <<timers, sinceCheck, clears, breaker, enabled, scenes, idle, dimmed, litBy, threads,
                 moving, late, tripped, switches>>

-----------------------------------------------------------------------------

ThreadStep == \E t \in BagToSet(threads) : Admit(t) \/ SetMode(t) \/ Send(t) \/ SendMood(t) \/ Keep(t)

Next ==
  \/ \E s \in Sensors, r \in Rooms : MotionStarts(s, r) \/ MotionStops(s, r)
  \/ \E r \in Rooms, kind \in Inputs \ Requests : Press(r, kind)
  \/ \E r \in Rooms, kind \in Inputs \cap Requests : Request(r, kind)
  \/ \E r \in Rooms : SetEnabled(r) \/ Adapt(r)
  \/ SetBreaker \/ ApplyScene
  \/ TakeClears \/ BreakerClears \/ Check \/ Tick
  \/ ThreadStep

Spec == Init /\ [][Next]_vars

-----------------------------------------------------------------------------
(* Properties.                                                              *)

Kinds == Motions \cup Contacts \cup Users

\* Every variable keeps its type, and the event loop adds no more than two
\* threads a room to those that events have started.
TypeOK ==
  /\ source \in [Pairs -> Untracked..(Horizon + 1)]
  /\ owned \subseteq Rooms /\ requested \subseteq Rooms /\ warned \subseteq Rooms
  /\ sinceCheck \in 0..MaxGap /\ clears \subseteq Rooms /\ breaker \in BOOLEAN
  /\ enabled \subseteq Rooms /\ scene \subseteq bound /\ bound \subseteq Rooms
  /\ reentered \subseteq Rooms /\ idle \subseteq Rooms
  /\ dimmed \subseteq Rooms /\ lights \in [Rooms -> {"off", "dim", "on"}]
  /\ IsABag(threads) /\ Unfinished <= MaxThreads + 1 + 2 * Cardinality(Rooms)
  /\ BagToSet(threads) \subseteq [kind : Kinds, room : Rooms, at : {"started", "reading", "flagged"}]
  /\ moving \subseteq Pairs /\ litBy \in [Rooms -> {"motion", "user", "mode", "left"}]
  /\ late \subseteq Rooms /\ tripped \subseteq Rooms /\ switches \in 0..MaxSwitches

\* A sensor that has seen the motion stop does not hold its room's countdown
\* up, unless its event fell into the open breaker.
NoPhantom ==
  \A p \in Pairs : source[p] = Active /\ p[2] \notin clears \cup tripped => p \in moving

\* The four tables of MotionTimerState agree: only a tracked room is owned,
\* only an owned one requested or warned, and no warned room has motion in
\* it; and with the sensors.  Five different handlers drop entries from them.
TimersAgree ==
  /\ requested \cup warned \subseteq owned
  /\ \A r \in owned : SourcesOf(r) # {}
  /\ \A r \in warned : ~HasActive(r)
  /\ NoPhantom

\* A room that a home scene owns is changed by another scene, a press, a
\* request or the mood that has brought the scene back, and by no other motion
\* or contact thread, however late it is (run_motion_action_if_allowed).  Only
\* where Mood has brought the scene back under a thread already admitted,
\* which it does without the arbitration lock, that thread still acts.
SceneUndisturbed ==
  [][\A r \in scene \ reentered :
       lights'[r] # lights[r] \/ r \notin scene' \/ r \notin idle' \/ r \in dimmed'
         => \/ ApplyScene
            \/ \E t \in BagToSet(threads) :
                 /\ t.room = r /\ t.kind \in Users \cup {"restoreMood"}
                 /\ SetMode(t) \/ Send(t) \/ SendMood(t)]_vars

\* Motion never switches a room off without having warned first, late checks
\* included (WARNING_BEFORE_SECS against MOTION_TIMER_CHECK_INTERVAL).
WarnedFirst ==
  [][\A r \in owned \ owned' :
       (breaker /\ sinceCheck' < sinceCheck /\ r \in Expired /\ Timeout[r] > Warning)
         => r \in warned]_vars

\* The rooms whose decisions were carried out one at a time.
Orderly == Rooms \ (late \cup tripped)

\* In an orderly room nothing is at odds with the timers once the threads
\* are done: lights that motion owns are on; lights that motion has switched
\* on have a timer to switch them off, unless a mode default of active or mood
\* has since left them on; and a warning dim has a countdown.  A press without
\* effect takes the timers away and leaves lights and dim as they are.
RoomAgrees ==
  \A r \in Orderly : ~Busy(r) =>
    /\ r \in owned => lights[r] # "off"
    /\ litBy[r] = "motion" /\ lights[r] # "off" => r \in owned
    /\ r \in dimmed => r \in warned \/ litBy[r] = "left"

\* A room without motion is never forgotten: its countdown is over, whoever
\* owns the room, at most one late check after its timeout, and then its
\* timers are gone.
NeverOverdue ==
  \A r \in Rooms :
    SourcesOf(r) # {} /\ Timeout[r] > 0 => \E p \in SourcesOf(r) : source[p] <= Timeout[r] + MaxGap

\* The warning dim is "a transient 'lights will turn off soon' signal"
\* (plan_periodic_tick): an orderly room that is dimmed is being counted down.
DimMeansOffSoon ==
  \A r \in Rooms \ late : ~Busy(r) /\ breaker /\ r \in dimmed => r \in warned
=============================================================================
