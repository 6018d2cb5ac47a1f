--------------------------- MODULE CarrierRecovery ---------------------------
(***************************************************************************)
(* The carrier recovery controller the dashboard injects into the running  *)
(* mission (rust-web-dashboard/lua/carrier_recovery.lua): start, restore   *)
(* and the monitor that timer.scheduleFunction calls back.                 *)
(*                                                                         *)
(* DCS runs all mission scripts on one thread, so every call is one step;  *)
(* what interleaves is the ORDER of dashboard or F10 menu commands, timer  *)
(* callbacks, weather and ship movement, the Foothold script taking a hull *)
(* over, and the mission being restarted.                                  *)
(*                                                                         *)
(* Data abstraction.  Time is counted in ticks.  What windData reads off   *)
(* the world is one "picture" per group: whether the lead unit exists, the *)
(* controller's switch in the configuration, the ship's heading, the       *)
(* solver's course and speed, and the clear water ahead on every heading.  *)
(* Routes are reduced to the course and speed they order, or Circuit for   *)
(* the ship's normal circuit.  Player messages are left out.               *)
(***************************************************************************)
EXTENDS Integers, FiniteSets

CONSTANTS
  Groups,        \* carrier group names
  Compass,       \* number of points the compass is divided into
  Speeds,        \* ordered speeds, distance per tick
  Pictures,      \* the world states windData may read
  Circuit,       \* "steaming the normal circuit", not a recovery course
  NoRecovery,    \* M.active[group] is nil
  Tolerance,     \* headingToleranceDeg
  TurnDelay,     \* turnDelaySec
  AlignTimeout,  \* alignmentTimeoutSec
  AlignStable,   \* alignmentStableSec
  Duration,      \* durationSec
  Reserve,       \* safetyReserveSec
  FastPoll,      \* the monitor's "return time + 5"
  SlowPoll,      \* the monitor's "return time + 15"
  QuietTime,     \* the 30 s between two RETURN_FAILED messages
  Delegable,     \* groups the Foothold script may manage
  MaxTime,       \* bound: mission time explored
  MaxStarts      \* bound: stand-alone recoveries started in one mission

Headings == 0 .. Compass - 1
Plans == [heading : Headings, speed : Speeds]
Courses == Plans \cup {Circuit}

ASSUME CompassAssumption == Compass \in Nat \ {0} /\ Tolerance \in Nat
ASSUME SpeedsAssumption == Speeds \subseteq Nat \ {0}
ASSUME DelaysAssumption ==
  /\ TurnDelay \in Nat \ {0} /\ AlignTimeout \in Nat \ {0}
  /\ AlignStable \in Nat \ {0} /\ Duration \in Nat \ {0}
  /\ Reserve \in Nat /\ QuietTime \in Nat
  /\ FastPoll \in Nat \ {0} /\ SlowPoll \in Nat /\ FastPoll <= SlowPoll
ASSUME PicturesAssumption ==
  Pictures \subseteq [afloat : BOOLEAN, enabled : BOOLEAN, heading : Headings,
                      plan : Plans, clear : [Headings -> Nat]]
ASSUME NamesAssumption == Circuit \notin Plans /\ Delegable \subseteq Groups
ASSUME BoundsAssumption == MaxTime \in Nat /\ MaxStarts \in Nat

Never == -1              \* a time field that is still nil
Times == Nat \cup {Never}

Recovery ==
  [generation : Nat, phase : {"pending", "aligning", "active"},
   executeAt : Nat, previous : Courses, commanded : Courses,
   alignmentDeadline : Times, alignmentStableSince : Times,
   activeUntil : Times, lastRestoreFailureAt : Times]

ASSUME NoRecoveryAssumption == NoRecovery \notin Recovery

VARIABLES
  now,         \* timer.getTime()
  sea,         \* sea[g]: the picture windData(g) reads now
  generation,  \* M.generation
  active,      \* M.active
  timers,      \* monitor callbacks known to timer.scheduleFunction
  route,       \* route[g]: last course this module ordered with setRoute
  bc,          \* groups whose recovery Foothold's BattleCommander manages
  foothold     \* foothold[g]: Foothold flies its own recovery of g

vars == <<now, sea, generation, active, timers, route, bc, foothold>>

Timer == [group : Groups, generation : Nat, due : Nat]

TypeOK ==
  /\ now \in Nat
  /\ sea \in [Groups -> Pictures]
  /\ generation \in Nat
  /\ active \in [Groups -> Recovery \cup {NoRecovery}]
  /\ timers \subseteq Timer
  /\ route \in [Groups -> Courses]
  /\ bc \subseteq Delegable
  /\ foothold \in [Groups -> BOOLEAN]

-----------------------------------------------------------------------------
(* What the controller computes from the picture.                          *)

HeadingDiff(a, b) ==
  LET d == (a - b) % Compass IN IF d <= Compass - d THEN d ELSE Compass - d

Recovering(g) == active[g] # NoRecovery

\* straightCourseIsSafe for the distance covered in `ticks` on course c.
IsClear(g, c, ticks) == sea[g].clear[c.heading] >= c.speed * ticks

\* buildRoute returns a route: the whole window and the reserve are clear.
RouteExists(g) == IsClear(g, sea[g].plan, Duration + Reserve)

-----------------------------------------------------------------------------
(* start                                                                   *)

\* Foothold manages the hull: start is its own, which may refuse.
DelegatedStart(g) ==
  /\ g \in bc
  /\ ~foothold[g]
  /\ foothold' = [foothold EXCEPT ![g] = TRUE]
  /\ UNCHANGED <<now, sea, generation, active, timers, route, bc>>

\* Fault: the turn delay is subtracted.
NewRecoveryInThePast(g) ==
  [generation |-> generation + 1, phase |-> "pending",
   executeAt |-> now - TurnDelay, previous |-> route[g],
   commanded |-> Circuit, alignmentDeadline |-> Never,
   alignmentStableSince |-> Never, activeUntil |-> Never,
   lastRestoreFailureAt |-> Never]

NewRecovery(g) ==
  [generation |-> generation + 1, phase |-> "pending",
   executeAt |-> now + TurnDelay, previous |-> route[g],
   commanded |-> Circuit, alignmentDeadline |-> Never,
   alignmentStableSince |-> Never, activeUntil |-> Never,
   lastRestoreFailureAt |-> Never]

\* Fault: the ALREADY_ACTIVE refusal is missing.
MayStartAgain(g) == sea[g].enabled /\ sea[g].afloat /\ RouteExists(g)

MayStart(g) ==
  /\ sea[g].enabled
  /\ ~Recovering(g)
  /\ sea[g].afloat
  /\ RouteExists(g)

Start(g) ==
  /\ g \notin bc
  /\ MayStart(g)
  /\ generation < MaxStarts
  /\ generation' = generation + 1
  /\ active' = [active EXCEPT ![g] = NewRecovery(g)]
  /\ timers' = timers \cup {[group |-> g, generation |-> generation + 1,
                             due |-> now + FastPoll]}
  /\ UNCHANGED <<now, sea, route, bc, foothold>>

-----------------------------------------------------------------------------
(* restore, as its three callers (dashboard, F10 menu, monitor) run it     *)

\* Foothold manages the hull and resumes its own lane; M.active is not read.
FootholdRestores(g) ==
  /\ g \in bc
  /\ foothold[g]
  /\ foothold' = [foothold EXCEPT ![g] = FALSE]
  /\ UNCHANGED <<active, route>>

\* The ship is sent back to its circuit and the recovery is dropped.
Resumes(g) ==
  /\ g \notin bc
  /\ Recovering(g)
  /\ sea[g].afloat
  /\ route' = [route EXCEPT ![g] = active[g].previous]
  /\ active' = [active EXCEPT ![g] = NoRecovery]
  /\ UNCHANGED foothold

RestoreSucceeds(g) == FootholdRestores(g) \/ Resumes(g)

\* RETURN_FAILED: no lead unit, or setTask raised inside the pcall.  The
\* recovery stays; only the time of the last announced failure moves.
CannotResume(g) ==
  /\ g \notin bc
  /\ Recovering(g)
  /\ LET last == active[g].lastRestoreFailureAt IN
       active' = IF last = Never \/ now - last >= QuietTime
                 THEN [active EXCEPT ![g].lastRestoreFailureAt = now]
                 ELSE active
  /\ UNCHANGED <<route, foothold>>

FootholdRefuses(g) == g \in bc /\ UNCHANGED <<active, route, foothold>>

RestoreFails(g) == CannotResume(g) \/ FootholdRefuses(g)

\* The dashboard's Resume button and the F10 menu entry.
Restore(g) ==
  /\ RestoreSucceeds(g) \/ CannotResume(g)
  /\ UNCHANGED <<now, sea, generation, timers, bc>>

-----------------------------------------------------------------------------
(* monitor                                                                 *)

Again(tm, delay) ==
  timers' = (timers \ {tm}) \cup {[tm EXCEPT !.due = now + delay]}
Dies(tm) == timers' = timers \ {tm}

\* "if M.restore(reason, groupName) then return nil end  return time + 15"
GivesUp(tm) ==
  \/ RestoreSucceeds(tm.group) /\ Dies(tm)
  \/ RestoreFails(tm.group) /\ Again(tm, SlowPoll)

Orders(g, r) ==
  /\ active' = [active EXCEPT ![g] = r]
  /\ UNCHANGED foothold

\* Fault: any recovery of the group answers, whatever its generation.
MonitorsAnyRecovery(tm) == Recovering(tm.group)

MonitorsRecovery(tm) ==
  /\ Recovering(tm.group)
  /\ active[tm.group].generation = tm.generation

\* A callback of a recovery that is over, or was replaced.
StaleCallback(tm) ==
  /\ ~MonitorsRecovery(tm)
  /\ Dies(tm)
  /\ UNCHANGED <<active, route, foothold>>

ShipLost(tm) == ~sea[tm.group].afloat /\ GivesUp(tm)

\* Fault: the ship turns one poll before the announced time.
TurnIsNear(g) == now + FastPoll >= active[g].executeAt

TurnIsDue(g) == now >= active[g].executeAt

Turned(g) ==
  [active[g] EXCEPT !.phase = "aligning",
                    !.commanded = sea[g].plan,
                    !.alignmentDeadline = now + AlignTimeout]

Pending(tm) ==
  LET g == tm.group IN
  /\ sea[g].afloat
  /\ active[g].phase = "pending"
  /\ \/ /\ ~TurnIsDue(g)
        /\ Again(tm, FastPoll)
        /\ UNCHANGED <<active, route, foothold>>
     \/ TurnIsDue(g) /\ ~RouteExists(g) /\ GivesUp(tm)
     \/ /\ TurnIsDue(g)
        /\ RouteExists(g)
        /\ route' = [route EXCEPT ![g] = sea[g].plan]
        /\ Orders(g, Turned(g))
        /\ Again(tm, FastPoll)

\* The wind moved while the ship was still turning.
WindMoved(g) ==
  HeadingDiff(sea[g].plan.heading, active[g].commanded.heading) > Tolerance

OnCourse(g, c) == HeadingDiff(sea[g].heading, c.heading) <= Tolerance

StableSince(since) == IF since = Never THEN now ELSE since

\* Fault: a retarget also restarts the alignment timeout.
RetargetedAfresh(g) ==
  [active[g] EXCEPT
     !.commanded = sea[g].plan,
     !.alignmentDeadline = now + AlignTimeout,
     !.alignmentStableSince = IF OnCourse(g, sea[g].plan) THEN now ELSE Never]

Retargeted(g) ==
  [active[g] EXCEPT
     !.commanded = sea[g].plan,
     !.alignmentStableSince = IF OnCourse(g, sea[g].plan) THEN now ELSE Never]

Retarget(tm) ==
  LET g == tm.group IN
  /\ WindMoved(g)
  /\ RouteExists(g)
  /\ route' = [route EXCEPT ![g] = sea[g].plan]
  /\ Orders(g, Retargeted(g))
  /\ Again(tm, FastPoll)

StableFrom(g, time) == [active[g] EXCEPT !.alignmentStableSince = time]

Opened(g) == [active[g] EXCEPT !.phase = "active", !.activeUntil = now + Duration]

HoldOrOpenWindow(tm) ==
  LET g == tm.group  r == active[g]
      since == StableSince(r.alignmentStableSince) IN
  /\ ~WindMoved(g)
  /\ \/ /\ ~OnCourse(g, r.commanded)
        /\ Orders(g, StableFrom(g, Never))
        /\ Again(tm, FastPoll)
        /\ UNCHANGED route
     \/ /\ OnCourse(g, r.commanded)
        /\ now - since < AlignStable
        /\ Orders(g, StableFrom(g, since))
        /\ Again(tm, FastPoll)
        /\ UNCHANGED route
     \/ /\ OnCourse(g, r.commanded)
        /\ now - since >= AlignStable
        /\ ~RouteExists(g)
        /\ GivesUp(tm)
     \/ /\ OnCourse(g, r.commanded)
        /\ now - since >= AlignStable
        /\ RouteExists(g)
        /\ route' = [route EXCEPT ![g] = sea[g].plan]
        /\ Orders(g, Opened(g))
        /\ Again(tm, FastPoll)

Aligning(tm) ==
  LET g == tm.group  r == active[g] IN
  /\ sea[g].afloat
  /\ r.phase = "aligning"
  /\ \/ now >= r.alignmentDeadline /\ GivesUp(tm)
     \/ now < r.alignmentDeadline /\ WindMoved(g) /\ ~RouteExists(g) /\ GivesUp(tm)
     \/ now < r.alignmentDeadline /\ Retarget(tm)
     \/ now < r.alignmentDeadline /\ HoldOrOpenWindow(tm)

\* The window goes on: the guard found the escape margin clear.
WindowContinues(tm) ==
  LET g == tm.group  r == active[g] IN
  /\ now < r.activeUntil
  /\ IsClear(g, r.commanded, Reserve)
  /\ Again(tm, SlowPoll)
  /\ UNCHANGED <<active, route, foothold>>

Active(tm) ==
  LET g == tm.group  r == active[g] IN
  /\ sea[g].afloat
  /\ r.phase = "active"
  /\ \/ now >= r.activeUntil /\ GivesUp(tm)
     \/ now < r.activeUntil /\ ~IsClear(g, r.commanded, Reserve) /\ GivesUp(tm)
     \/ WindowContinues(tm)

Monitor(tm) ==
  /\ tm.due <= now
  /\ \/ StaleCallback(tm)
     \/ /\ MonitorsRecovery(tm)
        /\ ShipLost(tm) \/ Pending(tm) \/ Aligning(tm) \/ Active(tm)
  /\ UNCHANGED <<now, sea, generation, bc>>

-----------------------------------------------------------------------------
(* The world around the controller                                         *)

\* Time passes, ships and weather move.  The scheduler runs what is due
\* before it lets time go on.
Tick ==
  /\ now < MaxTime
  /\ \A tm \in timers : tm.due > now
  /\ now' = now + 1
  /\ sea' \in [Groups -> Pictures]
  /\ UNCHANGED <<generation, active, timers, route, bc, foothold>>

\* The mission's Foothold script declares its functions for the hull.
FootholdLoads(g) ==
  /\ g \in Delegable \ bc
  /\ bc' = bc \cup {g}
  /\ UNCHANGED <<now, sea, generation, active, timers, route, foothold>>

\* Foothold's own recovery runs out.
FootholdEnds(g) ==
  /\ foothold[g]
  /\ foothold' = [foothold EXCEPT ![g] = FALSE]
  /\ UNCHANGED <<now, sea, generation, active, timers, route, bc>>

\* A fresh Lua state: no controller state, no timers, ships on their routes.
Init ==
  /\ now = 0
  /\ sea \in [Groups -> Pictures]
  /\ generation = 0
  /\ active = [g \in Groups |-> NoRecovery]
  /\ timers = {}
  /\ route = [g \in Groups |-> Circuit]
  /\ bc \in SUBSET Delegable
  /\ foothold = [g \in Groups |-> FALSE]

\* The mission is loaded again: everything above is lost at once.
MissionRestart ==
  /\ now' = 0
  /\ sea' \in [Groups -> Pictures]
  /\ generation' = 0
  /\ active' = [g \in Groups |-> NoRecovery]
  /\ timers' = {}
  /\ route' = [g \in Groups |-> Circuit]
  /\ bc' \in SUBSET Delegable
  /\ foothold' = [g \in Groups |-> FALSE]

Next ==
  \/ \E g \in Groups : DelegatedStart(g) \/ Start(g) \/ Restore(g)
  \/ \E tm \in timers : Monitor(tm)
  \/ Tick
  \/ \E g \in Groups : FootholdLoads(g) \/ FootholdEnds(g)
  \/ MissionRestart

Spec == Init /\ [][Next]_vars
-----------------------------------------------------------------------------
(* Properties                                                              *)

TimersOf(g) == {tm \in timers : tm.group = g /\ MonitorsRecovery(tm)}

\* Every stand-alone recovery is driven by exactly one monitor callback: none
\* and it never ends, two and each re-orders the ship behind the other's
\* back.  Callbacks of resumed recoveries stay scheduled, so this rests on
\* the generation check of monitor and on generations never being reused.
OneMonitorPerRecovery ==
  \A g \in Groups : Recovering(g) /\ g \notin bc =>
    \E tm \in timers : TimersOf(g) = {tm}

\* A ship without a recovery is on its normal circuit, and what a running
\* recovery will resume is that circuit: captureNormalCircuit never snapshots
\* a ship that another recovery turned, whatever the order of commands,
\* failed restores and timers.
CircuitIsNeverLost ==
  \A g \in Groups :
    /\ ~Recovering(g) => route[g] = Circuit
    /\ Recovering(g) => active[g].previous = Circuit

\* The longest a recovery lasts after its announced turn: the turn is at most
\* a poll late, the window opens before the alignment deadline and is closed
\* by the first slow poll after its end.
LongestRecovery == AlignTimeout + Duration + FastPoll + SlowPoll - 3

\* The deck is closed again in bounded time: however the wind moves, turning,
\* aligning (retargets included) and the window together end on time, unless
\* resuming the circuit failed or Foothold took the hull over.
RecoveryIsBounded ==
  \A g \in Groups :
    Recovering(g) /\ g \notin bc /\ active[g].lastRestoreFailureAt = Never =>
      now <= active[g].executeAt + LongestRecovery

\* What a step that orders a new course presupposes.
Announced ==
  \A g \in Groups : route'[g] # route[g] /\ route'[g] # Circuit =>
    /\ Recovering(g)
    /\ active[g].phase # "active"
    /\ now >= active[g].executeAt

\* "Retarget before the recovery window starts, never after deck operations
\* begin": while the window is open the ship is not given another recovery
\* course, and a ship is turned into wind no earlier than it was announced.
TurnsAsAnnounced == [][Announced]_vars

\* "always preserve the agreed five-minute escape margin ahead of the live
\* ship position": a monitor call that lets the window go on has found
\* Reserve ticks of clear water on the course the ship was ordered to steam.
EscapeMargin ==
  [][\A tm \in timers :
       Monitor(tm) /\ MonitorsRecovery(tm) /\ Active(tm) /\ WindowContinues(tm)
         => IsClear(tm.group, route[tm.group], Reserve)]_vars
=============================================================================
