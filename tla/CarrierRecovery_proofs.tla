----------------------- MODULE CarrierRecovery_proofs -----------------------
(***************************************************************************)
(* Proofs about CarrierRecovery for every number of carriers, every world  *)
(* windData may read and every setting of the delays.                      *)
(***************************************************************************)
EXTENDS CarrierRecovery, TLAPS

\* What a monitor call leaves of a recovery it does not end.
SameRecovery(r, q) ==
  /\ q \in Recovery
  /\ q.generation = r.generation
  /\ q.executeAt = r.executeAt
  /\ q.previous = r.previous
  /\ r.lastRestoreFailureAt # Never => q.lastRestoreFailureAt # Never

\* The three ways a monitor call that found its recovery can leave it: the
\* ship is back on its circuit; Foothold resumed its own lane; or the same
\* recovery goes on and the monitor is called again.
Ended(tm) ==
  LET g == tm.group IN
  /\ g \notin bc
  /\ Dies(tm)
  /\ active' = [active EXCEPT ![g] = NoRecovery]
  /\ route' = [route EXCEPT ![g] = active[g].previous]

HandedOver(tm) == tm.group \in bc /\ Dies(tm) /\ UNCHANGED <<active, route>>

GoesOn(tm, d) ==
  LET g == tm.group IN
  /\ Again(tm, d)
  /\ active' = [active EXCEPT ![g] = active'[g]]
  /\ SameRecovery(active[g], active'[g])
  /\ route' = route \/ route' = [route EXCEPT ![g] = sea[g].plan]

\* The recovery has not outlived its phases so far.
OnSchedule(r) ==
  /\ r.phase = "aligning" =>
       /\ r.alignmentDeadline \in Nat
       /\ r.alignmentDeadline <= r.executeAt + FastPoll - 1 + AlignTimeout
  /\ r.phase = "active" =>
       /\ r.activeUntil \in Nat
       /\ r.activeUntil <= r.executeAt + FastPoll + AlignTimeout + Duration - 2

\* The next monitor call comes before this time.
DueBy(r) ==
  IF r.phase = "pending" THEN r.executeAt + FastPoll - 1
  ELSE IF r.phase = "aligning" THEN r.alignmentDeadline + FastPoll - 1
  ELSE r.activeUntil + SlowPoll - 1

Punctual(r, due) == OnSchedule(r) /\ due <= DueBy(r)

-----------------------------------------------------------------------------
(* Facts about single steps.                                               *)

\* The updates monitor makes to a recovery record keep it a recovery record
\* of the same start.
LEMMA TurnedFact ==
  ASSUME TypeOK, NEW g \in Groups, Recovering(g)
  PROVE  /\ SameRecovery(active[g], Turned(g))
         /\ Turned(g).phase = "aligning"
         /\ Turned(g).alignmentDeadline = now + AlignTimeout
         /\ Turned(g).lastRestoreFailureAt = active[g].lastRestoreFailureAt
<1> DEFINE r == active[g]
           q1 == [r EXCEPT !.phase = "aligning"]
           q2 == [q1 EXCEPT !.commanded = sea[g].plan]
           q3 == [q2 EXCEPT !.alignmentDeadline = now + AlignTimeout]
<1>1. r \in Recovery /\ now \in Nat /\ sea[g].plan \in Plans /\ now + AlignTimeout \in Nat
  BY PicturesAssumption, DelaysAssumption DEF TypeOK, Recovering
<1>2. q1 \in Recovery
  BY <1>1 DEF Recovery, Courses, Times
<1>3. q2 \in Recovery
  BY <1>1, <1>2 DEF Recovery, Courses, Times
<1>4. q3 \in Recovery
  BY <1>1, <1>3 DEF Recovery, Courses, Times
<1> QED
  BY <1>1, <1>4 DEF Recovery, SameRecovery, Turned

LEMMA RetargetedFact ==
  ASSUME TypeOK, NEW g \in Groups, Recovering(g)
  PROVE  /\ SameRecovery(active[g], Retargeted(g))
         /\ Retargeted(g).phase = active[g].phase
         /\ Retargeted(g).alignmentDeadline = active[g].alignmentDeadline
         /\ Retargeted(g).lastRestoreFailureAt = active[g].lastRestoreFailureAt
<1> DEFINE r == active[g]
           t == IF OnCourse(g, sea[g].plan) THEN now ELSE Never
           q1 == [r EXCEPT !.commanded = sea[g].plan]
           q2 == [q1 EXCEPT !.alignmentStableSince = t]
<1>1. r \in Recovery /\ sea[g].plan \in Plans /\ t \in Times
  BY PicturesAssumption DEF TypeOK, Recovering, Times
<1> HIDE DEF t
<1>2. q1 \in Recovery
  BY <1>1 DEF Recovery, Courses
<1>3. q2 \in Recovery
  BY <1>1, <1>2 DEF Recovery
<1>4. Retargeted(g) = q2
  BY <1>1 DEF Recovery, Retargeted, t
<1> QED
  BY <1>1, <1>3, <1>4 DEF Recovery, SameRecovery

LEMMA StableFromFact ==
  ASSUME TypeOK, NEW g \in Groups, Recovering(g), NEW t \in Times
  PROVE  /\ SameRecovery(active[g], StableFrom(g, t))
         /\ StableFrom(g, t).phase = active[g].phase
         /\ StableFrom(g, t).alignmentDeadline = active[g].alignmentDeadline
         /\ StableFrom(g, t).lastRestoreFailureAt = active[g].lastRestoreFailureAt
<1>1. active[g] \in Recovery
  BY DEF TypeOK, Recovering
<1> QED
  BY <1>1 DEF Recovery, SameRecovery, StableFrom

LEMMA OpenedFact ==
  ASSUME TypeOK, NEW g \in Groups, Recovering(g)
  PROVE  /\ SameRecovery(active[g], Opened(g))
         /\ Opened(g).phase = "active"
         /\ Opened(g).activeUntil = now + Duration
         /\ Opened(g).lastRestoreFailureAt = active[g].lastRestoreFailureAt
<1> DEFINE r == active[g]
           q1 == [r EXCEPT !.phase = "active"]
           q2 == [q1 EXCEPT !.activeUntil = now + Duration]
<1>1. r \in Recovery /\ now \in Nat /\ sea[g].plan \in Plans /\ now + Duration \in Nat
  BY PicturesAssumption, DelaysAssumption DEF TypeOK, Recovering
<1>2. q1 \in Recovery
  BY <1>1 DEF Recovery, Courses, Times
<1>3. q2 \in Recovery
  BY <1>1, <1>2 DEF Recovery, Courses, Times
<1> QED
  BY <1>1, <1>3 DEF Recovery, SameRecovery, Opened

LEMMA ResumesFact ==
  ASSUME TypeOK, NEW g \in Groups, RestoreSucceeds(g)
  PROVE  /\ g \in bc => UNCHANGED <<active, route>>
         /\ g \notin bc => /\ Recovering(g)
                           /\ active' = [active EXCEPT ![g] = NoRecovery]
                           /\ route' = [route EXCEPT ![g] = active[g].previous]
         /\ foothold' \in [Groups -> BOOLEAN]
  BY DEF TypeOK, RestoreSucceeds, FootholdRestores, Resumes

LEMMA FailsFact ==
  ASSUME TypeOK, NEW g \in Groups, RestoreFails(g)
  PROVE  /\ UNCHANGED <<route, foothold>>
         /\ g \in bc => UNCHANGED active
         /\ g \notin bc => Recovering(g) /\ Recovering(g)'
         /\ Recovering(g) =>
              /\ active' = [active EXCEPT ![g] = active'[g]]
              /\ SameRecovery(active[g], active'[g])
              /\ active'[g].phase = active[g].phase
              /\ g \notin bc => active'[g].lastRestoreFailureAt # Never
         /\ ~Recovering(g) => UNCHANGED active
<1>1. CASE FootholdRefuses(g)
  BY <1>1 DEF FootholdRefuses, TypeOK, Recovering, SameRecovery, RestoreFails, CannotResume
<1>2. CASE CannotResume(g)
  <2> DEFINE r == active[g]
             q == [r EXCEPT !.lastRestoreFailureAt = now]
  <2>1. r \in Recovery /\ now \in Nat /\ now # Never
    BY <1>2 DEF CannotResume, TypeOK, Recovering, Never
  <2>2. q \in Recovery /\ SameRecovery(r, q) /\ SameRecovery(r, r)
        /\ q.phase = r.phase
        /\ q.lastRestoreFailureAt # Never
    BY <2>1 DEF Recovery, Times, SameRecovery
  <2>3. active' = [active EXCEPT ![g] = q] \/ active' = active
    BY <1>2 DEF CannotResume
  <2>4. r.lastRestoreFailureAt = Never => active' = [active EXCEPT ![g] = q]
    BY <1>2 DEF CannotResume
  <2>5. active'[g] = q \/ active'[g] = r
    BY <2>3, <1>2 DEF TypeOK, CannotResume
  <2>6. Recovering(g)'
    BY <2>1, <2>2, <2>5, NoRecoveryAssumption DEF Recovering
  <2>7. active'[g].lastRestoreFailureAt # Never
    BY <2>1, <2>2, <2>3, <2>4 DEF TypeOK
  <2>8. active' = [active EXCEPT ![g] = active'[g]]
    BY <2>3 DEF TypeOK
  <2> QED
    BY <1>2, <2>2, <2>5, <2>6, <2>7, <2>8 DEF CannotResume
<1> QED
  BY <1>1, <1>2 DEF RestoreFails

LEMMA GivesUpFact ==
  ASSUME TypeOK, NEW tm \in timers, MonitorsRecovery(tm), GivesUp(tm)
  PROVE  /\ \/ Ended(tm)
            \/ HandedOver(tm)
            \/ /\ GoesOn(tm, SlowPoll)
               /\ UNCHANGED route
               /\ active'[tm.group].phase = active[tm.group].phase
               /\ tm.group \in bc \/ active'[tm.group].lastRestoreFailureAt # Never
         /\ foothold' \in [Groups -> BOOLEAN]
<1>1. tm.group \in Groups
  BY DEF TypeOK, Timer
<1>2. CASE RestoreSucceeds(tm.group) /\ Dies(tm)
  BY <1>1, <1>2, ResumesFact DEF Ended, HandedOver
<1>3. CASE RestoreFails(tm.group) /\ Again(tm, SlowPoll)
  <2>1. Recovering(tm.group)
    BY DEF MonitorsRecovery
  <2> QED
    BY <1>1, <1>3, <2>1, FailsFact DEF GoesOn, TypeOK
<1> QED
  BY <1>2, <1>3 DEF GivesUp

\* A step that goes on keeps the recovery punctual, given it was.
OnTime(tm, d) ==
  LET g == tm.group IN
  \/ g \in bc
  \/ active'[g].lastRestoreFailureAt # Never
  \/ Punctual(active[g], now) => Punctual(active'[g], now + d)

\* A step that goes on turns the ship no earlier than announced, and not
\* again once the window is open.
AsAnnounced(tm) ==
  LET r == active[tm.group]  q == active'[tm.group] IN
  /\ q.phase # "pending" => r.phase # "pending" \/ now >= r.executeAt
  /\ route' # route => /\ r.phase # "active"
                       /\ r.phase # "pending" \/ now >= r.executeAt

LEMMA PendingFact ==
  ASSUME TypeOK, NEW tm \in timers, MonitorsRecovery(tm), Pending(tm)
  PROVE  /\ \/ Ended(tm)
            \/ HandedOver(tm)
            \/ \E d \in {FastPoll, SlowPoll} :
                 GoesOn(tm, d) /\ OnTime(tm, d) /\ AsAnnounced(tm)
         /\ foothold' \in [Groups -> BOOLEAN]
<1> DEFINE g == tm.group
           r == active[g]
<1>1. g \in Groups /\ r \in Recovery /\ now \in Nat /\ sea[g].plan \in Plans
  BY PicturesAssumption DEF TypeOK, Timer, MonitorsRecovery, Recovering
<1>2. CASE GivesUp(tm)
  BY <1>2, GivesUpFact DEF OnTime, AsAnnounced
<1>3. CASE ~TurnIsDue(g) /\ Again(tm, FastPoll) /\ UNCHANGED <<active, route, foothold>>
  <2>1. GoesOn(tm, FastPoll)
    BY <1>1, <1>3 DEF GoesOn, SameRecovery, TypeOK
  <2>3. AsAnnounced(tm)
    BY <1>3 DEF AsAnnounced
  <2>2. OnTime(tm, FastPoll)
    BY <1>1, <1>3, DelaysAssumption DEF OnTime, Punctual, OnSchedule, DueBy, TurnIsDue, Recovery, Pending
  <2> QED
    BY <1>3, <2>1, <2>2, <2>3 DEF TypeOK
<1>4. CASE /\ TurnIsDue(g)
           /\ route' = [route EXCEPT ![g] = sea[g].plan]
           /\ Orders(g, Turned(g))
           /\ Again(tm, FastPoll)
  <2>1. /\ SameRecovery(r, Turned(g))
        /\ Turned(g).phase = "aligning"
        /\ Turned(g).alignmentDeadline = now + AlignTimeout
        /\ Turned(g).lastRestoreFailureAt = r.lastRestoreFailureAt
    BY <1>1, TurnedFact DEF MonitorsRecovery
  <2>2. active'[g] = Turned(g) /\ active' = [active EXCEPT ![g] = Turned(g)]
    BY <1>1, <1>4 DEF Orders, TypeOK
  <2>3. GoesOn(tm, FastPoll)
    BY <1>4, <2>1, <2>2 DEF GoesOn
  <2>4. r.phase = "pending" /\ r.executeAt \in Nat
    BY <1>1 DEF Pending, Recovery
  <2>5. OnTime(tm, FastPoll)
    BY <1>1, <2>1, <2>2, <2>4, DelaysAssumption
       DEF OnTime, Punctual, OnSchedule, DueBy, SameRecovery
  <2> QED
    <3>1. AsAnnounced(tm)
      BY <1>4, <2>4 DEF AsAnnounced, TurnIsDue
    <3>2. foothold' \in [Groups -> BOOLEAN]
      BY <1>4 DEF Orders, TypeOK
    <3> QED
      BY <2>3, <2>5, <3>1, <3>2
<1> QED
  BY <1>2, <1>3, <1>4 DEF Pending

LEMMA AligningFact ==
  ASSUME TypeOK, NEW tm \in timers, MonitorsRecovery(tm), Aligning(tm)
  PROVE  /\ \/ Ended(tm)
            \/ HandedOver(tm)
            \/ \E d \in {FastPoll, SlowPoll} :
                 GoesOn(tm, d) /\ OnTime(tm, d) /\ AsAnnounced(tm)
         /\ foothold' \in [Groups -> BOOLEAN]
<1> DEFINE g == tm.group
           r == active[g]
<1>1. g \in Groups /\ r \in Recovery /\ now \in Nat /\ r.phase = "aligning"
      /\ Recovering(g)
  BY DEF TypeOK, Timer, MonitorsRecovery, Recovering, Aligning
<1>2. CASE GivesUp(tm)
  BY <1>2, GivesUpFact DEF OnTime, AsAnnounced
<1>3. ASSUME NEW q, now < r.alignmentDeadline,
             Orders(g, q), Again(tm, FastPoll), SameRecovery(r, q),
             route' = route \/ route' = [route EXCEPT ![g] = sea[g].plan],
             q.phase = "aligning", q.alignmentDeadline = r.alignmentDeadline
      PROVE  GoesOn(tm, FastPoll) /\ OnTime(tm, FastPoll) /\ AsAnnounced(tm)
             /\ foothold' \in [Groups -> BOOLEAN]
  <2>1. active'[g] = q /\ active' = [active EXCEPT ![g] = q]
    BY <1>1, <1>3 DEF Orders, TypeOK
  <2>2. GoesOn(tm, FastPoll)
    BY <1>3, <2>1 DEF GoesOn
  <2>3. OnTime(tm, FastPoll)
    BY <1>1, <1>3, <2>1, DelaysAssumption
       DEF OnTime, Punctual, OnSchedule, DueBy, SameRecovery, Recovery
  <2> QED
    BY <1>1, <1>3, <2>2, <2>3 DEF Orders, TypeOK, AsAnnounced
<1>4. CASE now < r.alignmentDeadline /\ Retarget(tm)
  BY <1>1, <1>3, <1>4, RetargetedFact DEF Retarget
<1>5. CASE now < r.alignmentDeadline /\ HoldOrOpenWindow(tm) /\ ~GivesUp(tm)
  <2> DEFINE since == StableSince(r.alignmentStableSince)
  <2>1. since \in Times /\ Never \in Times
    BY <1>1 DEF StableSince, Times, Recovery
  <2>2. CASE \E t \in {since, Never} :
               Orders(g, StableFrom(g, t)) /\ Again(tm, FastPoll) /\ UNCHANGED route
    BY <1>1, <1>3, <1>5, <2>1, <2>2, StableFromFact
  <2>3. CASE /\ route' = [route EXCEPT ![g] = sea[g].plan]
             /\ Orders(g, Opened(g))
             /\ Again(tm, FastPoll)
    <3>1. /\ SameRecovery(r, Opened(g))
          /\ Opened(g).phase = "active"
          /\ Opened(g).activeUntil = now + Duration
      BY <1>1, OpenedFact
    <3>2. active'[g] = Opened(g) /\ active' = [active EXCEPT ![g] = Opened(g)]
      BY <1>1, <2>3 DEF Orders, TypeOK
    <3>3. GoesOn(tm, FastPoll)
      BY <2>3, <3>1, <3>2 DEF GoesOn
    <3>4. OnTime(tm, FastPoll)
      BY <1>1, <1>5, <3>1, <3>2, DelaysAssumption
         DEF OnTime, Punctual, OnSchedule, DueBy, SameRecovery, Recovery
    <3> QED
      BY <1>1, <2>3, <3>3, <3>4 DEF Orders, TypeOK, AsAnnounced
  <2> QED
    BY <1>5, <2>2, <2>3 DEF HoldOrOpenWindow
<1> QED
  BY <1>2, <1>4, <1>5 DEF Aligning

LEMMA ActiveFact ==
  ASSUME TypeOK, NEW tm \in timers, MonitorsRecovery(tm), Active(tm)
  PROVE  /\ \/ Ended(tm)
            \/ HandedOver(tm)
            \/ \E d \in {FastPoll, SlowPoll} :
                 GoesOn(tm, d) /\ OnTime(tm, d) /\ AsAnnounced(tm)
         /\ foothold' \in [Groups -> BOOLEAN]
<1> DEFINE g == tm.group
           r == active[g]
<1>1. g \in Groups /\ r \in Recovery /\ now \in Nat /\ r.phase = "active"
      /\ Recovering(g)
  BY DEF TypeOK, Timer, MonitorsRecovery, Recovering, Active
<1>2. CASE GivesUp(tm)
  BY <1>2, GivesUpFact DEF OnTime, AsAnnounced
<1>3. CASE WindowContinues(tm)
  <2>1. GoesOn(tm, SlowPoll) /\ UNCHANGED route /\ active'[g] = r
    BY <1>1, <1>3 DEF GoesOn, SameRecovery, TypeOK, WindowContinues
  <2>2. now < r.activeUntil
    BY <1>3 DEF WindowContinues
  <2>3. OnTime(tm, SlowPoll)
    BY <1>1, <2>1, <2>2, DelaysAssumption
       DEF OnTime, Punctual, OnSchedule, DueBy, Recovery
  <2> QED
    BY <1>1, <1>3, <2>1, <2>3 DEF WindowContinues, TypeOK, AsAnnounced
<1> QED
  BY <1>2, <1>3 DEF Active

LEMMA MonitorFact ==
  ASSUME TypeOK, NEW tm \in timers, Monitor(tm)
  PROVE  /\ tm.due <= now
         /\ UNCHANGED <<now, sea, generation, bc>>
         /\ foothold' \in [Groups -> BOOLEAN]
         /\ ~MonitorsRecovery(tm) => Dies(tm) /\ UNCHANGED <<active, route>>
         /\ MonitorsRecovery(tm) =>
              \/ Ended(tm)
              \/ HandedOver(tm)
              \/ \E d \in {FastPoll, SlowPoll} :
                 GoesOn(tm, d) /\ OnTime(tm, d) /\ AsAnnounced(tm)
<1>1. CASE StaleCallback(tm)
  BY <1>1 DEF Monitor, StaleCallback, TypeOK
<1>2. CASE MonitorsRecovery(tm) /\ ShipLost(tm)
  BY <1>2, GivesUpFact DEF Monitor, ShipLost, OnTime, AsAnnounced
<1>3. CASE MonitorsRecovery(tm) /\ (Pending(tm) \/ Aligning(tm) \/ Active(tm))
  BY <1>3, PendingFact, AligningFact, ActiveFact DEF Monitor
<1> QED
  BY <1>1, <1>2, <1>3 DEF Monitor

-----------------------------------------------------------------------------
(* Type correctness                                                        *)

LEMMA InitType == Init => TypeOK
  BY NamesAssumption DEF Init, TypeOK, Courses

LEMMA StepType == TypeOK /\ [Next]_vars => TypeOK'
<1> SUFFICES ASSUME TypeOK, [Next]_vars PROVE TypeOK'
  OBVIOUS
<1>1. ASSUME NEW g \in Groups, DelegatedStart(g) PROVE TypeOK'
  BY <1>1 DEF DelegatedStart, TypeOK
<1>2. ASSUME NEW g \in Groups, Start(g) PROVE TypeOK'
  <2>1. NewRecovery(g) \in Recovery
    BY <1>2, DelaysAssumption, NamesAssumption
       DEF NewRecovery, Recovery, TypeOK, Times, Courses
  <2>2. now + FastPoll \in Nat /\ generation + 1 \in Nat
    BY DelaysAssumption DEF TypeOK
  <2> QED
    BY <1>2, <2>1, <2>2 DEF Start, TypeOK, Timer
<1>3. ASSUME NEW g \in Groups, Restore(g) PROVE TypeOK'
  <2>1. CASE RestoreSucceeds(g)
    <3>1. Recovering(g) => active[g].previous \in Courses
      BY DEF TypeOK, Recovering, Recovery
    <3> QED
      BY <1>3, <2>1, <3>1, ResumesFact DEF Restore, TypeOK
  <2>2. CASE CannotResume(g)
    BY <1>3, <2>2, FailsFact DEF Restore, RestoreFails, TypeOK, SameRecovery, CannotResume
  <2> QED
    BY <1>3, <2>1, <2>2 DEF Restore
<1>4. ASSUME NEW tm \in timers, Monitor(tm) PROVE TypeOK'
  <2> DEFINE g == tm.group
  <2>1. g \in Groups /\ tm \in Timer
    BY DEF TypeOK, Timer
  <2>2. CASE ~MonitorsRecovery(tm)
    BY <1>4, <2>2, MonitorFact DEF TypeOK, Dies
  <2>3. CASE MonitorsRecovery(tm) /\ Ended(tm)
    <3>1. active[g].previous \in Courses
      BY <2>1, <2>3 DEF TypeOK, MonitorsRecovery, Recovering, Recovery
    <3> QED
      BY <1>4, <2>1, <2>3, <3>1, MonitorFact DEF TypeOK, Ended, Dies
  <2>4. CASE HandedOver(tm)
    BY <1>4, <2>4, MonitorFact DEF TypeOK, HandedOver, Dies
  <2>5. ASSUME MonitorsRecovery(tm), NEW d \in {FastPoll, SlowPoll}, GoesOn(tm, d)
        PROVE  TypeOK'
    <3>1. now + d \in Nat /\ [tm EXCEPT !.due = now + d] \in Timer
      BY <2>1, DelaysAssumption DEF TypeOK, Timer
    <3>2. sea[g].plan \in Courses
      BY <2>1, PicturesAssumption DEF TypeOK, Courses
    <3> QED
      BY <1>4, <2>1, <2>5, <3>1, <3>2, MonitorFact
         DEF TypeOK, GoesOn, Again, SameRecovery
  <2> QED
    BY <1>4, <2>2, <2>3, <2>4, <2>5, MonitorFact
<1>5. CASE Tick
  BY <1>5 DEF Tick, TypeOK
<1>6. ASSUME NEW g \in Groups, FootholdLoads(g) \/ FootholdEnds(g) PROVE TypeOK'
  BY <1>6 DEF FootholdLoads, FootholdEnds, TypeOK
<1>7. CASE MissionRestart
  BY <1>7, NamesAssumption DEF MissionRestart, TypeOK, Courses
<1>8. CASE UNCHANGED vars
  BY <1>8 DEF vars, TypeOK
<1> QED
  BY <1>1, <1>2, <1>3, <1>4, <1>5, <1>6, <1>7, <1>8 DEF Next

\* Every variable keeps its type, whatever the constants.
THEOREM TypeCorrect == Spec => []TypeOK
  BY InitType, StepType, PTL DEF Spec

-----------------------------------------------------------------------------
(* One monitor per recovery                                                *)

\* Inductive form: generations name callbacks uniquely, and the callback of a
\* stand-alone recovery is scheduled.
Pairing ==
  /\ \A t, u \in timers : t.generation = u.generation => t = u
  /\ \A t \in timers : t.generation <= generation
  /\ \A g \in Groups : Recovering(g) /\ g \notin bc =>
       \E t \in timers : t.group = g /\ t.generation = active[g].generation

LEMMA AgainPairing ==
  ASSUME TypeOK, Pairing, NEW tm \in timers, MonitorsRecovery(tm),
         NEW d \in {FastPoll, SlowPoll}, GoesOn(tm, d), UNCHANGED <<generation, bc>>
  PROVE  Pairing'
<1> DEFINE g == tm.group
           n == [tm EXCEPT !.due = now + d]
<1>1. g \in Groups /\ n.group = g /\ n.generation = tm.generation
  BY DEF TypeOK, Timer
<1>2. timers' = (timers \ {tm}) \cup {n}
  BY DEF GoesOn, Again
<1> HIDE DEF n
<1>3. \A t, u \in timers' : t.generation = u.generation => t = u
  BY <1>1, <1>2 DEF Pairing
<1>4. \A t \in timers' : t.generation <= generation'
  BY <1>1, <1>2 DEF Pairing
<1>5. ASSUME NEW h \in Groups, Recovering(h)', h \notin bc
      PROVE  \E t \in timers' : t.group = h /\ t.generation = active'[h].generation
  <2>1. CASE h = g
    <3>1. n \in timers' /\ active'[g].generation = active[g].generation
      BY <1>2 DEF GoesOn, SameRecovery
    <3>2. active[g].generation = tm.generation
      BY DEF MonitorsRecovery
    <3> QED
      BY <1>1, <2>1, <3>1, <3>2
  <2>2. CASE h # g
    <3>1. active'[h] = active[h]
      BY <1>5, <2>2 DEF GoesOn, TypeOK
    <3>2. PICK t \in timers : t.group = h /\ t.generation = active[h].generation
      BY <1>5, <3>1 DEF Pairing, Recovering
    <3> QED
      BY <1>2, <2>2, <3>1, <3>2
  <2> QED
    BY <2>1, <2>2
<1> QED
  BY <1>3, <1>4, <1>5 DEF Pairing

LEMMA StepPairing == TypeOK /\ Pairing /\ [Next]_vars => Pairing'
<1> SUFFICES ASSUME TypeOK, Pairing, [Next]_vars PROVE Pairing'
  OBVIOUS
<1>1. ASSUME NEW g \in Groups, DelegatedStart(g) PROVE Pairing'
  BY <1>1 DEF DelegatedStart, Pairing, Recovering
<1>2. ASSUME NEW g \in Groups, Start(g) PROVE Pairing'
  <2> DEFINE n == [group |-> g, generation |-> generation + 1, due |-> now + FastPoll]
  <2>1. timers' = timers \cup {n} /\ generation' = generation + 1 /\ generation \in Nat
    BY <1>2 DEF Start, TypeOK
  <2>2. \A t \in timers : t.generation \in Nat /\ t.generation < n.generation
    BY <2>1 DEF Pairing, TypeOK, Timer
  <2>3. \A t, u \in timers' : t.generation = u.generation => t = u
    BY <2>1, <2>2 DEF Pairing
  <2>4. \A t \in timers' : t.generation <= generation'
    BY <2>1, <2>2
  <2>5. ASSUME NEW h \in Groups, Recovering(h)', h \notin bc'
        PROVE  \E t \in timers' : t.group = h /\ t.generation = active'[h].generation
    <3>1. CASE h = g
      <4>1. active'[g] = NewRecovery(g)
        BY <1>2 DEF Start, TypeOK
      <4>2. NewRecovery(g).generation = generation + 1
        BY DEF NewRecovery
      <4>3. n \in timers' /\ n.group = g /\ n.generation = generation + 1
        BY <2>1
      <4> QED
        BY <3>1, <4>1, <4>2, <4>3
    <3>2. CASE h # g
      BY <1>2, <2>1, <2>5, <3>2 DEF Start, Pairing, Recovering, TypeOK
    <3> QED
      BY <3>1, <3>2
  <2> QED
    BY <2>3, <2>4, <2>5 DEF Pairing
<1>3. ASSUME NEW g \in Groups, Restore(g) PROVE Pairing'
  <2>1. CASE RestoreSucceeds(g)
    <3>1. UNCHANGED <<timers, generation, bc>>
      BY <1>3 DEF Restore
    <3>2. \A h \in Groups : Recovering(h)' => Recovering(h) /\ active'[h] = active[h]
      BY <2>1, ResumesFact DEF TypeOK, Recovering
    <3> QED
      BY <3>1, <3>2 DEF Pairing
  <2>2. CASE CannotResume(g)
    <3>1. UNCHANGED <<timers, generation, bc>>
      BY <1>3 DEF Restore
    <3>2. /\ active' = [active EXCEPT ![g] = active'[g]]
          /\ active'[g].generation = active[g].generation
          /\ Recovering(g)
      BY <2>2, FailsFact DEF RestoreFails, CannotResume, SameRecovery
    <3>3. \A h \in Groups : Recovering(h)' =>
            Recovering(h) /\ active'[h].generation = active[h].generation
      BY <3>2 DEF TypeOK, Recovering
    <3> QED
      BY <3>1, <3>3 DEF Pairing
  <2> QED
    BY <1>3, <2>1, <2>2 DEF Restore
<1>4. ASSUME NEW tm \in timers, Monitor(tm) PROVE Pairing'
  <2> DEFINE g == tm.group
  <2>1. g \in Groups /\ UNCHANGED <<generation, bc>>
    BY <1>4, MonitorFact DEF TypeOK, Timer
  <2>2. CASE ~MonitorsRecovery(tm)
    <3>1. timers' = timers \ {tm} /\ UNCHANGED active
      BY <1>4, <2>2, MonitorFact DEF Dies
    <3> QED
      BY <2>1, <2>2, <3>1 DEF Pairing, Recovering, MonitorsRecovery, TypeOK
  <2>3. CASE MonitorsRecovery(tm) /\ Ended(tm)
    <3>1. timers' = timers \ {tm} /\ active' = [active EXCEPT ![g] = NoRecovery]
      BY <2>3 DEF Ended, Dies
    <3> QED
      BY <2>1, <3>1 DEF Pairing, Recovering, TypeOK
  <2>4. CASE HandedOver(tm)
    <3>1. timers' = timers \ {tm} /\ UNCHANGED active /\ g \in bc
      BY <2>4 DEF HandedOver, Dies
    <3> QED
      BY <2>1, <3>1 DEF Pairing, Recovering
  <2>5. ASSUME MonitorsRecovery(tm), NEW d \in {FastPoll, SlowPoll}, GoesOn(tm, d)
        PROVE  Pairing'
    BY <2>1, <2>5, AgainPairing
  <2> QED
    BY <1>4, <2>2, <2>3, <2>4, <2>5, MonitorFact
<1>5. CASE Tick
  BY <1>5 DEF Tick, Pairing, Recovering
<1>6. ASSUME NEW g \in Groups, FootholdLoads(g) \/ FootholdEnds(g) PROVE Pairing'
  BY <1>6 DEF FootholdLoads, FootholdEnds, Pairing, Recovering
<1>7. CASE MissionRestart
  BY <1>7 DEF MissionRestart, Pairing, Recovering
<1>8. CASE UNCHANGED vars
  BY <1>8 DEF vars, Pairing, Recovering
<1> QED
  BY <1>1, <1>2, <1>3, <1>4, <1>5, <1>6, <1>7, <1>8 DEF Next

\* Each stand-alone recovery is driven by exactly one monitor callback.
THEOREM OneMonitor == Spec => []OneMonitorPerRecovery
<1>1. Init => Pairing
  BY DEF Init, Pairing, Recovering
<1>2. Pairing => OneMonitorPerRecovery
  BY DEF Pairing, OneMonitorPerRecovery, TimersOf, MonitorsRecovery
<1> QED
  BY <1>1, <1>2, TypeCorrect, StepPairing, PTL DEF Spec

-----------------------------------------------------------------------------
(* The circuit is never lost                                               *)

LEMMA StepCircuit == TypeOK /\ CircuitIsNeverLost /\ [Next]_vars => CircuitIsNeverLost'
<1> SUFFICES ASSUME TypeOK, CircuitIsNeverLost, [Next]_vars PROVE CircuitIsNeverLost'
  OBVIOUS
<1> USE DEF CircuitIsNeverLost
<1>1. ASSUME NEW g \in Groups, DelegatedStart(g) PROVE CircuitIsNeverLost'
  BY <1>1 DEF DelegatedStart, Recovering
<1>2. ASSUME NEW g \in Groups, Start(g) PROVE CircuitIsNeverLost'
  <2>1. NewRecovery(g).previous = Circuit
    BY <1>2 DEF Start, MayStart, NewRecovery
  <2>2. active' = [active EXCEPT ![g] = NewRecovery(g)] /\ UNCHANGED route
    BY <1>2 DEF Start
  <2>3. NewRecovery(g) \in Recovery
    BY <1>2, DelaysAssumption, NamesAssumption
       DEF NewRecovery, Recovery, TypeOK, Times, Courses
  <2>4. NewRecovery(g) # NoRecovery
    BY <2>3, NoRecoveryAssumption
  <2> HIDE DEF CircuitIsNeverLost
  <2>5. ASSUME NEW h \in Groups
        PROVE  /\ ~Recovering(h)' => route'[h] = Circuit
               /\ Recovering(h)' => active'[h].previous = Circuit
    <3>1. CASE h = g
      BY <2>1, <2>2, <2>4, <3>1 DEF TypeOK, Recovering
    <3>2. CASE h # g
      BY <2>2, <3>2 DEF TypeOK, Recovering, CircuitIsNeverLost
    <3> QED
      BY <3>1, <3>2
  <2> QED
    BY <2>5 DEF CircuitIsNeverLost
<1>3. ASSUME NEW g \in Groups, Restore(g) PROVE CircuitIsNeverLost'
  <2>1. CASE RestoreSucceeds(g)
    BY <2>1, ResumesFact DEF TypeOK, Recovering
  <2>2. CASE CannotResume(g)
    <3>1. UNCHANGED route /\ Recovering(g) /\ Recovering(g)'
          /\ active' = [active EXCEPT ![g] = active'[g]]
          /\ active'[g].previous = active[g].previous
      BY <2>2, FailsFact DEF RestoreFails, CannotResume, SameRecovery
    <3>2. \A h \in Groups \ {g} : active'[h] = active[h]
      BY <3>1 DEF TypeOK
    <3> QED
      BY <3>1, <3>2 DEF Recovering
  <2> QED
    BY <1>3, <2>1, <2>2 DEF Restore
<1>4. ASSUME NEW tm \in timers, Monitor(tm) PROVE CircuitIsNeverLost'
  <2> DEFINE g == tm.group
  <2>1. g \in Groups
    BY DEF TypeOK, Timer
  <2>2. CASE ~MonitorsRecovery(tm)
    BY <1>4, <2>2, MonitorFact DEF Recovering
  <2>3. CASE MonitorsRecovery(tm) /\ Ended(tm)
    BY <2>1, <2>3 DEF Ended, MonitorsRecovery, Recovering, TypeOK
  <2>4. CASE HandedOver(tm)
    BY <2>4 DEF HandedOver, Recovering
  <2>5. ASSUME MonitorsRecovery(tm), NEW d \in {FastPoll, SlowPoll}, GoesOn(tm, d)
        PROVE  CircuitIsNeverLost'
    <3>1. /\ active' = [active EXCEPT ![g] = active'[g]]
          /\ active'[g] \in Recovery
          /\ active'[g].previous = active[g].previous
          /\ route' = route \/ route' = [route EXCEPT ![g] = sea[g].plan]
          /\ Recovering(g)
      BY <2>5 DEF GoesOn, SameRecovery, MonitorsRecovery
    <3>2. Recovering(g)'
      BY <3>1, NoRecoveryAssumption DEF Recovering
    <3>3. \A h \in Groups \ {g} : active'[h] = active[h] /\ route'[h] = route[h]
      BY <3>1 DEF TypeOK
    <3> QED
      BY <2>1, <3>1, <3>2, <3>3 DEF Recovering
  <2> QED
    BY <1>4, <2>2, <2>3, <2>4, <2>5, MonitorFact
<1>5. CASE Tick
  BY <1>5 DEF Tick, Recovering
<1>6. ASSUME NEW g \in Groups, FootholdLoads(g) \/ FootholdEnds(g)
      PROVE  CircuitIsNeverLost'
  BY <1>6 DEF FootholdLoads, FootholdEnds, Recovering
<1>7. CASE MissionRestart
  BY <1>7 DEF MissionRestart, Recovering
<1>8. CASE UNCHANGED vars
  BY <1>8 DEF vars, Recovering
<1> QED
  BY <1>1, <1>2, <1>3, <1>4, <1>5, <1>6, <1>7, <1>8 DEF Next

\* A ship without a recovery is on its normal circuit, and a recovery always
\* knows the way back to it.
THEOREM CircuitKept == Spec => []CircuitIsNeverLost
<1>1. Init => CircuitIsNeverLost
  BY DEF Init, CircuitIsNeverLost, Recovering
<1> QED
  BY <1>1, TypeCorrect, StepCircuit, PTL DEF Spec

-----------------------------------------------------------------------------
(* A recovery is over in bounded time, and turns the ship as announced     *)

NotYetFailed(g) ==
  Recovering(g) /\ g \notin bc /\ active[g].lastRestoreFailureAt = Never

\* Inductive form: no callback is overdue; the callback of a recovery that
\* never failed to resume comes by the end of its phase; a ship that was
\* turned was turned after its announced time.
Timely ==
  /\ \A t \in timers : now <= t.due
  /\ \A g \in Groups : NotYetFailed(g) =>
       /\ OnSchedule(active[g])
       /\ \A t \in timers : t.group = g /\ t.generation = active[g].generation =>
            t.due <= DueBy(active[g])
  /\ \A g \in Groups : Recovering(g) /\ active[g].phase # "pending" =>
       active[g].executeAt <= now

LEMMA AgainTimely ==
  ASSUME TypeOK, Pairing, Timely, NEW tm \in timers, MonitorsRecovery(tm),
         tm.due <= now, UNCHANGED <<now, bc>>,
         NEW d \in {FastPoll, SlowPoll}, GoesOn(tm, d), OnTime(tm, d), AsAnnounced(tm)
  PROVE  Timely'
<1> DEFINE g == tm.group
           n == [tm EXCEPT !.due = now + d]
<1>1. /\ g \in Groups /\ n.group = g /\ n.generation = tm.generation
      /\ n.due = now + d /\ tm.due \in Nat /\ now \in Nat /\ d \in Nat
  BY DelaysAssumption DEF TypeOK, Timer
<1>2. timers' = (timers \ {tm}) \cup {n}
  BY DEF GoesOn, Again
<1> HIDE DEF n
<1>3. /\ \A h \in Groups \ {g} : active'[h] = active[h]
      /\ SameRecovery(active[g], active'[g])
      /\ Recovering(g) /\ active[g].generation = tm.generation
  BY DEF GoesOn, TypeOK, MonitorsRecovery
<1>4. \A t \in timers' : now' <= t.due
  BY <1>1, <1>2 DEF Timely
<1>5. ASSUME NEW h \in Groups, NotYetFailed(h)'
      PROVE  /\ OnSchedule(active'[h])
             /\ \A t \in timers' : t.group = h /\ t.generation = active'[h].generation =>
                  t.due <= DueBy(active'[h])
  <2>1. CASE h = g
    <3>1. NotYetFailed(g)
      BY <1>3, <1>5, <2>1 DEF NotYetFailed, SameRecovery
    <3>2. now = tm.due /\ Punctual(active[g], now)
      BY <1>1, <1>3, <3>1 DEF Timely, Punctual
    <3>3. Punctual(active'[g], now + d)
      BY <1>5, <2>1, <3>2 DEF OnTime, NotYetFailed
    <3>4. ASSUME NEW t \in timers', t.generation = active'[g].generation
          PROVE  t = n
      BY <1>2, <1>3, <3>4 DEF SameRecovery, Pairing
    <3> QED
      BY <1>1, <2>1, <3>3, <3>4 DEF Punctual
  <2>2. CASE h # g
    <3>1. active'[h] = active[h] /\ NotYetFailed(h)
      BY <1>3, <1>5, <2>2 DEF NotYetFailed, Recovering
    <3> QED
      BY <1>1, <1>2, <2>2, <3>1 DEF Timely
  <2> QED
    BY <2>1, <2>2
<1>6. ASSUME NEW h \in Groups, Recovering(h)', active'[h].phase # "pending"
      PROVE  active'[h].executeAt <= now'
  <2>1. CASE h = g
    BY <1>1, <1>3, <1>6, <2>1 DEF AsAnnounced, Timely, SameRecovery, TypeOK, Recovering, Recovery
  <2>2. CASE h # g
    BY <1>3, <1>6, <2>2 DEF Timely, Recovering
  <2> QED
    BY <2>1, <2>2
<1> QED
  BY <1>4, <1>5, <1>6 DEF Timely

\* Steps that schedule nothing and leave recoveries as they are, or drop them.
LEMMA QuietTimely ==
  ASSUME TypeOK, Timely, timers' \subseteq timers, UNCHANGED now, bc \subseteq bc',
         \A g \in Groups : Recovering(g)' =>
           /\ Recovering(g)
           /\ \/ active'[g] = active[g]
              \/ /\ active'[g].lastRestoreFailureAt # Never
                 /\ active'[g].phase = active[g].phase
                 /\ active'[g].executeAt = active[g].executeAt
  PROVE  Timely'
<1>1. \A t \in timers' : now' <= t.due
  BY DEF Timely
<1>2. ASSUME NEW h \in Groups, NotYetFailed(h)'
      PROVE  NotYetFailed(h) /\ active'[h] = active[h]
  BY <1>2 DEF NotYetFailed
<1>3. ASSUME NEW h \in Groups, Recovering(h)', active'[h].phase # "pending"
      PROVE  active'[h].executeAt <= now'
  BY <1>3 DEF Timely
<1> QED
  BY <1>1, <1>2, <1>3 DEF Timely

LEMMA StepTimely == TypeOK /\ Pairing /\ Timely /\ [Next]_vars => Timely'
<1> SUFFICES ASSUME TypeOK, Pairing, Timely, [Next]_vars PROVE Timely'
  OBVIOUS
<1>1. ASSUME NEW g \in Groups, DelegatedStart(g) PROVE Timely'
  BY <1>1, QuietTimely DEF DelegatedStart, Recovering
<1>2. ASSUME NEW g \in Groups, Start(g) PROVE Timely'
  <2> DEFINE n == [group |-> g, generation |-> generation + 1, due |-> now + FastPoll]
             r == NewRecovery(g)
  <2>1. /\ timers' = timers \cup {n} /\ active' = [active EXCEPT ![g] = r]
        /\ generation \in Nat /\ now \in Nat /\ UNCHANGED <<now, bc>>
    BY <1>2 DEF Start, TypeOK
  <2>2. /\ r.phase = "pending" /\ r.generation = generation + 1
        /\ r.executeAt = now + TurnDelay
    BY DEF NewRecovery
  <2>3. /\ n.group = g /\ n.generation = generation + 1 /\ n.due = now + FastPoll
    OBVIOUS
  <2> HIDE DEF n, r
  <2>4. /\ active'[g] = r
        /\ \A h \in Groups \ {g} : active'[h] = active[h]
    BY <2>1 DEF TypeOK
  <2>5. \A t \in timers : t.generation \in Nat /\ t.generation # generation + 1
    BY <2>1 DEF Pairing, TypeOK, Timer
  <2>6. \A t \in timers' : now' <= t.due
    BY <2>1, <2>3, DelaysAssumption DEF Timely
  <2>7. ASSUME NEW h \in Groups, NotYetFailed(h)'
        PROVE  /\ OnSchedule(active'[h])
               /\ \A t \in timers' :
                    t.group = h /\ t.generation = active'[h].generation =>
                      t.due <= DueBy(active'[h])
    <3>1. CASE h = g
      <4>1. OnSchedule(r)
        BY <2>2 DEF OnSchedule
      <4>2. n.due <= DueBy(r)
        BY <2>1, <2>2, <2>3, DelaysAssumption DEF DueBy
      <4> QED
        BY <2>1, <2>2, <2>4, <2>5, <3>1, <4>1, <4>2
    <3>2. CASE h # g
      <4>1. NotYetFailed(h) /\ active'[h] = active[h]
        BY <2>1, <2>4, <2>7, <3>2 DEF NotYetFailed, Recovering
      <4> QED
        BY <2>1, <2>3, <3>2, <4>1 DEF Timely
    <3> QED
      BY <3>1, <3>2
  <2>8. ASSUME NEW h \in Groups, Recovering(h)', active'[h].phase # "pending"
        PROVE  active'[h].executeAt <= now'
    BY <2>1, <2>2, <2>4, <2>8 DEF Timely, Recovering
  <2> QED
    BY <2>6, <2>7, <2>8 DEF Timely
<1>3. ASSUME NEW g \in Groups, Restore(g) PROVE Timely'
  <2>1. UNCHANGED <<now, timers, bc>>
    BY <1>3 DEF Restore
  <2>2. CASE RestoreSucceeds(g)
    <3>1. \A h \in Groups : Recovering(h)' => Recovering(h) /\ active'[h] = active[h]
      BY <2>2, ResumesFact DEF TypeOK, Recovering
    <3> QED
      BY <2>1, <3>1, QuietTimely
  <2>3. CASE CannotResume(g)
    <3>1. /\ active' = [active EXCEPT ![g] = active'[g]]
          /\ Recovering(g)
          /\ SameRecovery(active[g], active'[g])
          /\ active'[g].phase = active[g].phase
          /\ active'[g].lastRestoreFailureAt # Never
      BY <2>3, FailsFact DEF RestoreFails, CannotResume
    <3>2. \A h \in Groups \ {g} : active'[h] = active[h]
      BY <3>1 DEF TypeOK
    <3> QED
      BY <2>1, <3>1, <3>2, QuietTimely DEF SameRecovery, Recovering
  <2> QED
    BY <1>3, <2>2, <2>3 DEF Restore
<1>4. ASSUME NEW tm \in timers, Monitor(tm) PROVE Timely'
  <2> DEFINE g == tm.group
  <2>1. g \in Groups /\ UNCHANGED <<now, bc>>
    BY <1>4, MonitorFact DEF TypeOK, Timer
  <2>2. CASE ~MonitorsRecovery(tm) \/ HandedOver(tm)
    <3>1. timers' \subseteq timers /\ UNCHANGED active
      BY <1>4, <2>2, MonitorFact DEF HandedOver, Dies
    <3> QED
      BY <2>1, <3>1, QuietTimely DEF Recovering
  <2>3. CASE MonitorsRecovery(tm) /\ Ended(tm)
    <3>1. timers' \subseteq timers /\ active' = [active EXCEPT ![g] = NoRecovery]
      BY <2>3 DEF Ended, Dies
    <3>2. \A h \in Groups : Recovering(h)' => Recovering(h) /\ active'[h] = active[h]
      BY <2>1, <3>1 DEF TypeOK, Recovering
    <3> QED
      BY <2>1, <3>1, <3>2, QuietTimely
  <2>4. ASSUME MonitorsRecovery(tm), NEW d \in {FastPoll, SlowPoll},
               GoesOn(tm, d), OnTime(tm, d), AsAnnounced(tm)
        PROVE  Timely'
    <3>1. tm.due <= now
      BY <1>4, MonitorFact
    <3> QED
      BY <2>1, <2>4, <3>1, AgainTimely
  <2> QED
    BY <1>4, <2>2, <2>3, <2>4, MonitorFact
<1>5. CASE Tick
  <2>1. /\ now' = now + 1 /\ UNCHANGED <<timers, active, bc>> /\ now \in Nat
        /\ \A t \in timers : t.due \in Nat /\ t.due > now
    BY <1>5 DEF Tick, TypeOK, Timer
  <2>2. \A t \in timers' : now' <= t.due
    BY <2>1
  <2>3. \A h \in Groups : Recovering(h) => active[h].executeAt \in Nat
    BY DEF TypeOK, Recovering, Recovery
  <2>4. ASSUME NEW h \in Groups, Recovering(h)', active'[h].phase # "pending"
        PROVE  active'[h].executeAt <= now'
    <3>1. active[h].executeAt \in Nat /\ active[h].executeAt <= now
      BY <2>1, <2>3, <2>4 DEF Timely, Recovering
    <3> QED
      BY <2>1, <3>1
  <2> QED
    BY <2>1, <2>2, <2>4 DEF Timely, NotYetFailed, Recovering
<1>6. ASSUME NEW g \in Groups, FootholdLoads(g) \/ FootholdEnds(g) PROVE Timely'
  BY <1>6, QuietTimely DEF FootholdLoads, FootholdEnds, Recovering
<1>7. CASE MissionRestart
  BY <1>7 DEF MissionRestart, Timely, Recovering, NotYetFailed
<1>8. CASE UNCHANGED vars
  BY <1>8, QuietTimely DEF vars, Recovering
<1> QED
  BY <1>1, <1>2, <1>3, <1>4, <1>5, <1>6, <1>7, <1>8 DEF Next

LEMMA TimelyBound == TypeOK /\ Pairing /\ Timely => RecoveryIsBounded
<1> SUFFICES ASSUME TypeOK, Pairing, Timely,
                    NEW g \in Groups, NotYetFailed(g)
             PROVE  now <= active[g].executeAt + LongestRecovery
  BY DEF RecoveryIsBounded, NotYetFailed
<1> DEFINE r == active[g]
<1>1. r \in Recovery /\ now \in Nat
  BY DEF TypeOK, NotYetFailed, Recovering
<1>2. PICK t \in timers : t.group = g /\ t.generation = r.generation
  BY DEF Pairing, NotYetFailed
<1>3. OnSchedule(r) /\ now <= t.due /\ t.due <= DueBy(r) /\ t.due \in Nat
  BY <1>2 DEF Timely, TypeOK, Timer
<1>4. r.phase \in {"pending", "aligning", "active"} /\ r.executeAt \in Nat
  BY <1>1 DEF Recovery
<1> HIDE DEF r
<1>5. r.phase = "pending" => now <= r.executeAt + LongestRecovery
  BY <1>1, <1>3, <1>4, DelaysAssumption DEF DueBy, LongestRecovery
<1>6. r.phase = "aligning" => now <= r.executeAt + LongestRecovery
  BY <1>1, <1>3, <1>4, DelaysAssumption DEF DueBy, OnSchedule, LongestRecovery
<1>7. r.phase = "active" => now <= r.executeAt + LongestRecovery
  BY <1>1, <1>3, <1>4, DelaysAssumption DEF DueBy, OnSchedule, LongestRecovery
<1>8. now <= r.executeAt + LongestRecovery
  BY <1>4, <1>5, <1>6, <1>7
<1> QED
  BY <1>8 DEF r

LEMMA InitTimely == Init => Pairing /\ Timely
  BY DEF Init, Pairing, Timely, NotYetFailed, Recovering

\* A recovery that never failed to resume and was not taken over by Foothold
\* is over within LongestRecovery of its announced turn, for all settings.
THEOREM BoundedRecovery == Spec => []RecoveryIsBounded
  BY InitTimely, TypeCorrect, StepPairing, StepTimely, TimelyBound, PTL DEF Spec

LEMMA StepAnnounced ==
  TypeOK /\ CircuitIsNeverLost /\ Timely /\ [Next]_vars => Announced \/ UNCHANGED vars
<1> SUFFICES ASSUME TypeOK, CircuitIsNeverLost, Timely, Next,
                    NEW h \in Groups, route'[h] # route[h], route'[h] # Circuit
             PROVE  /\ Recovering(h)
                    /\ active[h].phase # "active"
                    /\ now >= active[h].executeAt
  BY DEF Announced
<1>1. ASSUME NEW g \in Groups, Restore(g) PROVE FALSE
  BY <1>1, ResumesFact DEF Restore, CannotResume, CircuitIsNeverLost, TypeOK
<1>2. ASSUME NEW tm \in timers, Monitor(tm)
      PROVE  /\ Recovering(h)
             /\ active[h].phase # "active"
             /\ now >= active[h].executeAt
  <2> DEFINE g == tm.group
  <2>1. g \in Groups
    BY DEF TypeOK, Timer
  <2>2. CASE ~MonitorsRecovery(tm) \/ HandedOver(tm)
    BY <1>2, <2>2, MonitorFact DEF HandedOver
  <2>3. CASE MonitorsRecovery(tm) /\ Ended(tm)
    BY <2>1, <2>3 DEF Ended, CircuitIsNeverLost, MonitorsRecovery, TypeOK
  <2>4. ASSUME MonitorsRecovery(tm), NEW d \in {FastPoll, SlowPoll},
               GoesOn(tm, d), AsAnnounced(tm)
        PROVE  /\ Recovering(h)
               /\ active[h].phase # "active"
               /\ now >= active[h].executeAt
    <3>1. h = g /\ Recovering(h)
      BY <2>1, <2>4 DEF GoesOn, TypeOK, MonitorsRecovery
    <3>2. now \in Nat /\ active[h].executeAt \in Nat
      BY <3>1 DEF TypeOK, Recovering, Recovery
    <3>3. route' # route
      OBVIOUS
    <3> QED
      BY <2>4, <3>1, <3>2, <3>3 DEF AsAnnounced, Timely
  <2> QED
    BY <1>2, <2>2, <2>3, <2>4, MonitorFact
<1>3. CASE MissionRestart
  BY <1>3 DEF MissionRestart
<1>4. CASE \/ \E g \in Groups : DelegatedStart(g) \/ Start(g)
           \/ Tick
           \/ \E g \in Groups : FootholdLoads(g) \/ FootholdEnds(g)
  BY <1>4 DEF DelegatedStart, Start, Tick, FootholdLoads, FootholdEnds
<1> QED
  BY <1>1, <1>2, <1>3, <1>4 DEF Next

\* While the window is open the ship gets no other recovery course, and it is
\* never turned into wind before the announced time.
THEOREM TurnedAsAnnounced == Spec => TurnsAsAnnounced
<1>1. Init => CircuitIsNeverLost
  BY DEF Init, CircuitIsNeverLost, Recovering
<1>2. TypeOK /\ CircuitIsNeverLost /\ Timely /\ [Next]_vars => [Announced]_vars
  BY StepAnnounced
<1> QED
  BY <1>1, <1>2, InitTimely, TypeCorrect, StepPairing, StepTimely, StepCircuit,
     PTL DEF Spec, TurnsAsAnnounced
=============================================================================
