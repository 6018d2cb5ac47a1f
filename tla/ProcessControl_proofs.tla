------------------------- MODULE ProcessControl_proofs -------------------------
(***************************************************************************)
(* Proofs about ProcessControl for any number of concurrent requests:      *)
(* its types, the bound on the instances the start scripts can leave, and  *)
(* what brings back a process whose Stop has settled.                      *)
(***************************************************************************)
EXTENDS ProcessControl, TLAPS

\* A request at an await is in progress.
LEMMA AtAStep ==
  ASSUME ProcessTypeOK, NEW r \in Requests, request[r].at \in Steps
  PROVE  request[r] \in InProgress
<1>1. Idle.at \notin Steps
  BY DEF Idle, Steps
<1> QED
  BY <1>1 DEF ProcessTypeOK

\* The two ways a handler moves on keep the requests well formed.
LEMMA MovesType ==
  ASSUME ProcessTypeOK, NEW r \in Requests, request[r].at \in Steps,
         NEW step \in Steps, Moves(r, step)
  PROVE  request' \in [Requests -> InProgress \cup {Idle}]
<1>1. [request[r] EXCEPT !.at = step] \in InProgress
  BY AtAStep DEF InProgress
<1> QED
  BY <1>1 DEF Moves, ProcessTypeOK

LEMMA AnswersType ==
  ASSUME ProcessTypeOK, NEW r \in Requests, Answers(r)
  PROVE  request' \in [Requests -> InProgress \cup {Idle}]
BY DEF Answers, ProcessTypeOK

\* Every operation stays within the declared state space.
THEOREM TypeCorrect == ProcessSpec => []ProcessTypeOK
<1>1. ProcessInit => ProcessTypeOK
  BY DEF ProcessInit, ProcessTypeOK, ScriptStates, WatchdogStates, Starters
<1>2. ProcessTypeOK /\ [ProcessNext]_processVars => ProcessTypeOK'
  <2> SUFFICES ASSUME ProcessTypeOK, [ProcessNext]_processVars PROVE ProcessTypeOK'
    OBVIOUS
  <2>1. ASSUME NEW r \in Requests, NEW a \in Actions \cup {"reload"}, Receive(r, a)
        PROVE  ProcessTypeOK'
    <3>1. [action |-> a, at |-> IF a = "start" THEN "remove flag" ELSE "kill"]
            \in InProgress
      BY <2>1 DEF Receive, Accepts, InProgress, Steps
    <3> QED
      BY <2>1, <3>1 DEF Receive, ProcessTypeOK
  <2>2. {"kill", "wait", "write flag", "remove flag", "launch", "watch"} = Steps
    BY DEF Steps
  <2>3. ASSUME NEW r \in Requests, Kill(r) PROVE ProcessTypeOK'
    <3>1. request' \in [Requests -> InProgress \cup {Idle}]
      BY <2>2, <2>3, MovesType DEF Kill
    <3>2. alive' \in Nat /\ dying' \in Nat
      <4>1. alive \in Nat /\ dying \in Nat
        BY DEF ProcessTypeOK
      <4> QED
        BY <2>3, <4>1 DEF Kill
    <3> QED
      BY <2>3, <3>1, <3>2 DEF Kill, ProcessTypeOK
  <2>4. ASSUME NEW r \in Requests, Wait(r) PROVE ProcessTypeOK'
    <3>1. request' \in [Requests -> InProgress \cup {Idle}]
      BY <2>2, <2>4, MovesType DEF Wait
    <3> QED
      BY <2>4, <3>1 DEF Wait, ProcessTypeOK
  <2>5. ASSUME NEW r \in Requests, WriteFlag(r) PROVE ProcessTypeOK'
    <3>1. request' \in [Requests -> InProgress \cup {Idle}]
      BY <2>2, <2>5, MovesType, AnswersType DEF WriteFlag
    <3> QED
      BY <2>5, <3>1 DEF WriteFlag, ProcessTypeOK
  <2>6. ASSUME NEW r \in Requests, RemoveFlag(r) PROVE ProcessTypeOK'
    <3>1. request' \in [Requests -> InProgress \cup {Idle}]
      BY <2>2, <2>6, MovesType DEF RemoveFlag
    <3> QED
      BY <2>6, <3>1 DEF RemoveFlag, ProcessTypeOK
  <2>7. ASSUME NEW r \in Requests, Launch(r) PROVE ProcessTypeOK'
    <3>1. request' \in [Requests -> InProgress \cup {Idle}]
      BY <2>2, <2>7, MovesType, AnswersType
        DEF Launch, RunTask, RunCommand, NotConfigured
    <3>2. alive' \in Nat
      <4>1. alive \in Nat
        BY DEF ProcessTypeOK
      <4> QED
        BY <2>7, <4>1 DEF Launch, RunTask, RunCommand, NotConfigured
    <3>3. script' \in [Starters -> ScriptStates]
      BY <2>7 DEF Launch, RunTask, RunCommand, NotConfigured, ProcessTypeOK, ScriptStates
    <3> QED
      BY <2>7, <3>1, <3>2, <3>3 DEF Launch, ProcessTypeOK
  <2>8. ASSUME NEW r \in Requests, Report(r) \/ Abandon(r) PROVE ProcessTypeOK'
    <3>1. request' \in [Requests -> InProgress \cup {Idle}]
      BY <2>8, AnswersType DEF Report, ReportsRunning, ReportsFailure, Abandon
    <3> QED
      BY <2>8, <3>1 DEF Report, Abandon, ProcessTypeOK
  <2>9. ASSUME NEW s \in Starters, Script(s) PROVE ProcessTypeOK'
    <3>1. alive' \in Nat
      <4>1. alive \in Nat
        BY DEF ProcessTypeOK
      <4> QED
        BY <2>9, <4>1 DEF Script, ScriptLaunches
    <3>2. script' \in [Starters -> ScriptStates]
      BY <2>9 DEF Script, ScriptLaunches, ProcessTypeOK, ScriptStates
    <3> QED
      BY <2>9, <3>1, <3>2 DEF Script, ProcessTypeOK
  <2>10. CASE Watchdog
    BY <2>10 DEF Watchdog, WatchdogLooks, WatchdogStarts, WatchdogLeavesIt,
                 WatchdogReturns, ProcessTypeOK, ScriptStates, WatchdogStates
  <2>11. CASE Crash \/ Exit
    <3>1. alive \in Nat /\ dying \in Nat
      BY DEF ProcessTypeOK
    <3>2. alive' \in Nat /\ dying' \in Nat
      BY <2>11, <3>1 DEF Crash, Exit
    <3> QED
      BY <2>11, <3>2 DEF Crash, Exit, ProcessTypeOK
  <2>12. CASE Reboot
    BY <2>12 DEF Reboot, ProcessTypeOK, ScriptStates, WatchdogStates
  <2>13. CASE UNCHANGED processVars
    BY <2>13 DEF processVars, ProcessTypeOK
  <2>14. CASE StartTask \/ StopTask \/ LogOn
    <3>1. script' \in [Starters -> ScriptStates]
      BY <2>14 DEF StartTask, StopTask, LogOn, TaskRuns, ProcessTypeOK, ScriptStates
    <3> QED
      BY <2>14, <3>1 DEF StartTask, StopTask, LogOn, TaskRuns, ProcessTypeOK
  <2> QED
    BY <2>1, <2>3, <2>4, <2>5, <2>6, <2>7, <2>8, <2>9, <2>10, <2>11, <2>12, <2>13, <2>14
      DEF ProcessNext
<1> QED
  BY <1>1, <1>2, PTL DEF ProcessSpec

-----------------------------------------------------------------------------
\* A script that has passed the restart race guard counts as an instance.
Committed(s) == IF script[s] = "launching" THEN 1 ELSE 0

\* No script of a watchdog that is not registered ever runs.
NoWatchdog ==
  guardian # "watchdog" => script["watchdog"] = "idle" /\ watchdog = "asleep"

Load == alive + dying + Committed("task") + Committed("watchdog")
Limit == IF guardian = "watchdog" THEN 2 ELSE 1

\* Inductive: a script commits only when there is no instance at all.
FewInstances == NoWatchdog /\ (config = "task" => Load <= Limit)

Numbers == /\ alive \in Nat /\ dying \in Nat /\ Limit \in 1 .. 2
           /\ Committed("task") \in 0 .. 1 /\ Committed("watchdog") \in 0 .. 1

LEMMA NumbersInt == (ProcessTypeOK => Numbers) /\ (ProcessTypeOK' => Numbers')
BY DEF ProcessTypeOK, Numbers, Limit, Committed

LEMMA Sums ==
  ASSUME NEW a \in Nat, NEW b \in Nat, NEW c \in Nat, NEW d \in Nat,
         NEW j \in 0 .. 1, NEW k \in 0 .. 1, c + d <= a + b
  PROVE  c + d + j + k <= a + b + j + k
OBVIOUS

\* What does not add to the load keeps it within the limit.
LEMMA NoMoreLoad ==
  ASSUME Load \in Nat, Load' \in Nat, Limit \in Nat, FewInstances, NoWatchdog',
         Load' <= Load, UNCHANGED <<config, guardian>>
  PROVE  FewInstances'
<1>1. Limit' = Limit
  BY DEF Limit
<1>2. CASE config = "task"
  <2>1. Load <= Limit
    BY <1>2 DEF FewInstances
  <2>2. Load' <= Limit
    BY <2>1
  <2> QED
    BY <1>1, <2>2 DEF FewInstances
<1>3. CASE config # "task"
  BY <1>3 DEF FewInstances
<1> QED
  BY <1>2, <1>3

\* In particular what leaves the scripts and the watchdog alone.
LEMMA SameScripts ==
  ASSUME ProcessTypeOK, ProcessTypeOK', FewInstances, alive' + dying' <= alive + dying,
         UNCHANGED <<config, guardian, script, watchdog>>
  PROVE  FewInstances'
<1>1. Numbers /\ Numbers'
  BY NumbersInt
<1>2. NoWatchdog'
  BY DEF FewInstances, NoWatchdog
<1>3. Committed("task")' = Committed("task")
      /\ Committed("watchdog")' = Committed("watchdog")
  BY DEF Committed
<1>4. Load \in Nat /\ Load' \in Nat /\ Limit \in Nat
  BY <1>1 DEF Load, Numbers
<1>5. Load' <= Load
  BY <1>1, <1>3, Sums DEF Load, Numbers
<1> QED
  BY <1>2, <1>4, <1>5, NoMoreLoad

\* A script starts looking or is stopped, which commits it to nothing.
LEMMA NewLook ==
  ASSUME ProcessTypeOK, ProcessTypeOK', FewInstances, NEW s \in Starters,
         NEW step \in {"idle", "looking"}, script' = [script EXCEPT ![s] = step], NoWatchdog',
         UNCHANGED <<config, guardian, alive, dying>>
  PROVE  FewInstances'
<1>1. Numbers /\ Numbers'
  BY NumbersInt
<1>2. ASSUME NEW q \in Starters PROVE Committed(q)' <= Committed(q)
  BY DEF Committed, ProcessTypeOK
<1>3. Committed("task")' <= Committed("task")
      /\ Committed("watchdog")' <= Committed("watchdog")
  BY <1>2 DEF Starters
<1>4. Load' <= Load /\ Load \in Nat /\ Load' \in Nat /\ Limit \in Nat
  BY <1>1, <1>3 DEF Load, Numbers
<1> QED
  BY <1>4, NoMoreLoad

\* A start script's step: only a script that finds no instance commits.
LEMMA ScriptLoad ==
  ASSUME ProcessTypeOK, ProcessTypeOK', FewInstances, NEW s \in Starters, Script(s)
  PROVE  FewInstances'
<1>1. Numbers /\ Numbers'
  BY NumbersInt
<1>2. UNCHANGED <<config, guardian, dying, watchdog>>
  BY DEF Script
<1>3. s = "task" \/ s = "watchdog"
  BY DEF Starters
<1>4. script \in [Starters -> ScriptStates]
  BY DEF ProcessTypeOK
<1>5. NoWatchdog'
  <2>1. script[s] # "idle"
    BY DEF Script, PassesGuard, ScriptLaunches
  <2>2. guardian # "watchdog" => s = "task"
    BY <1>3, <2>1 DEF FewInstances, NoWatchdog
  <2>3. s = "task" => script'["watchdog"] = script["watchdog"]
    BY <1>4 DEF Script, ScriptLaunches, Starters
  <2> QED
    BY <1>2, <2>2, <2>3 DEF FewInstances, NoWatchdog
<1>6. CASE PassesGuard(s)
  <2>1. alive = 0 /\ dying = 0
    BY <1>1, <1>6 DEF PassesGuard, Running, Numbers
  <2>2. UNCHANGED alive
    BY <1>6 DEF Script, PassesGuard, ScriptLaunches
  <2>3. guardian # "watchdog" => Committed("watchdog")' = 0
    BY <1>2, <1>5 DEF NoWatchdog, Committed
  <2>4. Limit' = IF guardian = "watchdog" THEN 2 ELSE 1
    BY <1>2 DEF Limit
  <2>5. Load' <= Limit'
    BY <1>1, <1>2, <2>1, <2>2, <2>3, <2>4 DEF Load, Numbers
  <2> QED
    BY <1>5, <2>5 DEF FewInstances
<1>7. CASE ~PassesGuard(s)
  <2>1. script' = [script EXCEPT ![s] = "idle"]
    BY <1>7 DEF Script, ScriptLaunches
  <2>2. Committed(s)' = 0
    BY <1>4, <2>1 DEF Committed
  <2>3. alive' = alive \/ (Committed(s) = 1 /\ alive' = alive + 1)
    BY <1>7 DEF Script, ScriptLaunches, Committed
  <2>4. ASSUME NEW q \in Starters, q # s PROVE Committed(q)' = Committed(q)
    BY <1>4, <2>1, <2>4 DEF Committed
  <2>5. CASE s = "task"
    <3>1. Committed("watchdog")' = Committed("watchdog")
      BY <2>4, <2>5 DEF Starters
    <3>2. Load' <= Load /\ Load \in Nat /\ Load' \in Nat /\ Limit \in Nat
      BY <1>1, <1>2, <2>2, <2>3, <2>5, <3>1 DEF Load, Numbers
    <3> QED
      BY <1>2, <1>5, <3>2, NoMoreLoad
  <2>6. CASE s = "watchdog"
    <3>1. Committed("task")' = Committed("task")
      BY <2>4, <2>6 DEF Starters
    <3>2. Load' <= Load /\ Load \in Nat /\ Load' \in Nat /\ Limit \in Nat
      BY <1>1, <1>2, <2>2, <2>3, <2>6, <3>1 DEF Load, Numbers
    <3> QED
      BY <1>2, <1>5, <3>2, NoMoreLoad
  <2> QED
    BY <1>3, <2>5, <2>6
<1> QED
  BY <1>6, <1>7

LEMMA FewInstancesInductive ==
  ASSUME ProcessTypeOK, ProcessTypeOK', FewInstances, [ProcessNext]_processVars
  PROVE  FewInstances'
<1>1. Numbers /\ "task" \in Starters /\ "watchdog" \in Starters
      /\ script \in [Starters -> ScriptStates]
  BY NumbersInt DEF Starters, ProcessTypeOK
<1>2. ASSUME UNCHANGED <<config, guardian, alive, dying, script, watchdog>>
      PROVE  FewInstances'
  BY <1>1, <1>2, SameScripts DEF Numbers
<1>3. ASSUME NEW r \in Requests,
             \/ \E a \in Actions \cup {"reload"} : Receive(r, a)
             \/ Wait(r) \/ WriteFlag(r) \/ RemoveFlag(r) \/ Report(r) \/ Abandon(r)
      PROVE  FewInstances'
  BY <1>2, <1>3 DEF Receive, Wait, WriteFlag, RemoveFlag, Report, Abandon
<1>4. ASSUME NEW r \in Requests, Kill(r) PROVE FewInstances'
  <2>1. UNCHANGED <<config, guardian, script, watchdog>>
    BY <1>4 DEF Kill
  <2>2. alive' + dying' <= alive + dying
    BY <1>1, <1>4 DEF Kill, Numbers
  <2> QED
    BY <2>1, <2>2, SameScripts
<1>5. ASSUME NEW r \in Requests, Launch(r) PROVE FewInstances'
  <2>1. UNCHANGED <<config, guardian, dying, watchdog>>
    BY <1>5 DEF Launch
  <2>2. CASE script' = [script EXCEPT !["task"] = "looking"] /\ UNCHANGED alive
    <3>1. NoWatchdog'
      BY <1>1, <2>1, <2>2 DEF FewInstances, NoWatchdog
    <3> QED
      BY <1>1, <2>1, <2>2, <3>1, NewLook
  <2>3. CASE UNCHANGED <<script, alive>>
    BY <1>2, <2>1, <2>3
  <2>4. CASE RunCommand(r)
    <3>1. config' = "command" /\ UNCHANGED script
      BY <2>1, <2>4 DEF RunCommand
    <3> QED
      BY <2>1, <3>1 DEF FewInstances, NoWatchdog
  <2> QED
    BY <1>5, <2>2, <2>3, <2>4 DEF Launch, RunTask, NotConfigured
<1>6. ASSUME NEW s \in Starters, Script(s) PROVE FewInstances'
  BY <1>6, ScriptLoad
<1>7. CASE WatchdogStarts
  <2>1. guardian = "watchdog"
    BY <1>7 DEF WatchdogStarts, MayStart, FewInstances, NoWatchdog
  <2>2. NoWatchdog'
    BY <1>7, <2>1 DEF WatchdogStarts, NoWatchdog
  <2> QED
    BY <1>1, <1>7, <2>2, NewLook DEF WatchdogStarts
<1>8. CASE WatchdogLooks \/ WatchdogLeavesIt \/ WatchdogReturns
  <2>1. UNCHANGED <<config, guardian, alive, dying, script>>
    BY <1>8 DEF WatchdogLooks, WatchdogLeavesIt, WatchdogReturns
  <2>2. guardian # "watchdog" => watchdog' = "asleep"
    BY <1>8 DEF WatchdogLooks, WatchdogLeavesIt, WatchdogReturns
  <2> QED
    BY <2>1, <2>2 DEF FewInstances, NoWatchdog, Committed, Load, Limit
<1>9. CASE Crash \/ Exit
  <2>1. UNCHANGED <<config, guardian, script, watchdog>>
    BY <1>9 DEF Crash, Exit
  <2>2. alive' + dying' <= alive + dying
    BY <1>1, <1>9 DEF Crash, Exit, Numbers
  <2> QED
    BY <2>1, <2>2, SameScripts
<1>10. CASE Reboot
  <2>1. /\ alive' = 0 /\ dying' = 0 /\ watchdog' = "asleep"
        /\ script'["task"] = "idle" /\ script'["watchdog"] = "idle"
    BY <1>1, <1>10 DEF Reboot
  <2>2. Committed("task")' = 0 /\ Committed("watchdog")' = 0
    BY <2>1 DEF Committed
  <2>3. Load' = 0 /\ Limit' \in 1 .. 2
    BY <2>1, <2>2 DEF Load, Limit
  <2> QED
    BY <2>1, <2>3 DEF FewInstances, NoWatchdog
<1>11. CASE UNCHANGED processVars
  BY <1>2, <1>11 DEF processVars
<1>12. CASE StartTask \/ StopTask \/ LogOn
  <2>1. PICK step \in {"idle", "looking"} :
          /\ script' = [script EXCEPT !["task"] = step]
          /\ UNCHANGED <<config, guardian, alive, dying, watchdog>>
    BY <1>12 DEF StartTask, StopTask, LogOn, TaskRuns
  <2>2. NoWatchdog'
    BY <1>1, <2>1 DEF FewInstances, NoWatchdog
  <2> QED
    BY <1>1, <2>1, <2>2, NewLook
<1> QED
  BY <1>3, <1>4, <1>5, <1>6, <1>7, <1>8, <1>9, <1>10, <1>11, <1>12 DEF ProcessNext, Watchdog

\* However requests, watchdog rounds, kills and crashes interleave, the start
\* scripts leave at most two instances of the process, and only one where no
\* watchdog runs.
THEOREM FewProcesses == ProcessSpec => []OneProcessPerStarter
<1>1. ProcessInit => FewInstances
  BY DEF ProcessInit, FewInstances, NoWatchdog, Committed, Load, Limit, Starters
<1>2. FewInstances /\ ProcessTypeOK => OneProcessPerStarter
  BY NumbersInt DEF FewInstances, OneProcessPerStarter, Load, Limit, Numbers
<1> QED
  BY <1>1, <1>2, FewInstancesInductive, TypeCorrect, PTL DEF ProcessSpec

-----------------------------------------------------------------------------
\* No handler comes to the launch except by removing the flag.
LEMMA NoNewLaunch ==
  ASSUME ProcessTypeOK, NEW r \in Requests, NEW step, step # "launch",
         Moves(r, step) \/ Answers(r),
         \A q \in Requests : request[q].at # "launch"
  PROVE  \A q \in Requests : request'[q].at # "launch"
<1>1. Idle.at # "launch"
  BY DEF Idle
<1>2. [request[r] EXCEPT !.at = step].at # "launch"
  <2>1. CASE request[r] = Idle
    BY <2>1 DEF Idle
  <2>2. CASE request[r] \in InProgress
    BY <2>2 DEF InProgress
  <2> QED
    BY <2>1, <2>2 DEF ProcessTypeOK
<1> QED
  BY <1>1, <1>2 DEF Moves, Answers, ProcessTypeOK

\* With the flag there and nothing on its way to a launch, no step launches
\* the process, and none sets out to except a Start or Restart that could not
\* remove the flag and a run of the start task that no request has asked for.
LEMMA SettledStep ==
  ASSUME ProcessTypeOK, [ProcessNext]_processVars
  PROVE  Settled
<1> SUFFICES ASSUME Flagged, Flagged', Quiet
             PROVE  /\ alive' <= alive
                    /\ Quiet' \/ (\E r \in Requests : RemoveFlag(r)) \/ StartTask \/ LogOn
  BY DEF Settled
<1>1. alive \in Nat
  BY DEF ProcessTypeOK
<1>2. ASSUME NEW r \in Requests, NEW a \in Actions \cup {"reload"}, Receive(r, a)
      PROVE  alive' <= alive /\ Quiet'
  <2>1. UNCHANGED <<alive, script>>
    BY <1>2 DEF Receive
  <2>2. \A q \in Requests : request'[q].at # "launch"
    BY <1>2 DEF Receive, Quiet, ProcessTypeOK
  <2> QED
    BY <1>1, <2>1, <2>2 DEF Quiet
<1>3. ASSUME NEW r \in Requests, Kill(r) \/ Wait(r) \/ WriteFlag(r)
      PROVE  alive' <= alive /\ Quiet'
  <2>1. alive' = 0 \/ alive' = alive
    BY <1>3 DEF Kill, Wait, WriteFlag
  <2>2. /\ UNCHANGED script
        /\ Moves(r, "wait") \/ Moves(r, "write flag") \/ Answers(r)
           \/ Moves(r, "remove flag")
    BY <1>3 DEF Kill, Wait, WriteFlag
  <2>3. alive' <= alive
    BY <1>1, <2>1
  <2>4. \A q \in Requests : request'[q].at # "launch"
    BY <2>2, NoNewLaunch DEF Quiet
  <2> QED
    BY <2>2, <2>3, <2>4 DEF Quiet
<1>4. ASSUME NEW r \in Requests, RemoveFlag(r) PROVE alive' <= alive
  <2>1. UNCHANGED alive
    BY <1>4 DEF RemoveFlag
  <2> QED
    BY <1>1, <2>1
<1>5. ASSUME NEW r \in Requests, Launch(r) PROVE FALSE
  BY <1>5 DEF Launch, Quiet
<1>6. ASSUME NEW r \in Requests, Report(r) \/ Abandon(r)
      PROVE  alive' <= alive /\ Quiet'
  <2>1. Answers(r) /\ UNCHANGED <<alive, script>>
    BY <1>6 DEF Report, ReportsRunning, ReportsFailure, Abandon
  <2>2. "idle" # "launch"
    OBVIOUS
  <2> QED
    BY <1>1, <2>1, <2>2, NoNewLaunch DEF Quiet
<1>7. ASSUME NEW s \in Starters, Script(s) PROVE FALSE
  BY <1>7 DEF Script, ScriptLaunches, PassesGuard, Quiet
<1>8. CASE Watchdog
  <2>1. UNCHANGED <<alive, request, script>>
    BY <1>8 DEF Watchdog, WatchdogLooks, WatchdogStarts, WatchdogLeavesIt,
                WatchdogReturns, MayStart
  <2> QED
    BY <1>1, <2>1 DEF Quiet
<1>9. CASE Crash \/ Exit \/ UNCHANGED processVars
  <2>1. UNCHANGED <<request, script>>
    BY <1>9 DEF Crash, Exit, processVars
  <2>2. alive' <= alive
    BY <1>1, <1>9 DEF Crash, Exit, processVars
  <2> QED
    BY <2>1, <2>2 DEF Quiet
<1>10. CASE Reboot
  <2>1. alive' = 0 /\ Quiet'
    BY <1>10 DEF Reboot, Quiet, Idle
  <2> QED
    BY <1>1, <2>1
<1>11. CASE StartTask \/ LogOn
  <2>1. UNCHANGED alive
    BY <1>11 DEF StartTask, LogOn, TaskRuns
  <2> QED
    BY <1>1, <1>11, <2>1
<1>12. CASE StopTask
  BY <1>12 DEF StopTask, Quiet, Starters
<1> QED
  BY <1>2, <1>3, <1>4, <1>5, <1>6, <1>7, <1>8, <1>9, <1>10, <1>11, <1>12 DEF ProcessNext

\* For any number of concurrent requests, with the tasks set up in any way: a
\* settled Stop is undone by nothing but a Start or a Restart, a run of the start
\* task from the Tasks page, and the logon that -AtLogOn has the task run at.
THEOREM SettledStop == ProcessSpec => SettledStopHolds
<1>1. ProcessTypeOK /\ [ProcessNext]_processVars => [Settled]_processVars
  BY SettledStep
<1> QED
  BY <1>1, TypeCorrect, PTL DEF ProcessSpec, SettledStopHolds
=============================================================================
