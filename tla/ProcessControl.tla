---------------------------- MODULE ProcessControl ----------------------------
(***************************************************************************)
(* Start, Stop and Restart of one server process (DCS or SRS) from the     *)
(* dashboard (rust-web-dashboard/src/routes/system.rs), together with the  *)
(* watchdog and the start script that run on the server's desktop          *)
(* (services/Watchdog-DCS-SRS.ps1, Start-DCS.ps1, Start-SRS.ps1).          *)
(*                                                                         *)
(* Three kinds of actor share the process table and one stop flag file     *)
(* without a lock: HTTP requests, the watchdog, and at most two start      *)
(* scripts, one run by the scheduled task and one by the watchdog.  Each   *)
(* of their awaits, PowerShell calls and file accesses is one step.  The   *)
(* task also runs when the Tasks page starts it and, if it was registered  *)
(* with -AtLogOn instead of a watchdog, whenever its user logs on.         *)
(*                                                                         *)
(* Waits that end at a time limit may end at any moment.  The process is a *)
(* count of live instances and a count of killed ones that have not left   *)
(* the process table; both are "running" for Get-Process.                  *)
(***************************************************************************)
EXTENDS Naturals

CONSTANTS
  Requests,     \* POST .../dcs-process requests in progress at one time
  Flaky,        \* host operations (kill, file write, task, launch) may fail
  MaxProcesses  \* bound: instances START_CMD is allowed to pile up

ASSUME FlakyAssumption == Flaky \in BOOLEAN
ASSUME MaxProcessesAssumption == MaxProcesses \in Nat \ {0}

Starters == {"task", "watchdog"}

VARIABLES
  config,    \* how the dashboard is set up to start the process
  guardian,  \* what Register-DcsSrsTasks set up to start it at logon
  alive,     \* running instances
  dying,     \* killed instances still in the process table
  flag,      \* the file dashboard_stop_*.flag
  request,   \* request[r]: the next await of process_action, and its action
  script,    \* script[s]: progress of the start script run by s
  watchdog   \* progress of the watchdog's loop

processVars == <<config, guardian, alive, dying, flag, request, script, watchdog>>

Actions == {"start", "stop", "restart"}
Steps == {"kill", "wait", "write flag", "remove flag", "launch", "watch"}
Idle == [action |-> "none", at |-> "idle"]
InProgress == [action : Actions, at : Steps]
Setups == {"task", "command", "nothing"}
Guardians == {"watchdog", "task at logon", "nobody"}
ScriptStates == {"idle", "looking", "launching"}
WatchdogStates == {"asleep", "not running", "starting"}

ProcessTypeOK ==
  /\ config \in Setups
  /\ guardian \in Guardians
  /\ alive \in Nat /\ dying \in Nat
  /\ flag \in {"present", "absent"}
  /\ request \in [Requests -> InProgress \cup {Idle}]
  /\ script \in [Starters -> ScriptStates]
  /\ watchdog \in WatchdogStates

Flagged == flag = "present"

\* Get-Process finds an instance.
Running == alive + dying > 0

-----------------------------------------------------------------------------
(* process_action: stop_target, then start_target                          *)

Moves(r, step) == request' = [request EXCEPT ![r].at = step]
Answers(r) == request' = [request EXCEPT ![r] = Idle]

\* Fault: an action that is not known is not refused.
AcceptsAnything(action) == action # "none"

Accepts(action) == action \in Actions

\* Any other action is answered 400 and changes nothing.
Receive(r, action) ==
  /\ Accepts(action)
  /\ request[r] = Idle
  /\ request' = [request EXCEPT ![r] =
       [action |-> action,
        at |-> IF action = "start" THEN "remove flag" ELSE "kill"]]
  /\ UNCHANGED <<config, guardian, alive, dying, flag, script, watchdog>>

\* Stop-Process; its failure is ignored.
Kill(r) ==
  /\ request[r].at = "kill"
  /\ \/ alive' = 0 /\ dying' = dying + alive
     \/ Flaky /\ UNCHANGED <<alive, dying>>
  /\ Moves(r, "wait")
  /\ UNCHANGED <<config, guardian, flag, script, watchdog>>

\* Wait-Process returns when the process is gone or after STOP_WAIT_SECS.
Wait(r) ==
  /\ request[r].at = "wait"
  /\ Moves(r, "write flag")
  /\ UNCHANGED <<config, guardian, alive, dying, flag, script, watchdog>>

WriteFlag(r) ==
  /\ request[r].at = "write flag"
  /\ flag' = "present" \/ (Flaky /\ UNCHANGED flag)
  /\ IF request[r].action = "stop" THEN Answers(r) ELSE Moves(r, "remove flag")
  /\ UNCHANGED <<config, guardian, alive, dying, script, watchdog>>

RemoveFlag(r) ==
  /\ request[r].at = "remove flag"
  /\ flag' = "absent" \/ (Flaky /\ UNCHANGED flag)
  /\ Moves(r, "launch")
  /\ UNCHANGED <<config, guardian, alive, dying, script, watchdog>>

\* schtasks /run.  An instance of the task that still runs makes it a no-op
\* (MultipleInstances = IgnoreNew), which schtasks reports as success.
RunTask(r) ==
  /\ config = "task"
  /\ \/ /\ script["task"] = "idle"
        /\ script' = [script EXCEPT !["task"] = "looking"]
        /\ Moves(r, "watch")
     \/ script["task"] # "idle" /\ UNCHANGED script /\ Moves(r, "watch")
     \/ Flaky /\ UNCHANGED script /\ (Moves(r, "watch") \/ Answers(r))
  /\ UNCHANGED alive

\* start_via_command launches whatever is running already.
RunCommand(r) ==
  /\ config = "command"
  /\ alive + dying < MaxProcesses
  /\ alive' = alive + 1 \/ (Flaky /\ UNCHANGED alive)
  /\ Answers(r)
  /\ UNCHANGED script

NotConfigured(r) ==
  /\ config = "nothing"
  /\ Answers(r)
  /\ UNCHANGED <<alive, script>>

Launch(r) ==
  /\ request[r].at = "launch"
  /\ RunTask(r) \/ RunCommand(r) \/ NotConfigured(r)
  /\ UNCHANGED <<config, guardian, dying, flag, watchdog>>

\* start_via_task saw the process and answers success.
ReportsRunning(r) == request[r].at = "watch" /\ Running /\ Answers(r)

\* Its task ended with an error, or nothing showed up in time; a Get-Process
\* that cannot run counts as nothing.
ReportsFailure(r) ==
  request[r].at = "watch" /\ (~Running \/ Flaky) /\ Answers(r)

Report(r) ==
  /\ ReportsRunning(r) \/ ReportsFailure(r)
  /\ UNCHANGED <<config, guardian, alive, dying, flag, script, watchdog>>

\* The dashboard service stops, or the browser goes away: the handler is
\* dropped at the await it has reached.
Abandon(r) ==
  /\ request[r] # Idle
  /\ Answers(r)
  /\ UNCHANGED <<config, guardian, alive, dying, flag, script, watchdog>>

-----------------------------------------------------------------------------
(* Start-DCS.ps1 / Start-SRS.ps1                                           *)

\* Fault: the restart race guard is missing.
PassesUnguarded(s) == script[s] = "looking" /\ dying = 0

PassesGuard(s) == script[s] = "looking" /\ ~Running

\* The process is launched (exit 0) or cannot be (exit 2).
ScriptLaunches(s) ==
  /\ script[s] = "launching"
  /\ alive' = alive + 1 \/ (Flaky /\ UNCHANGED alive)
  /\ script' = [script EXCEPT ![s] = "idle"]

\* "restart race guard": wait up to WaitForExitSec for the old instance.
Script(s) ==
  /\ \/ /\ PassesGuard(s)
        /\ script' = [script EXCEPT ![s] = "launching"]
        /\ UNCHANGED alive
     \/ /\ script[s] = "looking"        \* still there: skip start, exit 0
        /\ Running
        /\ script' = [script EXCEPT ![s] = "idle"]
        /\ UNCHANGED alive
     \/ /\ script[s] = "looking"        \* no executable or config: exit 1
        /\ Flaky
        /\ script' = [script EXCEPT ![s] = "idle"]
        /\ UNCHANGED alive
     \/ ScriptLaunches(s)
  /\ UNCHANGED <<config, guardian, dying, flag, request, watchdog>>

\* The task runs, whatever the flag says; not while it runs already.
TaskRuns ==
  /\ script["task"] = "idle"
  /\ script' = [script EXCEPT !["task"] = "looking"]
  /\ UNCHANGED <<config, guardian, alive, dying, flag, request, watchdog>>

\* tasks_post, on the Tasks page: Start, or Restart after the Stop.
StartTask == TaskRuns

\* tasks_post: Stop; or the task's time limit of five minutes.
StopTask ==
  /\ script["task"] # "idle"
  /\ script' = [script EXCEPT !["task"] = "idle"]
  /\ UNCHANGED <<config, guardian, alive, dying, flag, request, watchdog>>

\* -AtLogOn: the user logs on, after a reboot or a sign-out.
LogOn == guardian = "task at logon" /\ TaskRuns

-----------------------------------------------------------------------------
(* Watchdog-DCS-SRS.ps1: one Ensure-Running per round                      *)

WatchdogLooks ==
  /\ guardian = "watchdog"
  /\ watchdog = "asleep"
  /\ ~Running
  /\ watchdog' = "not running"
  /\ UNCHANGED <<config, guardian, alive, dying, flag, request, script>>

\* Fault: the watchdog does not read the flag.
StartsRegardless == watchdog = "not running"

\* Fault: the flag is read the wrong way round.
StartsWhenFlagged == watchdog = "not running" /\ Flagged

MayStart == watchdog = "not running" /\ ~Flagged

WatchdogStarts ==
  /\ MayStart
  /\ watchdog' = "starting"
  /\ script' = [script EXCEPT !["watchdog"] = "looking"]
  /\ UNCHANGED <<config, guardian, alive, dying, flag, request>>

\* "stopped from the dashboard -> leave it"
WatchdogLeavesIt ==
  /\ watchdog = "not running"
  /\ ~MayStart
  /\ watchdog' = "asleep"
  /\ UNCHANGED <<config, guardian, alive, dying, flag, request, script>>

\* The start script returned; cool down and sleep.
WatchdogReturns ==
  /\ watchdog = "starting"
  /\ script["watchdog"] = "idle"
  /\ watchdog' = "asleep"
  /\ UNCHANGED <<config, guardian, alive, dying, flag, request, script>>

Watchdog == WatchdogLooks \/ WatchdogStarts \/ WatchdogLeavesIt \/ WatchdogReturns

-----------------------------------------------------------------------------
(* The host                                                                *)

Crash ==
  /\ alive > 0
  /\ alive' = alive - 1
  /\ UNCHANGED <<config, guardian, dying, flag, request, script, watchdog>>

Exit ==
  /\ dying > 0
  /\ dying' = dying - 1
  /\ UNCHANGED <<config, guardian, alive, flag, request, script, watchdog>>

\* Only the flag file survives; the watchdog task fires again at logon and
\* its start-up pass is the same Ensure-Running.
Reboot ==
  /\ alive' = 0 /\ dying' = 0
  /\ request' = [r \in Requests |-> Idle]
  /\ script' = [s \in Starters |-> "idle"]
  /\ watchdog' = "asleep"
  /\ UNCHANGED <<config, guardian, flag>>

ProcessInit ==
  /\ config \in Setups
  /\ guardian \in Guardians
  /\ alive = 0 /\ dying = 0
  /\ flag \in {"present", "absent"}
  /\ request = [r \in Requests |-> Idle]
  /\ script = [s \in Starters |-> "idle"]
  /\ watchdog = "asleep"

ProcessNext ==
  \/ \E r \in Requests :
       \/ \E action \in Actions \cup {"reload"} : Receive(r, action)
       \/ Kill(r) \/ Wait(r) \/ WriteFlag(r) \/ RemoveFlag(r)
       \/ Launch(r) \/ Report(r) \/ Abandon(r)
  \/ \E s \in Starters : Script(s)
  \/ StartTask \/ StopTask \/ LogOn
  \/ Watchdog
  \/ Crash \/ Exit \/ Reboot

ProcessSpec == ProcessInit /\ [][ProcessNext]_processVars

\* The watchdog's script ends without having found or launched the process.
WatchdogScriptFails ==
  /\ script["watchdog"] # "idle" /\ script'["watchdog"] = "idle"
  /\ ~Running /\ alive' = alive

\* The watchdog's loop and the scripts it waits for keep running, killed
\* processes leave the process table, and neither do launches fail nor is the
\* host rebooted for ever.
ProcessFairness ==
  /\ WF_processVars(WatchdogLooks)
  /\ WF_processVars(WatchdogStarts \/ WatchdogLeavesIt)
  /\ WF_processVars(WatchdogReturns)
  /\ WF_processVars(Script("watchdog"))
  /\ WF_processVars(Exit)
  /\ <>[][~Reboot /\ ~WatchdogScriptFails]_processVars

ProcessFairSpec == ProcessSpec /\ ProcessFairness
-----------------------------------------------------------------------------
(* Properties                                                              *)

\* Two servers on one machine fight over the port and the Saved Games folder.
\* With scheduled tasks the start scripts' check-then-launch admits at most
\* one instance per script that can run at once: one, whatever the requests
\* do, when no watchdog is registered, and two when there is one.
OneProcessPerStarter ==
  config = "task" => alive + dying <= IF guardian = "watchdog" THEN 2 ELSE 1

\* Nothing is on its way to launching the process.
Quiet ==
  /\ \A s \in Starters : script[s] = "idle"
  /\ \A r \in Requests : request[r].at # "launch"

\* A Stop that has settled holds: with the flag there and no start under way,
\* across watchdog rounds, abandoned requests, crashes and reboots, no step adds
\* an instance, and none sets out to but a Start or Restart (which removes the
\* flag first, or fails to) and a run of the start task that is no request's:
\* its Start on the Tasks page, and the logon of a set-up with -AtLogOn. Those
\* two do not read the flag and bring a stopped process back.
Settled ==
  Flagged /\ Flagged' /\ Quiet =>
    /\ alive' <= alive
    /\ Quiet' \/ (\E r \in Requests : RemoveFlag(r)) \/ StartTask \/ LogOn
SettledStopHolds == [][Settled]_processVars

\* The watchdog guards the process: one that has crashed, was lost by a
\* reboot or by a failed or abandoned restart runs again, or somebody has
\* asked for it to be stopped.
CrashIsRepaired == guardian = "watchdog" /\ ~Running /\ ~Flagged ~> Running \/ Flagged

\* "While a flag exists the watchdog leaves that process alone, so a deliberate
\* stop from the dashboard is not undone."
FlagIsHonoured ==
  [][Flagged => ~(ScriptLaunches("watchdog") /\ alive' > alive)]_processVars
=============================================================================
