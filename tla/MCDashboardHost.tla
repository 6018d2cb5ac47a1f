---------------------------- MODULE MCDashboardHost ----------------------------
(***************************************************************************)
(* The host's processes and what the browser asks of the host, in one      *)
(* instance: process control with the watchdog, the pages that poll and    *)
(* act, the feed of on-screen messages, and the session every request      *)
(* carries. They share no state: a behaviour follows one of them (focus)   *)
(* and leaves the others alone, as in MCDashboardLive.                     *)
(***************************************************************************)
EXTENDS ProcessControl, DashboardSession

CONSTANTS
  MaxVersion, MaxInFlight, MaxActions,         \* HostPages
  Feeds, MaxBuffer, MaxMessages, MaxMissions   \* ScreenMessages

VARIABLES
  focus,                                                      \* what is followed
  page, host, shown, answers, actions, busy, told, done, spoilt,   \* HostPages
  mission, module, nextId, buffer, feed, open, lost           \* ScreenMessages

hostVars == <<page, host, shown, answers, actions, busy, told, done, spoilt>>
feedVars == <<mission, module, nextId, buffer, feed, open, lost>>

Host == INSTANCE HostPages
Feed == INSTANCE ScreenMessages WITH Pages <- Feeds, page <- feed
ASSUME HostBound == Host!BoundAssumption
ASSUME FeedBounds == Feed!BoundsAssumption

MCInit ==
  /\ focus \in {"process", "session", "host", "feed"}
  /\ ProcessInit /\ SessionInit /\ Host!Init /\ Feed!Init
  \* Of the set-ups these, as the others do no more: a start that is not set up
  \* does what a command that fails does, LogOn is a step like StartTask, and
  \* without a watchdog the process does what it does with one that never looks;
  \* but of scheduled tasks less is to be expected with one (OneProcessPerStarter).
  /\ focus = "process" =>
       <<guardian, config>> \in {"watchdog"} \X {"task", "command"}
                             \cup {"task at logon"} \X {"task", "nothing"}
  /\ focus # "process" => /\ config = CHOOSE c \in Setups : TRUE
                          /\ guardian = "nobody" /\ flag = "absent"
  /\ focus # "host" => page = "console" /\ host.state = "up"
  /\ focus # "feed" => open = Feeds

MCNext ==
  /\ UNCHANGED focus
  /\ \/ focus = "process" /\ ProcessNext /\ UNCHANGED <<sessionVars, hostVars, feedVars>>
     \/ focus = "session" /\ SessionNext /\ UNCHANGED <<processVars, hostVars, feedVars>>
     \/ focus = "host" /\ Host!Next /\ UNCHANGED <<processVars, sessionVars, feedVars>>
     \/ focus = "feed" /\ Feed!Next /\ UNCHANGED <<processVars, sessionVars, hostVars>>

-----------------------------------------------------------------------------
(* The fairness of each module, where it is the one that is followed.      *)

WatchdogFairness ==
  /\ WF_processVars(focus = "process" /\ WatchdogLooks)
  /\ WF_processVars(focus = "process" /\ (WatchdogStarts \/ WatchdogLeavesIt))
  /\ WF_processVars(focus = "process" /\ WatchdogReturns)
  /\ WF_processVars(focus = "process" /\ Script("watchdog"))
  /\ WF_processVars(focus = "process" /\ Exit)
  /\ <>[][~Reboot /\ ~WatchdogScriptFails]_processVars

TabsFairness ==
  /\ \A t \in Windows :
       /\ WF_sessionVars(focus = "session" /\ Notice(t))
       /\ WF_sessionVars(focus = "session" /\ Redirect(t))
       /\ WF_sessionVars(focus = "session" /\ \E c \in Calls : Ask(t, c))
  /\ \A c \in Calls :
       /\ WF_sessionVars(focus = "session" /\ (Refuse(c) \/ Serve(c)))
       /\ WF_sessionVars(focus = "session" /\ (SignedOut(c) \/ Judge(c)))
       /\ WF_sessionVars(focus = "session" /\ End(c))
  /\ LeftOpen

HostFairness ==
  /\ WF_hostVars(focus = "host" /\ Host!Trait.polls /\ Host!Ask)
  /\ SF_hostVars(focus = "host" /\ \E answer \in answers : Host!Show(answer))
  /\ \A i \in 1..MaxActions :
       WF_hostVars(focus = "host" /\ i \in DOMAIN actions /\ Host!Settle(i))
  /\ WF_hostVars(focus = "host" /\ \E i \in DOMAIN actions, outcome \in Host!Outcomes,
                                      reaches \in BOOLEAN : Host!Perform(i, outcome, reaches))
  /\ Host!LeftOpen

FeedFairness ==
  /\ \A p \in Feeds :
       /\ WF_feedVars(focus = "feed" /\ Feed!Poll(p))
       /\ WF_feedVars(focus = "feed" /\ (Feed!Probe(p) \/ Feed!Install(p) \/ Feed!Receive(p)))
  /\ Feed!LeftOpen

MCSpec ==
  /\ MCInit /\ [][MCNext]_<<focus, processVars, sessionVars, hostVars, feedVars>>
  /\ WatchdogFairness /\ TabsFairness /\ HostFairness /\ FeedFairness

-----------------------------------------------------------------------------
(* The properties: those of the first two modules under their own names,   *)
(* and, of what is followed,                                               *)

\* The types of all the variables.
HostTypeOK == ProcessTypeOK /\ SessionTypeOK /\ Host!TypeOK /\ Feed!TypeOK

\* An expired session is found out and removed, and then every open tab comes to
\* the login page (api.ts, AuthGate.tsx).
SessionEndsEverywhere == focus = "session" => EndsEverywhere

\* A page shows what its last successful action left, once its answers are in
\* (the pages' onAction and fetch callbacks).
OwnActionsAreShown == focus = "host" => Host!OwnActionsAreShown

\* A page of the feed lists messages in the order they were shown and none
\* twice, and one that is alone skips none (screen_messages.lua, useCursorFeed).
FeedIsFaithful == focus = "feed" => Feed!ShownInOrder /\ Feed!AloneNothingSkipped

\* Pages that ask again show the host in the end, no page is left with its
\* buttons disabled, and a lone page of the feed lists whatever the log holds.
PagesSettle == Host!PagesSettle /\ Feed!EveryMessageIsListed
================================================================================
