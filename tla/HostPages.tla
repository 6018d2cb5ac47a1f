------------------------------- MODULE HostPages -------------------------------
(***************************************************************************)
(* The pages that show something of the host and act on it (web-dashboard/ *)
(* src/app/: mission, srs, tasks, weather, players, foothold, leaderboard, *)
(* access-logs, tacview, console). They differ in four things: whether a   *)
(* timer asks the host again, what a failed answer leaves on the page,     *)
(* which outcomes of an action make the page ask again, and what keeps its *)
(* buttons disabled. The rest they share: answers come in any order, the   *)
(* host changes on its own, and a button is offered for what was last      *)
(* shown. What is shown is abstracted to its version and to one state.     *)
(***************************************************************************)
EXTENDS Naturals, FiniteSets, SequencesExt

CONSTANTS
  MaxVersion,   \* bound: changes of the host
  MaxInFlight,  \* bound: different answers on their way when the timer asks
  MaxActions    \* bound: actions on their way

BoundAssumption == MaxVersion \in Nat \ {0}

VARIABLES
  page,     \* the page that is open
  host,     \* what the page is about: its version and its state
  shown,    \* what the page shows of it, and whether it shows an error
  answers,  \* snapshots of the host on their way to the page (equal ones are one)
  actions,  \* actions on their way: how far each one is
  busy,     \* are the buttons disabled while something is going on?
  told,     \* is the failure of an action shown in the page?
  done,     \* history: the version left by the last action that was settled
  spoilt    \* history: an answer failed, or was overtaken by a newer one

vars == <<page, host, shown, answers, actions, busy, told, done, spoilt>>

-----------------------------------------------------------------------------
(* The pages                                                               *)

Outcomes == {"ok", "refused", "lost"}

\* The DCS and the SRS box of the mission page: `checking` goes with any answer.
ProcessBox == [polls |-> TRUE, failure |-> {"stops"}, again |-> Outcomes, busy |-> "answer"]
\* The box of the SRS page asks again only when its action has succeeded.
SrsBox == [polls |-> TRUE, failure |-> {"stops"}, again |-> {"ok"}, busy |-> "either"]
\* The clients of the SRS page: the last list stays, with the error above it.
SrsClients == [polls |-> TRUE, failure |-> {"tells"}, again |-> {}, busy |-> "never"]
\* Mission status and queue: the answer to an action is not looked at.
MissionStatus ==
  [polls |-> TRUE, failure |-> {"keeps"}, again |-> {"ok", "refused"}, busy |-> "never"]
TaskTables == [polls |-> TRUE, failure |-> {"tells"}, again |-> {"ok"}, busy |-> "never"]
\* Presets and the applied weather: loaded once; one error hides them for good.
WeatherPresets == [polls |-> FALSE, failure |-> {"sticks"}, again |-> {"ok"}, busy |-> "action"]
\* An error of the host is shown as an empty list (its answer has none).
PlayerLists ==
  [polls |-> FALSE, failure |-> {"keeps", "stops"}, again |-> {"ok"}, busy |-> "never"]
\* Keeps an error beside its data, and shows it as long as it has none.
Campaign == [polls |-> TRUE, failure |-> {"tells"}, again |-> {}, busy |-> "never"]
Leaderboard == [polls |-> TRUE, failure |-> {"keeps"}, again |-> {}, busy |-> "never"]
AccessLogs == [polls |-> TRUE, failure |-> {"keeps"}, again |-> {}, busy |-> "never"]
\* The recordings are listed once, and by the Refresh button; a folder that
\* cannot be read is an empty list with an error.
Recordings == [polls |-> FALSE, failure |-> {"tells", "empties"}, again |-> {}, busy |-> "action"]
LuaConsole == [polls |-> FALSE, failure |-> {"keeps"}, again |-> {}, busy |-> "action"]

Traits ==
  [processes |-> ProcessBox, srs |-> SrsBox, clients |-> SrsClients, mission |-> MissionStatus,
   tasks |-> TaskTables, weather |-> WeatherPresets,
   players |-> PlayerLists, campaign |-> Campaign, leaderboard |-> Leaderboard,
   access |-> AccessLogs, recordings |-> Recordings, console |-> LuaConsole]
Kinds == DOMAIN Traits
Trait == Traits[page]

\* What a page is about runs (a mission is not paused, a player is there), does
\* not, or can be neither started nor stopped (a task is disabled, a service
\* pending, DCS offline).
States == {"up", "down", "other"}
Held == busy = "yes"

\* The Start, Restart and Stop buttons of a process box.
ProcessOffers ==
  IF Held THEN {}
  ELSE {"restart"} \cup (IF shown.state = "up" THEN {"stop"} ELSE {"start"})
\* Pause or Resume, and Reload: of a mission that was never shown, too.
MissionOffers ==
  CASE shown.state = "other" -> {}
    [] shown.state = "up" -> {"stop", "restart"}
    [] shown.state = "down" -> {"start", "restart"}
\* Start, Stop and Restart of both tables.
TaskOffers ==
  CASE shown.state = "other" -> {}
    [] shown.state = "up" -> {"stop", "restart"}
    [] shown.state = "down" -> {"start"}
\* A preset is applied, which restarts the mission, and none while one is.
WeatherOffers == IF Held \/ shown.error = "yes" \/ shown.version = 0 THEN {} ELSE {"restart"}
\* Kick and Ban of a player shown, Unban of a ban shown.
PlayerOffers == IF shown.version = 0 THEN {} ELSE IF shown.state = "up" THEN {"stop"} ELSE {"start"}
ConsoleOffers == IF Held THEN {} ELSE {"restart"}

Offers ==
  CASE page \in {"processes", "srs"} -> ProcessOffers
    [] page = "mission" -> MissionOffers
    [] page = "tasks" -> TaskOffers
    [] page = "weather" -> WeatherOffers
    [] page = "players" -> PlayerOffers
    [] page = "console" -> ConsoleOffers
    [] OTHER -> {}

\* What an action leaves of the state of the host.
Effect(a) == CASE a = "stop" -> "down" [] a \in {"start", "restart"} -> "up"

-----------------------------------------------------------------------------
(* Asking and showing                                                      *)

NothingShown == [version |-> 0, state |-> "down", error |-> "no"]
\* A process box is checking until its first answer.
Init ==
  /\ page \in Kinds
  /\ \E s \in States : host = [version |-> 1, state |-> s]
  /\ shown = NothingShown /\ answers = {host} /\ actions = <<>>
  /\ busy = (IF Trait.busy \in {"answer", "either"} THEN "yes" ELSE "no")
  /\ told = "no" /\ done = 0 /\ spoilt = "no"

\* The host changes: a crash, a script, another administrator.
HostChanges(s) ==
  /\ host.version < MaxVersion /\ s # host.state
  /\ host' = [version |-> host.version + 1, state |-> s]
  /\ UNCHANGED <<page, shown, answers, actions, busy, told, done, spoilt>>

\* Fault: a page that shows an error stops asking.
AsksUnlessFailed ==
  /\ Trait.polls \/ page = "recordings"
  /\ Cardinality(answers) < MaxInFlight /\ shown.error = "no"
  /\ answers' = answers \cup {host}
  /\ UNCHANGED <<page, host, shown, actions, busy, told, done, spoilt>>
\* The timer, and the Refresh button of the recordings.
Ask ==
  /\ Trait.polls \/ page = "recordings"
  /\ Cardinality(answers) < MaxInFlight
  /\ answers' = answers \cup {host}
  /\ UNCHANGED <<page, host, shown, actions, busy, told, done, spoilt>>

FreedByAnswer == IF Trait.busy \in {"answer", "either"} THEN "no" ELSE busy

Show(answer) ==
  /\ shown' = [version |-> answer.version, state |-> answer.state,
               error |-> IF Trait.failure = {"sticks"} THEN shown.error ELSE "no"]
  /\ spoilt' = IF answer.version < shown.version THEN "yes" ELSE spoilt
  /\ answers' = answers \ {answer}
  /\ busy' = FreedByAnswer
  /\ told' = IF page = "srs" THEN "no" ELSE told
  /\ UNCHANGED <<page, host, actions, done>>

Fail(answer) ==
  /\ \E failure \in Trait.failure :
       shown' = CASE failure = "keeps" -> shown
                  [] failure \in {"tells", "sticks"} -> [shown EXCEPT !.error = "yes"]
                  [] failure = "empties" -> [NothingShown EXCEPT !.error = "yes"]
                  [] failure = "stops" -> NothingShown
  /\ spoilt' = "yes"
  /\ answers' = answers \ {answer}
  /\ busy' = FreedByAnswer
  /\ told' = IF page = "srs" THEN "yes" ELSE told
  /\ UNCHANGED <<page, host, actions, done>>

-----------------------------------------------------------------------------
(* Actions                                                                 *)

Click(a) ==
  /\ a \in Offers /\ Len(actions) < MaxActions
  /\ actions' = Append(actions, [does |-> a, at |-> "sent", version |-> 0])
  /\ busy' = IF Trait.busy = "never" THEN busy ELSE "yes"
  /\ told' = "no"
  /\ UNCHANGED <<page, host, shown, answers, done, spoilt>>

\* The host does it, refuses it, or the answer or the request is lost.
Perform(i, outcome, reaches) ==
  /\ actions[i].at = "sent"
  /\ outcome = "ok" => reaches
  /\ outcome = "refused" => ~reaches
  /\ reaches => host.version < MaxVersion
  /\ host' = IF reaches THEN [version |-> host.version + 1, state |-> Effect(actions[i].does)]
             ELSE host
  /\ actions' = [actions EXCEPT ![i] =
       [does |-> "nothing", at |-> outcome,
        version |-> IF outcome = "ok" THEN host'.version ELSE 0]]
  /\ UNCHANGED <<page, shown, answers, busy, told, done, spoilt>>

\* Fault: the page asks again only when an action failed.
AsksWhenFailed(at) == at \in Trait.again \ {"ok"}
AsksAgain(at) == at \in Trait.again

\* The buttons are free again after the action, or after its failure (SRS).
FreedBySettling(at) ==
  IF Trait.busy = "action" \/ (Trait.busy = "either" /\ at # "ok") THEN "no" ELSE busy

\* The page has the outcome of an action.
Settle(i) ==
  LET action == actions[i]
  IN  /\ action.at # "sent"
      /\ actions' = RemoveAt(actions, i)
      /\ answers' = IF AsksAgain(action.at) THEN answers \cup {host} ELSE answers
      /\ busy' = FreedBySettling(action.at)
      /\ told' = IF page \in {"processes", "srs"} /\ action.at # "ok" THEN "yes" ELSE told
      /\ done' = IF action.at = "ok" THEN action.version ELSE done
      /\ UNCHANGED <<page, host, shown, spoilt>>

Next ==
  \/ \E s \in States : HostChanges(s)
  \/ Ask
  \/ \E answer \in answers : Show(answer) \/ Fail(answer)
  \/ \E a \in {"start", "stop", "restart"} : Click(a)
  \/ \E i \in DOMAIN actions :
       \/ \E outcome \in Outcomes, reaches \in BOOLEAN : Perform(i, outcome, reaches)
       \/ Settle(i)

\* Timers fire, the host answers and some answers come through; in the end
\* none fails that would change the page.
Fairness ==
  /\ WF_vars(Trait.polls /\ Ask)
  /\ SF_vars(\E answer \in answers : Show(answer))
  /\ \A i \in 1..MaxActions : WF_vars(i \in DOMAIN actions /\ Settle(i))
  /\ WF_vars(\E i \in DOMAIN actions, outcome \in Outcomes, reaches \in BOOLEAN :
               Perform(i, outcome, reaches))
LeftOpen == <>[][\A answer \in answers : Fail(answer) => shown' = shown]_vars

Spec == Init /\ [][Next]_vars
FairSpec == Spec /\ Fairness /\ LeftOpen

-----------------------------------------------------------------------------
(* Properties                                                              *)

TypeOK ==
  /\ page \in Kinds
  /\ host.version \in 1..MaxVersion /\ host.state \in States
  /\ shown.version \in 0..host.version /\ shown.state \in States
  /\ answers \subseteq [version : 1..host.version, state : States]
  /\ \A i \in DOMAIN actions : actions[i].at \in {"sent"} \cup Outcomes
  /\ {busy, told, spoilt, shown.error} \subseteq {"yes", "no"}
  /\ done \in 0..host.version

\* A page that acts and is not asked to wait shows, once all its answers are
\* in, the host as its last successful action left it or as it was later, if
\* no answer has failed or passed a newer one. Pages without a timer have only
\* the answer they ask for after the action (applyPreset, handleKick).
OwnActionsAreShown ==
  (answers = {} /\ spoilt = "no" /\ done > 0 /\ Trait.again # {}) => shown.version >= done

\* A page that asks the host again and again ends up showing the host as it is,
\* without an error, whatever was overtaken, failed or acted upon; and buttons
\* that an action disabled do not stay so: `checking` of the process boxes ends
\* with an answer, `applying` of the weather page with the action.
PagesSettle ==
  /\ <>[](Trait.polls => shown.version = host.version /\ shown.error = "no")
  /\ []<>(busy = "no")
================================================================================
