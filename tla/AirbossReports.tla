------------------------------- MODULE AirbossReports -------------------------------
(***************************************************************************)
(* The telemetry of the Airboss panels (web-dashboard/src/app/airboss/     *)
(* page.tsx and CarrierPanel.tsx): one request every 2 s for all the ships *)
(* of the synced panels, whatever has become of the ones before, and the   *)
(* LOST mark of a panel, which the requests decide for a synced panel and  *)
(* the radar stream for another. The stream has only the ships that have   *)
(* moved since the page connected; a panel takes any ship within 2 km of   *)
(* the one last reported for its own, if the stream lacks that.            *)
(***************************************************************************)
EXTENDS Naturals

CONSTANTS
  Ships,
  Polls,      \* requests that can be in flight at once
  MaxClicks   \* bound: changes of the panels

ASSUME ReportsBoundsAssumption == MaxClicks \in Nat

VARIABLES
  ship,     \* per ship: there or gone
  moving,   \* the ships the radar stream has
  close,    \* ships that sail within 2 km of each other
  shown,    \* the panels that are shown
  synced,   \* those whose Sync is ticked
  report,   \* reports: none, or one
  error,    \* reportErrors: none, gone ("... is not available") or other
  panel,    \* per panel: everSeen, and has lostAt been set
  poll,     \* per request: its ships, how far it is, and its answer
  clicks    \* changes of the panels so far

reportsVars == <<ship, moving, close, shown, synced, report, error, panel, poll, clicks>>

NoPoll == [at |-> "free", ships |-> {}, entries |-> <<>>, current |-> "no"]
NewPanel == [seen |-> "no", lostAt |-> "no"]

ReportsInit ==
  /\ ship = [s \in Ships |-> "there"]
  /\ moving = {} /\ close \in {{}, Ships} /\ shown = Ships /\ synced = {}
  /\ report = [s \in Ships |-> "none"] /\ error = [s \in Ships |-> "none"]
  /\ panel = [s \in Ships |-> NewPanel]
  /\ poll = [q \in Polls |-> NoPoll] /\ clicks = 0

\* syncedNames
Synced == synced \cap shown

\* streamFound: by its name, or by the place in the last report (findDeckShip).
Found(s, units, reports) ==
  s \in units \/ (reports[s] = "one" /\ s \in close /\ close \cap units # {})

\* Fault: only the stream tells that a ship is gone.
IsLostByStream(found, units, ticked, gone, seen) == ~found /\ units # {} /\ seen
\* lost: the stream is up, and has other ships.
IsLost(found, units, ticked, gone, seen) ==
  ~found /\ units # {} /\ IF ticked THEN gone ELSE seen
Lost(s) == IsLost(Found(s, moving, report), moving, s \in synced,
                  error[s] = "gone", panel[s].seen = "yes")

\* The effects of the panels after a change: everSeen and lostAt.
Effects ==
  panel' = [s \in Ships |->
    LET found == Found(s, moving', report')
        lost == IsLost(found, moving', s \in synced', error'[s] = "gone", panel[s].seen = "yes")
    IN IF s \notin shown' THEN NewPanel
       ELSE IF found THEN [seen |-> "yes", lostAt |-> "no"]
       ELSE IF lost THEN [panel[s] EXCEPT !.lostAt = "yes"] ELSE panel[s]]

\* The effect of the requests is run anew when the names change: it asks at
\* once, and what was asked before does not count any more.
Rekeyed == IF synced' \cap shown' = Synced THEN UNCHANGED poll
           ELSE poll' = [q \in Polls |-> [poll[q] EXCEPT !.current = "no"]]

-----------------------------------------------------------------------------
(* The mission and the stream                                              *)

Sink(s) ==
  /\ ship[s] = "there" /\ ship' = [ship EXCEPT ![s] = "gone"]
  /\ UNCHANGED <<close, moving, shown, synced, report, error, panel, poll, clicks>>

\* A frame: a ship that moves appears, one that is gone disappears.
ShipFrame(s) ==
  /\ IF ship[s] = "there" THEN s \notin moving /\ moving' = moving \cup {s}
     ELSE s \in moving /\ moving' = moving \ {s}
  /\ UNCHANGED <<close, ship, shown, synced, report, error, poll, clicks>>
  /\ Effects

-----------------------------------------------------------------------------
(* The page                                                                *)

\* The Sync checkbox, and the panel's show or Hide.
Click == clicks < MaxClicks /\ clicks' = clicks + 1
Sync(s) ==
  /\ s \in shown /\ Click
  /\ synced' = IF s \in synced THEN synced \ {s} ELSE synced \cup {s}
  /\ UNCHANGED <<close, ship, moving, shown, report, error>>
  /\ Rekeyed /\ Effects
Show(s) ==
  /\ Click
  /\ shown' = IF s \in shown THEN shown \ {s} ELSE shown \cup {s}
  /\ UNCHANGED <<close, ship, moving, synced, report, error>>
  /\ Rekeyed /\ Effects

\* The interval; it does not wait for the answers of before.
Tick(q) ==
  /\ Synced # {} /\ poll[q].at = "free"
  /\ poll' = [poll EXCEPT ![q] =
       [at |-> "sent", ships |-> Synced, entries |-> <<>>, current |-> "yes"]]
  /\ UNCHANGED <<close, ship, moving, shown, synced, report, error, panel, clicks>>

\* GET /api/airboss: an entry per ship.
ServePoll(q) ==
  /\ poll[q].at = "sent"
  /\ poll' = [poll EXCEPT ![q].at = "served",
                          ![q].entries = [s \in poll[q].ships |-> ship[s]]]
  /\ UNCHANGED <<close, ship, moving, shown, synced, report, error, panel, clicks>>

\* Fault: an answer counts whichever names it was asked for.
CountsAlways(q) == TRUE
\* cancelled
Counts(q) == poll[q].current = "yes"

\* An answer: the good entries replace the reports, and every ship asked for
\* has an error or has not.
AnswerPoll(q) ==
  /\ poll[q].at = "served"
  /\ LET names == poll[q].ships
         gone(s) == poll[q].entries[s] = "gone"
     IN IF ~Counts(q) THEN UNCHANGED <<report, error>>
        ELSE /\ report' = [s \in Ships |-> IF s \in names /\ ~gone(s) THEN "one" ELSE report[s]]
             /\ error' = [s \in Ships |-> IF s \notin names THEN error[s]
                                            ELSE IF gone(s) THEN "gone" ELSE "none"]
  /\ poll' = [poll EXCEPT ![q] = NoPoll]
  /\ UNCHANGED <<close, ship, moving, shown, synced, clicks>>
  /\ Effects

\* The controller does not answer: the ships asked for have another error. Or
\* the dashboard does not, and nothing changes. A request changes nothing where
\* it is served, so that it was served before it failed makes no difference.
FailPoll(q) ==
  /\ poll[q].at = "sent"
  /\ \/ UNCHANGED error
     \/ /\ Counts(q)
        /\ error' = [s \in Ships |-> IF s \in poll[q].ships THEN "other" ELSE error[s]]
  /\ poll' = [poll EXCEPT ![q] = NoPoll]
  /\ UNCHANGED <<close, ship, moving, shown, synced, report, clicks>>
  /\ Effects

ReportsNext ==
  \/ \E s \in Ships : Sink(s) \/ ShipFrame(s) \/ Sync(s) \/ Show(s)
  \/ \E q \in Polls : Tick(q) \/ ServePoll(q) \/ AnswerPoll(q) \/ FailPoll(q)

ReportsSpec == ReportsInit /\ [][ReportsNext]_reportsVars

\* The stream goes on, and requests are made and come to an end. Nothing is
\* assumed of the mission and of the user.
ReportsFairness ==
  /\ \A s \in Ships : WF_reportsVars(ShipFrame(s) /\ ship[s] = "gone")
  /\ \A q \in Polls : /\ WF_reportsVars(Tick(q))
                     /\ WF_reportsVars(ServePoll(q)) /\ WF_reportsVars(AnswerPoll(q))
ReportsFairSpec == ReportsSpec /\ ReportsFairness

-----------------------------------------------------------------------------
(* Properties                                                              *)

ReportsTypeOK ==
  /\ \A s \in Ships : ship[s] \in {"there", "gone"}
  /\ moving \subseteq Ships /\ shown \subseteq Ships /\ synced \subseteq Ships
  /\ \A s \in Ships : report[s] \in {"none", "one"} /\ error[s] \in {"none", "gone", "other"}

\* A panel that is not synced, or not shown, keeps the report and the error it
\* had: "NOT SYNCED - LAST WIND" is true of it, although requests that ask for
\* it may still be on their way (page.tsx:215-265).
UnsyncedIsFrozen == [][\A s \in Ships \ Synced :
  report'[s] = report[s] /\ error'[s] = error[s]]_reportsVars

\* A synced panel of a ship that is gone ends up marked LOST, once the stream
\* has other ships, all of them more than 2 km off, and requests do not fail
\* for ever (CarrierPanel.tsx:147-148).
LossIsShown == \A s \in Ships :
  (/\ <>[](ship[s] = "gone" /\ s \in Synced /\ moving \ {s} # {} /\ s \notin close)
   /\ <>[][\A q \in Polls : ~FailPoll(q)]_reportsVars)
    => <>[](Lost(s) /\ panel[s].lostAt = "yes")
=====================================================================================
