---------------------------- MODULE MCDashboardLive ----------------------------
(***************************************************************************)
(* What the dashboard shows of the running mission, in one instance: the   *)
(* radar feed, the carrier list and the reports of the Airboss panels.     *)
(* What one needs of another is an action of its own (the list sees the    *)
(* radar commit, the panels see its frames), so they share no state, and a *)
(* behaviour follows one of them (focus) and leaves the others alone; a    *)
(* product of them would show no more of each.                             *)
(***************************************************************************)
EXTENDS CarrierList, RadarFeed, AirbossReports

CONSTANTS a, b, c1, c2   \* two units of two group categories

VARIABLE focus           \* what is followed

liveVars == <<focus, vars, radarVars, reportsVars>>

TwoCategories == [u \in Units |-> IF u = a THEN c1 ELSE c2]

LiveInit ==
  /\ focus \in {"carriers", "radar", "reports"}
  /\ Init /\ RadarInit /\ ReportsInit
  /\ focus # "carriers" => mission = {}
  /\ focus # "reports" => close = {}

LiveNext ==
  /\ UNCHANGED focus
  /\ \/ focus = "carriers" /\ Next /\ UNCHANGED <<radarVars, reportsVars>>
     \/ focus = "radar" /\ RadarNext /\ UNCHANGED <<vars, reportsVars>>
     \/ focus = "reports" /\ ReportsNext /\ UNCHANGED <<vars, radarVars>>

-----------------------------------------------------------------------------
(* The fairness of each module, where it is the one that is followed.      *)

ListFairness ==
  /\ WF_vars(focus = "carriers" /\ RadarCommits) /\ WF_vars(focus = "carriers" /\ Rest)
  /\ WF_vars(focus = "carriers" /\ Serve) /\ WF_vars(focus = "carriers" /\ Answer)

FeedFairness ==
  /\ \A u \in Units : WF_radarVars(focus = "radar" /\ ReportUnit(u))
  /\ \A c \in Categories : WF_radarVars(focus = "radar" /\ StreamOpens(c))
  /\ WF_radarVars(focus = "radar" /\ ReceiveFrame)
  /\ WF_radarVars(focus = "radar" /\ Commit)
  /\ WF_radarVars(focus = "radar" /\ Connect)

PanelsFairness ==
  /\ \A s \in Ships : WF_reportsVars(focus = "reports" /\ ship[s] = "gone" /\ ShipFrame(s))
  /\ \A q \in Polls : /\ WF_reportsVars(focus = "reports" /\ Tick(q))
                      /\ WF_reportsVars(focus = "reports" /\ ServePoll(q))
                      /\ WF_reportsVars(focus = "reports" /\ AnswerPoll(q))

LiveSpec ==
  /\ LiveInit /\ [][LiveNext]_liveVars
  /\ ListFairness /\ FeedFairness /\ PanelsFairness

-----------------------------------------------------------------------------
(* The properties are those of the modules, under their own names.         *)

\* The types of all the variables.
LiveTypeOK == TypeOK /\ RadarTypeOK /\ ReportsTypeOK
================================================================================
