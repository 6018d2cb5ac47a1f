------------------------------- MODULE AirbossTargets -------------------------------
(***************************************************************************)
(* The layout of the Airboss page and the target wind over deck of one of  *)
(* its panels (web-dashboard/src/app/airboss/page.tsx, CarrierPanel.tsx    *)
(* and carrierPersistence.ts). The layout lies in localStorage under the   *)
(* name of the mission the page read when it opened. A target that is      *)
(* chosen, or restored, is sent to the ship 400 ms later, unless it is the *)
(* one that was last acknowledged; a mission starts with its own target.   *)
(***************************************************************************)
EXTENDS Naturals

CONSTANTS
  Briefings,
  Targets,     \* the values the control can take
  Posts,       \* requests that can be in flight at once
  MaxLaunches, \* bound: missions started
  MaxChoices   \* bound: targets chosen

ASSUME TargetsBoundsAssumption == MaxLaunches \in Nat /\ MaxChoices \in Nat

VARIABLES
  mission,   \* the mission that runs
  ship,      \* the target the ship's controller aims for
  stored,    \* localStorage: a layout per mission
  page,      \* where the page is, the mission it read, and its layout
  sender,    \* of the panel's effect: is its timer running, and lastSentTargetRef
  post,      \* POST /api/airboss/config
  detected,  \* does the carrier list have the ship
  count,     \* missions started, and targets chosen
  crossed    \* history: the worst that has come between a choice and its
             \* acknowledgement: another choice, or a restart or a lost answer

targetsVars == <<mission, ship, stored, page, sender, post, detected, count, crossed>>

NoTarget == "none"        \* null, and the mission's own target
ASSUME TargetsAssumption == NoTarget \notin Targets
Unknown == "unknown"      \* the name when the mission could not be read
Names == Briefings \cup {Unknown}
EmptyLayout == [show |-> "yes", target |-> NoTarget, manual |-> "no"]
Closed == [at |-> "closed", name |-> Unknown, layout |-> EmptyLayout]
Unsent == [due |-> "no", last |-> NoTarget]
Free == [at |-> "free", target |-> NoTarget, mounted |-> "no"]

TargetsInit ==
  /\ mission \in Briefings /\ ship = NoTarget
  /\ stored = [m \in Names |-> EmptyLayout]
  /\ page = Closed /\ sender = Unsent
  /\ post = [r \in Posts |-> Free]
  /\ detected \in {"yes", "no"}
  /\ count = [starts |-> 0, choices |-> 0] /\ crossed = "nothing"

\* panelCarriers and visiblePanels
Visible(p) ==
  p.at # "closed" /\ p.layout.show = "yes" /\ (detected = "yes" \/ p.layout.manual = "yes")

NothingSent == \A r \in Posts : post[r].at = "free"
Overlapping == IF NothingSent \/ crossed = "loss" THEN crossed ELSE "overlap"

\* The effect of the panel: it starts its timer, or does not.
Due(target, last) == IF target \notin {NoTarget, last} THEN "yes" ELSE "no"

Orphaned == [r \in Posts |-> [post[r] EXCEPT !.mounted = "no"]]

\* Fault: the layout is stored from the first rendering on.
StoresAlways(p) == p.at # "closed"
\* The effect that saves the layout waits for the one that loads it.
Stores(p) == p.at = "ready"

\* The page is rendered anew. The panel's effect runs when the target changes,
\* or when the panel appears; a panel that goes drops its timer and forgets
\* what it sent.
Render(p) ==
  /\ page' = p
  /\ stored' = IF Stores(p) THEN [stored EXCEPT ![p.name] = p.layout] ELSE stored
  /\ IF ~Visible(p) THEN /\ sender' = Unsent /\ post' = Orphaned
     ELSE /\ UNCHANGED post
          /\ IF Visible(page) /\ p.layout.target = page.layout.target THEN UNCHANGED sender
             ELSE sender' = [sender EXCEPT !.due = Due(p.layout.target, sender.last)]
  /\ UNCHANGED <<ship, mission, detected>>

\* A mission is started. The page keeps the name it read.
StartMission(m) ==
  /\ count.starts < MaxLaunches /\ count' = [count EXCEPT !.starts = @ + 1]
  /\ mission' = m /\ ship' = NoTarget
  /\ crossed' = IF page.at = "closed" /\ NothingSent THEN crossed ELSE "loss"
  /\ UNCHANGED <<stored, page, sender, post, detected>>

Open ==
  /\ page.at = "closed" /\ Render([Closed EXCEPT !.at = "asking"])
  /\ UNCHANGED <<count, crossed>>
Leave == page.at # "closed" /\ Render(Closed) /\ UNCHANGED <<count, crossed>>

\* GET /api/mission is answered, or is not; the layout replaces the page's.
RestoreLayout ==
  /\ page.at = "asking"
  /\ \E name \in {mission, Unknown} :
       Render([at |-> "ready", name |-> name, layout |-> stored[name]])
  /\ crossed' = Overlapping
  /\ UNCHANGED count

\* The checkbox of the sidebar, and the panel's Hide; Remove of a manual ship.
Toggle ==
  /\ page.at # "closed" /\ (detected = "yes" \/ page.layout.manual = "yes")
  /\ Render([page EXCEPT !.layout.show = IF @ = "yes" THEN "no" ELSE "yes"])
  /\ crossed' = Overlapping
  /\ UNCHANGED count
AddManually ==
  /\ page.at # "closed"
  /\ Render([page EXCEPT !.layout.manual = "yes", !.layout.show = "yes"])
  /\ UNCHANGED <<count, crossed>>
RemoveManual ==
  /\ page.at # "closed" /\ detected = "no" /\ page.layout.manual = "yes"
  /\ Render([page EXCEPT !.layout.manual = "no"])
  /\ crossed' = Overlapping
  /\ UNCHANGED count

\* setTarget, within the bounds and the step of the control.
Choose(target) ==
  /\ Visible(page)
  /\ count.choices < MaxChoices /\ count' = [count EXCEPT !.choices = @ + 1]
  /\ Render([page EXCEPT !.layout.target = target])
  /\ crossed' = Overlapping

\* The timer fires.
Send(r) ==
  /\ sender.due = "yes" /\ post[r].at = "free"
  /\ sender' = [sender EXCEPT !.due = "no"]
  /\ post' = [post EXCEPT ![r] = [at |-> "sent", target |-> page.layout.target, mounted |-> "yes"]]
  /\ crossed' = Overlapping
  /\ UNCHANGED <<mission, ship, stored, page, detected, count>>

Apply(r) ==
  /\ post[r].at = "sent"
  /\ ship' = post[r].target
  /\ post' = [post EXCEPT ![r].at = "applied"]
  /\ UNCHANGED <<mission, stored, page, sender, detected, count, crossed>>

\* Fault: the target counts as sent when the request has ended.
AckOf(r) == post[r].target
\* lastSentTargetRef is set by an answer that is well.
Acknowledged(r) == IF post[r].at = "applied" THEN post[r].target ELSE sender.last

\* The answer. Its panel may be gone, and the mission may not have the ship.
Answer(r) ==
  /\ post[r].at # "free"
  /\ sender' = [sender EXCEPT !.last = IF post[r].mounted = "yes" THEN Acknowledged(r) ELSE @]
  /\ post' = [post EXCEPT ![r] = Free]
  /\ UNCHANGED <<mission, ship, stored, page, detected, count, crossed>>

\* The answer of a target the ship took is lost.
LoseAnswer(r) ==
  /\ post[r].at = "applied"
  /\ post' = [post EXCEPT ![r] = Free]
  /\ crossed' = "loss"
  /\ UNCHANGED <<mission, ship, stored, page, sender, detected, count>>

TargetsNext ==
  \/ \E m \in Briefings : StartMission(m)
  \/ Open \/ Leave \/ RestoreLayout \/ Toggle \/ AddManually \/ RemoveManual
  \/ \E target \in Targets : Choose(target)
  \/ \E r \in Posts : Send(r) \/ Apply(r) \/ Answer(r) \/ LoseAnswer(r)

TargetsSpec == TargetsInit /\ [][TargetsNext]_targetsVars

-----------------------------------------------------------------------------
(* Properties                                                              *)

TargetsTypeOK ==
  /\ mission \in Briefings /\ ship \in Targets \cup {NoTarget}
  /\ \A m \in Names : stored[m].target \in Targets \cup {NoTarget}
  /\ page.at \in {"closed", "asking", "ready"} /\ page.name \in Names
  /\ sender.last \in Targets \cup {NoTarget}
  /\ crossed \in {"nothing", "overlap", "loss"}

\* The layout of a mission is what the last page that had loaded it showed:
\* it changes with the layout of such a page only, never while a page is
\* opening, and such a page shows it (page.tsx:116-145). One tab is open.
LayoutsAreKept == [][
  /\ page'.at = "ready" => stored'[page'.name] = page'.layout
  /\ \A m \in Names : stored'[m] # stored[m] => page.at = "ready" /\ page.name = m]_targetsVars

\* A panel's timer is not running, and the target it shows was acknowledged.
Acked == Visible(page) /\ sender.due = "no" /\ page.layout.target \in Targets
         /\ sender.last = page.layout.target

\* An acknowledged target is the ship's, if the mission has not been started
\* anew since the page opened, no choice was made while another one was on its
\* way and no answer was lost (CarrierPanel.tsx:169-191).
AckedIsTheShips == Acked /\ NothingSent /\ crossed = "nothing" => ship = page.layout.target
=====================================================================================
