--------------------------- MODULE MCAirboss_proofs ---------------------------
(***************************************************************************)
(* What is proved of the modules that MCAirboss follows, for any missions, *)
(* targets, requests, panels, ids and hulls. What is proved of the         *)
(* recovery is in CarrierRecovery_proofs.                                  *)
(***************************************************************************)
EXTENDS MCAirboss, CarrierRecovery_proofs, WellFoundedInduction

-----------------------------------------------------------------------------
(* The targets. A layout is kept, and an acknowledged target is the ship's. *)
(* For the second the induction follows a request on its way: as long as no *)
(* two are under way and none is lost, the panel's lastSentTargetRef is what *)
(* the ship aims for, but for a request that was applied and not yet       *)
(* answered; one whose panel is gone finds the panel's memory empty.       *)

YesNo == {"yes", "no"}
SomeTarget == Targets \cup {NoTarget}
Layout == [show : YesNo, target : SomeTarget, manual : YesNo]
Page == [at : {"closed", "asking", "ready"}, name : Names, layout : Layout]
Sender == [due : YesNo, last : SomeTarget]
Post == [at : {"free", "sent", "applied"}, target : SomeTarget, mounted : YesNo]

TargetsShape ==
  /\ mission \in Briefings /\ ship \in SomeTarget
  /\ stored \in [Names -> Layout]
  /\ page \in Page /\ sender \in Sender
  /\ post \in [Posts -> Post]
  /\ crossed \in {"nothing", "overlap", "loss"}

\* A page that has loaded its layout shows what is stored.
ShowsStored == page.at = "ready" => stored[page.name] = page.layout

\* A closed page has no timer, no memory of a target, and no panel that waits.
ClosedIsEmpty ==
  page.at = "closed" => sender = Unsent /\ \A r \in Posts : post[r].mounted = "no"

\* One request at a time; what it was applied with is the ship's; the memory
\* of the panel is the ship's while none is applied; and the panel of a
\* request without panel has no memory.
OneAtATime == \A r, s \in Posts : post[r].at # "free" /\ post[s].at # "free" => r = s
AppliedIsTheShips == \A r \in Posts : post[r].at = "applied" => ship = post[r].target
LastIsTheShips ==
  sender.last # NoTarget /\ (\A r \in Posts : post[r].at # "applied") => ship = sender.last
OrphansAreForgotten ==
  \A r \in Posts : post[r].at # "free" /\ post[r].mounted = "no" => sender.last = NoTarget
Sequential == OneAtATime /\ AppliedIsTheShips /\ LastIsTheShips /\ OrphansAreForgotten

TargetsInv == TargetsShape /\ ShowsStored /\ ClosedIsEmpty /\ (crossed = "nothing" => Sequential)

\* What LayoutsAreKept asks of a step.
KeepsLayouts ==
  /\ page'.at = "ready" => stored'[page'.name] = page'.layout
  /\ \A m \in Names : stored'[m] # stored[m] => page.at = "ready" /\ page.name = m

-----------------------------------------------------------------------------
LEMMA ConstantTypes ==
  /\ EmptyLayout \in Layout /\ Closed \in Page /\ Unsent \in Sender /\ Free \in Post
  /\ Closed.at = "closed" /\ Free.at = "free" /\ Free.mounted = "no"
  /\ Unsent.due = "no" /\ Unsent.last = NoTarget
BY DEF EmptyLayout, Layout, Closed, Page, Unsent, Sender, Free, Post, YesNo, SomeTarget, Names

LEMMA OverlappingType ==
  ASSUME TargetsShape
  PROVE  /\ Overlapping \in {"nothing", "overlap", "loss"}
         /\ Overlapping = "nothing" => crossed = "nothing" /\ NothingSent
BY DEF TargetsShape, Overlapping

\* Requests that lose their panel keep all else.
LEMMA OrphanedType ==
  ASSUME post \in [Posts -> Post]
  PROVE  /\ Orphaned \in [Posts -> Post]
         /\ \A r \in Posts : /\ Orphaned[r].at = post[r].at /\ Orphaned[r].target = post[r].target
                             /\ Orphaned[r].mounted = "no"
BY DEF Orphaned, Post, YesNo

LEMMA DueType == ASSUME NEW target, NEW last PROVE Due(target, last) \in YesNo
BY DEF Due, YesNo

-----------------------------------------------------------------------------
\* The layout a rendering stores is its own, under the name it has, and it is
\* another one only if the page had loaded that mission's layout before.
LEMMA RenderStores ==
  ASSUME TargetsShape, ShowsStored, NEW p \in Page, Render(p),
         p.at = "ready" => \/ page.at = "ready" /\ page.name = p.name
                           \/ p.layout = stored[p.name]
  PROVE  stored' \in [Names -> Layout] /\ ShowsStored' /\ KeepsLayouts
<1>1. p.name \in Names /\ p.layout \in Layout /\ stored \in [Names -> Layout] /\ page' = p
  BY DEF TargetsShape, Page, Render
<1>2. CASE p.at = "ready"
  <2>1. stored' = [stored EXCEPT ![p.name] = p.layout]
    BY <1>2 DEF Render, Stores
  <2>2. stored' \in [Names -> Layout] /\ stored'[p.name] = p.layout
        /\ \A m \in Names : m # p.name => stored'[m] = stored[m]
    BY <1>1, <2>1
  <2> QED BY <1>1, <1>2, <2>2 DEF ShowsStored, KeepsLayouts
<1>3. CASE p.at # "ready"
  <2>1. stored' = stored
    BY <1>3 DEF Render, Stores
  <2> QED BY <1>1, <1>3, <2>1 DEF ShowsStored, KeepsLayouts
<1> QED BY <1>2, <1>3

\* A rendering changes no request but for its panel, and no memory but by
\* emptying it.
LEMMA RenderSends ==
  ASSUME TargetsShape, ClosedIsEmpty, NEW p \in Page, Render(p)
  PROVE  /\ sender' \in Sender /\ post' \in [Posts -> Post] /\ ClosedIsEmpty'
         /\ Sequential => Sequential'
<1>1. page' = p /\ ship' = ship /\ post \in [Posts -> Post] /\ sender \in Sender
  BY DEF Render, TargetsShape
<1>2. CASE ~Visible(p)
  <2>1. sender' = Unsent /\ post' = Orphaned
    BY <1>2 DEF Render
  <2>2. post' \in [Posts -> Post] /\ sender' \in Sender /\ sender'.last = NoTarget
    BY <1>1, <2>1, OrphanedType, ConstantTypes
  <2>3. \A r \in Posts : /\ post'[r].at = post[r].at /\ post'[r].target = post[r].target
                         /\ post'[r].mounted = "no"
    BY <1>1, <2>1, OrphanedType
  <2>4. Sequential => Sequential'
    BY <1>1, <2>2, <2>3
    DEF Sequential, OneAtATime, AppliedIsTheShips, LastIsTheShips, OrphansAreForgotten
  <2> QED BY <2>1, <2>2, <2>3, <2>4 DEF ClosedIsEmpty
<1>3. CASE Visible(p)
  <2>1. post' = post /\ p.at # "closed"
    BY <1>3 DEF Render, Visible
  <2>2. sender' \in Sender /\ sender'.last = sender.last
    BY <1>1, <1>3, DueType DEF Render, Sender
  <2>3. Sequential => Sequential'
    BY <1>1, <2>1, <2>2
    DEF Sequential, OneAtATime, AppliedIsTheShips, LastIsTheShips, OrphansAreForgotten
  <2> QED BY <1>1, <2>1, <2>2, <2>3 DEF ClosedIsEmpty
<1> QED BY <1>2, <1>3

LEMMA RenderKeeps ==
  ASSUME TargetsInv, NEW p \in Page, Render(p),
         p.at = "ready" => \/ page.at = "ready" /\ page.name = p.name
                           \/ p.layout = stored[p.name],
         crossed' \in {"nothing", "overlap", "loss"},
         crossed' = "nothing" => crossed = "nothing"
  PROVE  TargetsInv' /\ KeepsLayouts
<1>1. stored' \in [Names -> Layout] /\ ShowsStored' /\ KeepsLayouts
  BY RenderStores DEF TargetsInv
<1>2. /\ sender' \in Sender /\ post' \in [Posts -> Post] /\ ClosedIsEmpty'
      /\ Sequential => Sequential'
  BY RenderSends DEF TargetsInv
<1>3. page' \in Page /\ UNCHANGED <<ship, mission>>
  BY DEF Render
<1> QED BY <1>1, <1>2, <1>3 DEF TargetsInv, TargetsShape

\* A step that leaves the page and what is stored alone.
LEMMA SamePage ==
  ASSUME TargetsInv, UNCHANGED <<page, stored>>
  PROVE  ShowsStored' /\ KeepsLayouts
BY DEF TargetsInv, ShowsStored, KeepsLayouts

-----------------------------------------------------------------------------
LEMMA TargetsStart == TargetsInit => TargetsInv
<1> SUFFICES ASSUME TargetsInit PROVE TargetsInv
  OBVIOUS
<1>1. TargetsShape
  BY ConstantTypes DEF TargetsInit, TargetsShape, SomeTarget
<1>2. page.at = "closed" /\ sender = Unsent /\ \A r \in Posts : post[r] = Free
  BY ConstantTypes DEF TargetsInit
<1>3. ShowsStored /\ ClosedIsEmpty
  BY <1>2, ConstantTypes DEF ShowsStored, ClosedIsEmpty
<1>4. Sequential
  BY <1>2, ConstantTypes
  DEF Sequential, OneAtATime, AppliedIsTheShips, LastIsTheShips, OrphansAreForgotten
<1> QED BY <1>1, <1>3, <1>4 DEF TargetsInv

\* The page after each of its operations is a page, and one that has loaded a
\* layout had loaded it before, or shows what is stored.
LEMMA PageTypes ==
  ASSUME page \in Page, stored \in [Names -> Layout], mission \in Briefings
  PROVE  /\ [Closed EXCEPT !.at = "asking"] \in Page
         /\ \A name \in {mission, Unknown} :
              [at |-> "ready", name |-> name, layout |-> stored[name]] \in Page
         /\ \A layout \in Layout : [page EXCEPT !.layout = layout] \in Page
<1>1. {mission, Unknown} \subseteq Names
  BY DEF Names
<1> QED BY <1>1, ConstantTypes DEF Page

LEMMA RelaidKeeps ==
  ASSUME TargetsInv, NEW layout \in Layout, Render([page EXCEPT !.layout = layout]),
         crossed' \in {"nothing", "overlap", "loss"},
         crossed' = "nothing" => crossed = "nothing"
  PROVE  TargetsInv' /\ KeepsLayouts
<1> DEFINE p == [page EXCEPT !.layout = layout]
<1>1. page \in Page
  BY DEF TargetsInv, TargetsShape
<1>2. p \in Page /\ p.at = page.at /\ p.name = page.name
  BY <1>1, PageTypes DEF TargetsInv, TargetsShape, Page
<1>3. Render(p)
  OBVIOUS
<1> HIDE DEF p
<1> QED BY <1>2, <1>3, RenderKeeps

\* A request that is sent, applied, answered or lost keeps the order.
LEMMA SendKeeps ==
  ASSUME TargetsInv, NEW r \in Posts, Send(r)
  PROVE  TargetsInv' /\ KeepsLayouts
<1>1. /\ TargetsShape /\ post \in [Posts -> Post] /\ sender \in Sender /\ page \in Page
      /\ UNCHANGED <<mission, ship, stored, page>>
  BY DEF TargetsInv, TargetsShape, Send
<1> DEFINE sent == [at |-> "sent", target |-> page.layout.target, mounted |-> "yes"]
<1>2. page.layout.target \in SomeTarget
  BY <1>1 DEF Page, Layout
<1>3. sent \in Post /\ sent.at = "sent" /\ sent.mounted = "yes"
  BY <1>2 DEF Post, YesNo
<1>4. post' = [post EXCEPT ![r] = sent] /\ sender' = [sender EXCEPT !.due = "no"]
  BY DEF Send
<1> HIDE DEF sent
<1>5. /\ post' \in [Posts -> Post] /\ post'[r] = sent
      /\ \A s \in Posts : s # r => post'[s] = post[s]
  BY <1>1, <1>3, <1>4
<1>6. sender' \in Sender /\ sender'.last = sender.last
  BY <1>1, <1>4 DEF Sender, YesNo
<1>7. ShowsStored' /\ KeepsLayouts
  BY <1>1, SamePage
<1>8. page.at # "closed"
  BY ConstantTypes DEF Send, TargetsInv, ClosedIsEmpty
<1>9. ClosedIsEmpty'
  BY <1>1, <1>8 DEF ClosedIsEmpty
<1>10. crossed' \in {"nothing", "overlap", "loss"}
       /\ (crossed' = "nothing" => crossed = "nothing" /\ NothingSent)
  BY <1>1, OverlappingType DEF Send
<1>11. ASSUME crossed' = "nothing" PROVE Sequential'
  <2>1. Sequential /\ \A s \in Posts : post[s].at = "free"
    BY <1>10, <1>11 DEF TargetsInv, NothingSent
  <2>2. OneAtATime' /\ AppliedIsTheShips' /\ OrphansAreForgotten'
    BY <2>1, <1>3, <1>5 DEF OneAtATime, AppliedIsTheShips, OrphansAreForgotten
  <2>3. LastIsTheShips'
    BY <2>1, <1>1, <1>6 DEF Sequential, LastIsTheShips
  <2> QED BY <2>2, <2>3 DEF Sequential
<1> QED BY <1>1, <1>5, <1>6, <1>7, <1>9, <1>10, <1>11 DEF TargetsInv, TargetsShape

LEMMA ApplyKeeps ==
  ASSUME TargetsInv, NEW r \in Posts, Apply(r)
  PROVE  TargetsInv' /\ KeepsLayouts
<1>1. /\ TargetsShape /\ post \in [Posts -> Post] /\ UNCHANGED <<mission, stored, page, sender, crossed>>
      /\ post[r].at = "sent" /\ ship' = post[r].target
  BY DEF TargetsInv, TargetsShape, Apply
<1>2. post' = [post EXCEPT ![r] = [post[r] EXCEPT !.at = "applied"]]
  BY DEF Apply
<1>3. /\ post' \in [Posts -> Post] /\ \A s \in Posts : s # r => post'[s] = post[s]
      /\ post'[r].at = "applied" /\ post'[r].target = post[r].target
      /\ post'[r].mounted = post[r].mounted
  BY <1>1, <1>2 DEF Post
<1>4. ship' \in SomeTarget
  BY <1>1 DEF Post
<1>5. ShowsStored' /\ KeepsLayouts
  BY <1>1, SamePage
<1>6. ClosedIsEmpty'
  BY <1>1, <1>3 DEF TargetsInv, ClosedIsEmpty
<1>7. ASSUME crossed' = "nothing" PROVE Sequential'
  <2>1. Sequential
    BY <1>1, <1>7 DEF TargetsInv
  <2>2. OneAtATime' /\ OrphansAreForgotten'
    BY <2>1, <1>1, <1>3 DEF Sequential, OneAtATime, OrphansAreForgotten
  <2>3. AppliedIsTheShips'
    BY <2>1, <1>1, <1>3 DEF Sequential, OneAtATime, AppliedIsTheShips
  <2>4. LastIsTheShips'
    BY <1>3 DEF LastIsTheShips
  <2> QED BY <2>2, <2>3, <2>4 DEF Sequential
<1> QED BY <1>1, <1>3, <1>4, <1>5, <1>6, <1>7 DEF TargetsInv, TargetsShape

LEMMA AnswerKeeps ==
  ASSUME TargetsInv, NEW r \in Posts, Answer(r)
  PROVE  TargetsInv' /\ KeepsLayouts
<1>1. /\ TargetsShape /\ post \in [Posts -> Post] /\ sender \in Sender
      /\ UNCHANGED <<mission, ship, stored, page, crossed>> /\ post[r].at # "free"
  BY DEF TargetsInv, TargetsShape, Answer
<1>2. /\ post' \in [Posts -> Post] /\ \A s \in Posts : s # r => post'[s] = post[s]
      /\ post'[r] = Free
  BY <1>1, ConstantTypes DEF Answer
<1> DEFINE last == IF post[r].mounted = "yes" THEN Acknowledged(r) ELSE sender.last
<1>3. sender' = [sender EXCEPT !.last = last]
  BY DEF Answer
<1>4. last \in SomeTarget
  BY <1>1 DEF Acknowledged, Post, Sender
<1>5. sender' \in Sender /\ sender'.last = last /\ sender'.due = sender.due
  BY <1>1, <1>3, <1>4 DEF Sender
<1>6. ShowsStored' /\ KeepsLayouts
  BY <1>1, SamePage
<1>7. ClosedIsEmpty'
  <2>1. CASE page.at = "closed"
    <3>1. sender = Unsent /\ \A s \in Posts : post[s].mounted = "no"
      BY <2>1 DEF TargetsInv, ClosedIsEmpty
    <3>2. sender' = sender
      BY <3>1, <1>1, <1>3 DEF Sender
    <3>3. \A s \in Posts : post'[s].mounted = "no"
      BY <3>1, <1>2, ConstantTypes
    <3> QED BY <3>1, <3>2, <3>3 DEF ClosedIsEmpty, Unsent
  <2> QED BY <2>1, <1>1 DEF ClosedIsEmpty
<1>8. ASSUME crossed' = "nothing" PROVE Sequential'
  <2>1. Sequential
    BY <1>1, <1>8 DEF TargetsInv
  <2>2. \A s \in Posts : post'[s].at = "free"
    BY <2>1, <1>1, <1>2, ConstantTypes DEF Sequential, OneAtATime
  <2>3. OneAtATime' /\ AppliedIsTheShips' /\ OrphansAreForgotten'
    BY <2>2 DEF OneAtATime, AppliedIsTheShips, OrphansAreForgotten
  <2>4. last # NoTarget => ship = last
    <3>1. CASE post[r].mounted # "yes"
      <4>1. post[r].mounted = "no"
        BY <1>1, <3>1 DEF Post, YesNo
      <4> QED BY <4>1, <3>1, <2>1, <1>1 DEF Sequential, OrphansAreForgotten
    <3>2. CASE post[r].mounted = "yes" /\ post[r].at = "applied"
      BY <3>2, <2>1 DEF Sequential, AppliedIsTheShips, Acknowledged
    <3>3. CASE post[r].mounted = "yes" /\ post[r].at # "applied"
      <4>1. \A s \in Posts : post[s].at # "applied"
        BY <3>3, <2>1, <1>1 DEF Sequential, OneAtATime
      <4> QED BY <3>3, <4>1, <2>1 DEF Sequential, LastIsTheShips, Acknowledged
    <3> QED BY <3>1, <3>2, <3>3
  <2>5. LastIsTheShips'
    BY <2>4, <1>1, <1>5 DEF LastIsTheShips
  <2> QED BY <2>3, <2>5 DEF Sequential
<1> HIDE DEF last
<1> QED BY <1>1, <1>2, <1>5, <1>6, <1>7, <1>8 DEF TargetsInv, TargetsShape

\* A new mission, and a lost answer, end the order.
LEMMA LoseKeeps ==
  ASSUME TargetsInv, NEW r \in Posts, LoseAnswer(r)
  PROVE  TargetsInv' /\ KeepsLayouts
<1>1. /\ TargetsShape /\ post \in [Posts -> Post] /\ crossed' = "loss"
      /\ UNCHANGED <<mission, ship, stored, page, sender>>
  BY DEF TargetsInv, TargetsShape, LoseAnswer
<1>2. /\ post' \in [Posts -> Post] /\ \A s \in Posts : s # r => post'[s] = post[s]
      /\ post'[r] = Free
  BY <1>1, ConstantTypes DEF LoseAnswer
<1>3. ClosedIsEmpty'
  BY <1>1, <1>2, ConstantTypes DEF TargetsInv, ClosedIsEmpty
<1> QED BY <1>1, <1>2, <1>3, SamePage DEF TargetsInv, TargetsShape

LEMMA StartKeeps ==
  ASSUME TargetsInv, NEW m \in Briefings, StartMission(m)
  PROVE  TargetsInv' /\ KeepsLayouts
<1>1. /\ TargetsShape /\ UNCHANGED <<stored, page, sender, post>>
      /\ mission' = m /\ ship' = NoTarget
  BY DEF TargetsInv, StartMission
<1>2. /\ crossed' \in {"nothing", "overlap", "loss"}
      /\ crossed' = "nothing" => crossed = "nothing" /\ page.at = "closed" /\ NothingSent
  BY <1>1 DEF StartMission, TargetsShape
<1>3. ASSUME crossed' = "nothing" PROVE Sequential'
  <2>1. \A s \in Posts : post'[s].at = "free"
    BY <1>1, <1>2, <1>3 DEF NothingSent
  <2>2. sender'.last = NoTarget
    BY <1>1, <1>2, <1>3, ConstantTypes DEF TargetsInv, ClosedIsEmpty
  <2> QED BY <2>1, <2>2
      DEF Sequential, OneAtATime, AppliedIsTheShips, LastIsTheShips, OrphansAreForgotten
<1>4. ClosedIsEmpty'
  BY <1>1 DEF TargetsInv, ClosedIsEmpty
<1>5. TargetsShape'
  BY <1>1, <1>2 DEF TargetsShape, SomeTarget
<1> QED BY <1>1, <1>3, <1>4, <1>5, SamePage DEF TargetsInv

-----------------------------------------------------------------------------
LEMMA TargetsStep ==
  ASSUME TargetsInv, [TargetsNext]_targetsVars
  PROVE  TargetsInv' /\ [KeepsLayouts]_targetsVars
<1>1. /\ TargetsShape /\ page \in Page /\ stored \in [Names -> Layout] /\ mission \in Briefings
      /\ page.layout \in Layout /\ page.name \in Names
  BY DEF TargetsInv, TargetsShape, Page
<1>2. /\ crossed \in {"nothing", "overlap", "loss"}
      /\ Overlapping \in {"nothing", "overlap", "loss"}
      /\ Overlapping = "nothing" => crossed = "nothing"
  BY <1>1, OverlappingType DEF TargetsShape
<1>3. CASE UNCHANGED targetsVars
  BY <1>3 DEF targetsVars, TargetsInv, TargetsShape, ShowsStored, ClosedIsEmpty, Sequential, OneAtATime,
              AppliedIsTheShips, LastIsTheShips, OrphansAreForgotten
<1>4. CASE \E m \in Briefings : StartMission(m)
  BY <1>4, StartKeeps
<1>5. CASE Open
  <2> DEFINE p == [Closed EXCEPT !.at = "asking"]
  <2>1. p \in Page /\ p.at = "asking"
    BY <1>1, PageTypes DEF Closed
  <2>2. Render(p) /\ crossed' = crossed
    BY <1>5 DEF Open
  <2> HIDE DEF p
  <2> QED BY <2>1, <2>2, <1>2, RenderKeeps
<1>6. CASE Leave
  <2>1. Render(Closed) /\ crossed' = crossed
    BY <1>6 DEF Leave
  <2> QED BY <2>1, <1>2, ConstantTypes, RenderKeeps
<1>7. CASE RestoreLayout
  <2>1. PICK name \in {mission, Unknown} :
          Render([at |-> "ready", name |-> name, layout |-> stored[name]])
    BY <1>7 DEF RestoreLayout
  <2> DEFINE p == [at |-> "ready", name |-> name, layout |-> stored[name]]
  <2>2. p \in Page /\ p.layout = stored[p.name]
    BY <1>1, PageTypes
  <2>3. Render(p) /\ crossed' = Overlapping
    BY <1>7, <2>1 DEF RestoreLayout
  <2> HIDE DEF p
  <2> QED BY <2>2, <2>3, <1>2, RenderKeeps
<1>8. CASE Toggle
  <2> DEFINE shown == [page.layout EXCEPT !.show = IF @ = "yes" THEN "no" ELSE "yes"]
  <2>1. shown \in Layout
    BY <1>1 DEF Layout, YesNo
  <2>2. Render([page EXCEPT !.layout = shown]) /\ crossed' = Overlapping
    BY <1>8, <1>1 DEF Toggle, Page
  <2> HIDE DEF shown
  <2> QED BY <2>1, <2>2, <1>2, RelaidKeeps
<1>9. CASE AddManually
  <2> DEFINE added == [page.layout EXCEPT !.manual = "yes", !.show = "yes"]
  <2>1. added \in Layout
    BY <1>1 DEF Layout, YesNo
  <2>2. Render([page EXCEPT !.layout = added]) /\ crossed' = crossed
    BY <1>9, <1>1 DEF AddManually, Page
  <2> HIDE DEF added
  <2> QED BY <2>1, <2>2, <1>2, RelaidKeeps
<1>10. CASE RemoveManual
  <2> DEFINE removed == [page.layout EXCEPT !.manual = "no"]
  <2>1. removed \in Layout
    BY <1>1 DEF Layout, YesNo
  <2>2. Render([page EXCEPT !.layout = removed]) /\ crossed' = Overlapping
    BY <1>10, <1>1 DEF RemoveManual, Page
  <2> HIDE DEF removed
  <2> QED BY <2>1, <2>2, <1>2, RelaidKeeps
<1>11. ASSUME NEW target \in Targets, Choose(target) PROVE TargetsInv' /\ KeepsLayouts
  <2> DEFINE chosen == [page.layout EXCEPT !.target = target]
  <2>1. chosen \in Layout
    BY <1>1 DEF Layout, SomeTarget
  <2>2. Render([page EXCEPT !.layout = chosen]) /\ crossed' = Overlapping
    BY <1>11, <1>1 DEF Choose, Page
  <2> HIDE DEF chosen
  <2> QED BY <2>1, <2>2, <1>2, RelaidKeeps
<1>12. CASE \E r \in Posts : Send(r) \/ Apply(r) \/ Answer(r) \/ LoseAnswer(r)
  BY <1>12, SendKeeps, ApplyKeeps, AnswerKeeps, LoseKeeps
<1> QED BY <1>3, <1>4, <1>5, <1>6, <1>7, <1>8, <1>9, <1>10, <1>11, <1>12 DEF TargetsNext

LEMMA TargetsInvariance == TargetsSpec => []TargetsInv
<1>1. TargetsInv /\ [TargetsNext]_targetsVars => TargetsInv'
  BY TargetsStep
<1> QED BY TargetsStart, <1>1, PTL DEF TargetsSpec

\* The page, its requests and the stored layouts keep their shape.
THEOREM TargetsTypeCorrect == TargetsSpec => []TargetsTypeOK
<1>1. TargetsInv => TargetsTypeOK
  BY DEF TargetsInv, TargetsShape, TargetsTypeOK, Layout, Page, Sender, SomeTarget
<1> QED BY <1>1, TargetsInvariance, PTL

\* A mission's layout changes with a page that has loaded it only, and is what
\* that page shows (page.tsx:116-145).
THEOREM LayoutsKept == TargetsSpec => LayoutsAreKept
<1>1. TargetsInv /\ [TargetsNext]_targetsVars => [KeepsLayouts]_targetsVars
  BY TargetsStep
<1> QED BY <1>1, TargetsInvariance, PTL DEF TargetsSpec, LayoutsAreKept, KeepsLayouts

\* An acknowledged target is the ship's while requests do not overlap and none
\* is lost (CarrierPanel.tsx:169-191).
THEOREM AckedTarget == TargetsSpec => []AckedIsTheShips
<1>1. TargetsInv => AckedIsTheShips
  BY TargetsAssumption
  DEF TargetsInv, Sequential, LastIsTheShips, AckedIsTheShips, Acked, NothingSent
<1> QED BY <1>1, TargetsInvariance, PTL

-----------------------------------------------------------------------------
(* The decks. What is selected are routes of one deck, and of a launch     *)
(* position all that lead to it there; the rest holds in every state.      *)
\* Routes of some deck; the selection of a launch position has all that lead
\* to it on the deck it was made on.
Selection(sel) ==
  /\ sel.routes \subseteq UNION {Routes(h) : h \in AllHulls}
  /\ \A s : sel.id = <<"launch", s>> => \E h \in AllHulls : sel.routes = To(h, s)

DeckShape ==
  /\ DOMAIN contacts = Ids /\ \A u \in Ids : contacts[u] \in Readings(u)
  /\ DOMAIN deck = Panels
  /\ \A p \in Panels :
       /\ DOMAIN deck[p] = {"hull", "place", "lock", "selected"}
       /\ deck[p].hull \in AllHulls /\ deck[p].place \in Areas \cup {"none"}
       /\ deck[p].lock \in Ids \cup {NoShip}
       /\ Selection(deck[p].selected)

LEMMA HasLeast ==
  ASSUME NEW T, T \subseteq Nat, T # {} PROVE \E x \in T : \A y \in T : x <= y
<1>1. PICK R : R = OpToRel(<, Nat)
  OBVIOUS
<1>2. IsWellFoundedOn(R, Nat)
  BY <1>1, NatLessThanWellFounded
<1>3. \A x, y \in Nat : y < x => <<y, x>> \in R
  BY <1>1 DEF OpToRel
<1>4. \E x \in T : \A y \in T : ~ (<<y, x>> \in R)
  BY <1>2, WFMin
<1>5. \A x, y \in Nat : ~(y < x) => x <= y
  OBVIOUS
<1> QED BY <1>3, <1>4, <1>5

LEMMA LowestIn ==
  ASSUME NEW units, units \subseteq Ids, units # {} PROVE Lowest(units) \in units
<1>1. units \subseteq Nat
  BY DeckBoundsAssumption
<1>2. \E x \in units : \A y \in units : x <= y
  BY <1>1, HasLeast
<1> QED BY <1>2 DEF Lowest, Min

LEMMA FoundType ==
  ASSUME NEW units, DOMAIN units = Ids, NEW p, NEW d
  PROVE  /\ FindDeckShip(units, p, d) \in Ids \cup {NoShip}
         /\ Named(units, p) # {} => FindDeckShip(units, p, d) \in Named(units, p)
         /\ FindDeckShip(units, p, d) \in Named(units, p) \cup ShipsIn(units) \cup {NoShip}
<1>1. Named(units, p) \subseteq Ids /\ Reported(units, d) \subseteq Ids
      /\ (Locked(units, d) # {} => d.lock \in Ids)
  BY DEF Named, Reported, Locked, ShipsIn
<1>2. Lowest({}) = NoShip
  BY DEF Lowest
<1>3. /\ Named(units, p) # {} => Lowest(Named(units, p)) \in Named(units, p)
      /\ Reported(units, d) # {} => Lowest(Reported(units, d)) \in Reported(units, d)
  BY <1>1, LowestIn
<1>4. Reported(units, d) \subseteq ShipsIn(units) /\ (Locked(units, d) # {} => d.lock \in ShipsIn(units))
  BY DEF Reported, Locked
<1> QED BY <1>1, <1>2, <1>3, <1>4 DEF FindDeckShip

\* A drawn deck has another lock at most.
LEMMA RelockedIs ==
  ASSUME NEW units, DOMAIN units = Ids, NEW decks, NEW p \in Panels,
         DOMAIN decks[p] = {"hull", "place", "lock", "selected"},
         decks[p].lock \in Ids \cup {NoShip}
  PROVE  /\ DOMAIN Relocked(units, decks) = Panels
         /\ DOMAIN Relocked(units, decks)[p] = {"hull", "place", "lock", "selected"}
         /\ Relocked(units, decks)[p].hull = decks[p].hull
         /\ Relocked(units, decks)[p].place = decks[p].place
         /\ Relocked(units, decks)[p].selected = decks[p].selected
         /\ Relocked(units, decks)[p].lock \in Ids \cup {NoShip}
<1>1. PICK s : s = FindDeckShip(units, p, decks[p])
  OBVIOUS
<1>2. s \in Ids \cup {NoShip}
  BY <1>1, FoundType
<1>3. /\ DOMAIN Relocked(units, decks) = Panels
      /\ Relocked(units, decks)[p] = IF s = NoShip THEN decks[p] ELSE [decks[p] EXCEPT !.lock = s]
  BY <1>1 DEF Relocked
<1> QED BY <1>2, <1>3

\* Every route starts at a parking spot of its deck and leads to a launch
\* position of it (deckRoutes.ts, deckSpots.ts).
LEMMA RoutesHaveSpots ==
  ASSUME NEW h \in AllHulls, NEW r \in Routes(h)
  PROVE  /\ r.hull = h
         /\ Spot("parking", r.start) \in Spots(h) /\ Spot("launch", r.launch) \in Spots(h)
<1>1. PICK t \in RoutesOf[h] : r = Route(h, t)
  BY DEF Routes
<1>2. r.hull = h /\ r.start = t[1] /\ r.launch = t[2]
  BY <1>1 DEF Route
<1>3. t[1] \in SpotsOf[h].parking /\ t[2] \in SpotsOf[h].launch
  <2>1. h \in {"nimitz", "tarawa", "forrestal", "kuznetsov", "essex", "invincible", "ara_vdm",
               "generic"}
    BY DEF AllHulls, RoutesOf
  <2>2. CASE h = "nimitz"
    BY <1>1, <2>2 DEF RoutesOf, SpotsOf, NimitzRoutes, NimitzSpots
  <2>3. CASE h = "tarawa"
    BY <1>1, <2>3 DEF RoutesOf, SpotsOf, TarawaRoutes, TarawaSpots
  <2>4. CASE h = "forrestal"
    BY <1>1, <2>4 DEF RoutesOf, SpotsOf, ForrestalRoutes, ForrestalSpots
  <2>5. CASE h = "kuznetsov"
    BY <1>1, <2>5 DEF RoutesOf, SpotsOf, KuznetsovRoutes, KuznetsovSpots
  <2>6. CASE h = "essex"
    BY <1>1, <2>6 DEF RoutesOf, SpotsOf, EssexRoutes, EssexSpots
  <2>7. CASE h = "invincible"
    BY <1>1, <2>7 DEF RoutesOf, SpotsOf, InvincibleRoutes, InvincibleSpots
  <2>8. CASE h = "ara_vdm"
    BY <1>1, <2>8 DEF RoutesOf, SpotsOf, AraVdmRoutes, AraVdmSpots
  <2>9. CASE h = "generic"
    BY <1>1, <2>9 DEF RoutesOf, SpotsOf, GenericSpots
  <2> QED BY <2>1, <2>2, <2>3, <2>4, <2>5, <2>6, <2>7, <2>8, <2>9
<1> QED BY <1>2, <1>3 DEF Spots

\* What can be clicked is a selection.
LEMMA NothingSelected == Selection(Unselected)
<1>1. Unselected.routes = {} /\ Unselected.id = <<"nothing">>
  BY DEF Unselected
<1>2. \A s : <<"nothing">> # <<"launch", s>>
  OBVIOUS
<1> QED BY <1>1, <1>2 DEF Selection

LEMMA SpotSelected ==
  ASSUME NEW h \in AllHulls, NEW s PROVE Selection(SpotTarget(h, s))
<1>1. To(h, s) \subseteq Routes(h) /\ From(h, s) \subseteq Routes(h)
  BY DEF To, From
<1>2. CASE s.kind = "launch"
  <2>1. SpotTarget(h, s).routes = To(h, s) /\ SpotTarget(h, s).id = <<"launch", s>>
    BY <1>2 DEF SpotTarget, SelectionId
  <2> QED BY <1>1, <2>1 DEF Selection
<1>3. CASE s.kind # "launch"
  <2>1. /\ SpotTarget(h, s).routes = From(h, s)
        /\ \E x : SpotTarget(h, s).id = <<"route", x>> \/ SpotTarget(h, s).id = <<"spot", x>>
    BY <1>3 DEF SpotTarget, SelectionId
  <2> QED BY <1>1, <2>1 DEF Selection
<1> QED BY <1>2, <1>3

LEMMA AircraftSelected ==
  ASSUME NEW h \in AllHulls, NEW kind, NEW target \in AircraftTargets(h, kind)
  PROVE  Selection(target)
<1>1. PICK closest, passing, parked :
        /\ target = AircraftTarget(h, closest, passing, parked)
        /\ passing \subseteq Routes(h)
  BY DEF AircraftTargets
<1> DEFINE froms == UNION {From(h, s) : s \in closest}
           routes == IF closest # {} /\ froms # {} THEN froms ELSE passing
<1>2. target = [id |-> IF routes # {} THEN <<"route", CHOOSE r \in routes : TRUE>>
                       ELSE IF parked /\ closest # {} THEN <<"spot", CHOOSE s \in closest : TRUE>>
                       ELSE Unselected.id,
                routes |-> routes]
  BY <1>1 DEF AircraftTarget
<1>3. routes \subseteq Routes(h)
  BY <1>1 DEF From
<1> HIDE DEF routes
<1>4. target.routes = routes
  BY <1>2
<1>5. \/ \E x : target.id = <<"route", x>> \/ target.id = <<"spot", x>>
      \/ target.id = <<"nothing">>
  BY <1>2 DEF Unselected
<1>6. \A s : target.id # <<"launch", s>>
  BY <1>5
<1> QED BY <1>3, <1>4, <1>6 DEF Selection

LEMMA DeckStart == DeckInit => DeckShape
<1> SUFFICES ASSUME DeckInit PROVE DeckShape
  OBVIOUS
<1>1. "generic" \in AllHulls
  BY DEF AllHulls, RoutesOf
<1>2. \A u \in Ids : contacts[u] \in Readings(u)
  BY DEF DeckInit, Readings
<1> QED BY <1>1, <1>2, NothingSelected DEF DeckInit, DeckShape

LEMMA DeckStep == DeckShape /\ [DeckNext]_deckVars => DeckShape'
<1> SUFFICES ASSUME DeckShape, [DeckNext]_deckVars PROVE DeckShape'
  OBVIOUS
<1>1. ASSUME NEW u \in Ids, NEW unit \in Readings(u), UnitFrame(u, unit) PROVE DeckShape'
  <2>1. /\ DOMAIN contacts' = Ids /\ \A v \in Ids : contacts'[v] \in Readings(v)
        /\ deck' = Relocked(contacts', deck)
    BY <1>1 DEF UnitFrame, DeckShape
  <2>2. ASSUME NEW p \in Panels
        PROVE  /\ DOMAIN deck' = Panels
               /\ DOMAIN deck'[p] = {"hull", "place", "lock", "selected"}
               /\ deck'[p].hull = deck[p].hull /\ deck'[p].place = deck[p].place
               /\ deck'[p].selected = deck[p].selected /\ deck'[p].lock \in Ids \cup {NoShip}
    BY <2>1, RelockedIs DEF DeckShape
  <2>3. DOMAIN deck' = Panels
    BY <2>1 DEF Relocked
  <2> QED BY <2>1, <2>2, <2>3 DEF DeckShape
<1>2. ASSUME NEW p \in Panels, NEW hull \in Hulls, NEW area \in Areas, Report(p, hull, area)
      PROVE  DeckShape'
  <2>1. PICK said : said = [deck EXCEPT ![p].hull = hull, ![p].place = area]
    OBVIOUS
  <2>2. ASSUME NEW q \in Panels
        PROVE  /\ DOMAIN said[q] = {"hull", "place", "lock", "selected"}
               /\ said[q].hull \in AllHulls /\ said[q].place \in Areas \cup {"none"}
               /\ said[q].lock = deck[q].lock /\ said[q].selected = deck[q].selected
    BY <2>1, HullsAssumption DEF DeckShape
  <2>3. deck' = Relocked(contacts, said) /\ contacts' = contacts
    BY <1>2, <2>1 DEF Report
  <2>4. ASSUME NEW q \in Panels
        PROVE  /\ DOMAIN deck'[q] = {"hull", "place", "lock", "selected"}
               /\ deck'[q].hull = said[q].hull /\ deck'[q].place = said[q].place
               /\ deck'[q].selected = said[q].selected /\ deck'[q].lock \in Ids \cup {NoShip}
    BY <2>2, <2>3, RelockedIs DEF DeckShape
  <2>5. DOMAIN deck' = Panels
    BY <2>3 DEF Relocked
  <2> QED BY <2>2, <2>3, <2>4, <2>5 DEF DeckShape
<1>3. ASSUME NEW p \in Panels, NEW target \in HitTargets(p) \cup {Unselected}, ClickDeck(p, target)
      PROVE  DeckShape'
  <2>1. Selection(target)
    <3>1. CASE target = Unselected
      BY <3>1, NothingSelected
    <3>2. CASE target \in HitTargets(p)
      BY <3>2, SpotSelected, AircraftSelected DEF HitTargets, DeckShape
    <3> QED BY <3>1, <3>2
  <2>2. PICK sel : sel = Clicked(deck[p].selected, target)
    OBVIOUS
  <2>3. Selection(sel)
    BY <2>1, <2>2, NothingSelected DEF Clicked
  <2>4. deck' = [deck EXCEPT ![p].selected = sel] /\ contacts' = contacts
    BY <1>3, <2>2 DEF ClickDeck
  <2>5. ASSUME NEW q \in Panels
        PROVE  /\ DOMAIN deck'[q] = {"hull", "place", "lock", "selected"}
               /\ deck'[q].hull = deck[q].hull /\ deck'[q].place = deck[q].place
               /\ deck'[q].selected \in {deck[q].selected, sel} /\ deck'[q].lock = deck[q].lock
    BY <2>4 DEF DeckShape
  <2>6. DOMAIN deck' = Panels
    BY <2>4 DEF DeckShape
  <2> QED BY <2>3, <2>4, <2>5, <2>6 DEF DeckShape
<1>4. CASE UNCHANGED deckVars
  BY <1>4 DEF deckVars, DeckShape
<1> QED BY <1>1, <1>2, <1>3, <1>4 DEF DeckNext

LEMMA Namesake == DeckShape => NamesakeIsDrawn
<1> SUFFICES ASSUME DeckShape, NEW p \in Panels, NEW u \in Ids,
                    contacts[u].is \in {"ship", "unsorted"} /\ p \in contacts[u].names
             PROVE  ShipOf(p) \in Ids /\ p \in contacts[ShipOf(p)].names
  BY DEF NamesakeIsDrawn
<1>1. Named(contacts, p) # {}
  BY DEF Named, DeckShape
<1>2. ShipOf(p) \in Named(contacts, p)
  BY <1>1, FoundType DEF ShipOf, DeckShape
<1> QED BY <1>2 DEF Named, DeckShape

LEMMA NoAircraft == DeckShape => NoAircraftIsTracked
<1> SUFFICES ASSUME DeckShape, NEW p \in Panels, ShipOf(p) # NoShip
             PROVE  contacts[ShipOf(p)].is \in {"ship", "unsorted"}
  BY DEF NoAircraftIsTracked
<1>1. ShipOf(p) \in Named(contacts, p) \cup ShipsIn(contacts)
  BY FoundType DEF ShipOf, DeckShape
<1> QED BY <1>1 DEF Named, ShipsIn

LEMMA OneDeck == DeckShape => OneDeckPerAircraft
<1> SUFFICES ASSUME DeckShape, NEW p \in Panels, NEW q \in Panels, p # q,
                    Named(contacts, p) # {}, Named(contacts, q) # {},
                    Named(contacts, p) \cap Named(contacts, q) = {},
                    NEW u \in OnDeck(p) \cap OnDeck(q)
             PROVE  FALSE
  BY DEF OneDeckPerAircraft
<1>1. ShipOf(p) = ShipOf(q)
  BY DEF OnDeck
<1>2. ShipOf(p) \in Named(contacts, p) /\ ShipOf(q) \in Named(contacts, q)
  BY FoundType DEF ShipOf, DeckShape
<1> QED BY <1>1, <1>2

LEMMA LitMarked == DeckShape => LitRoutesAreMarked
<1> SUFFICES ASSUME DeckShape, NEW p \in Panels
             PROVE  /\ \A r \in Lit(p) : {Spot("parking", r.start), Spot("launch", r.launch)}
                                           \subseteq Halos(p)
                    /\ \A s \in Spots(deck[p].hull) :
                         deck[p].selected.id = <<"launch", s>> /\ Lit(p) # {}
                           => Lit(p) = To(deck[p].hull, s)
  BY DEF LitRoutesAreMarked
<1>1. PICK h \in AllHulls : h = deck[p].hull
  BY DEF DeckShape
<1>2. PICK sel : sel = deck[p].selected
  OBVIOUS
<1>3. Selection(sel)
  BY <1>2 DEF DeckShape
<1>4. Lit(p) = {r \in sel.routes : r.hull = h}
  BY <1>1, <1>2 DEF Lit
<1>5. \A g \in AllHulls : \A r \in Routes(g) : r.hull = g
  BY RoutesHaveSpots
<1>6. ASSUME NEW r \in Lit(p)
      PROVE  {Spot("parking", r.start), Spot("launch", r.launch)} \subseteq Halos(p)
  <2>1. r \in Routes(h)
    BY <1>3, <1>4, <1>5, <1>6 DEF Selection
  <2>2. Spot("parking", r.start) \in Spots(h) /\ Spot("launch", r.launch) \in Spots(h)
    BY <2>1, RoutesHaveSpots
  <2>3. r \in From(h, Spot("parking", r.start)) /\ r \in To(h, Spot("launch", r.launch))
    BY <2>1 DEF From, To, Spot
  <2> QED BY <1>1, <1>6, <2>2, <2>3 DEF Halos
<1>7. ASSUME NEW s \in Spots(h), sel.id = <<"launch", s>>, NEW r \in Lit(p)
      PROVE  Lit(p) = To(h, s)
  <2>1. PICK g \in AllHulls : sel.routes = To(g, s)
    BY <1>3, <1>7 DEF Selection
  <2>2. \A t \in To(g, s) : t.hull = g
    BY <1>5 DEF To
  <2>3. g = h
    BY <1>4, <1>7, <2>1, <2>2
  <2> QED BY <1>4, <2>1, <2>2, <2>3
<1> QED BY <1>1, <1>2, <1>6, <1>7

-----------------------------------------------------------------------------
(* All of them                                                             *)

LEMMA EachFollows ==
  AirbossSpec => Spec /\ TargetsSpec /\ DeckInit /\ [][DeckNext]_deckVars
<1>1. AirbossInit => Init /\ TargetsInit /\ DeckInit
  BY DEF AirbossInit
<1>2. [AirbossNext]_<<focus, vars, targetsVars, deckVars>>
        => [Next]_vars /\ [TargetsNext]_targetsVars /\ [DeckNext]_deckVars
  BY DEF AirbossNext
<1> QED BY <1>1, <1>2, PTL DEF AirbossSpec, Spec, TargetsSpec

\* The deck drawn is of a unit that bears the panel's name, its own or its
\* group's, whenever the stream has one, and never an aircraft's; no aircraft is
\* on two decks, and the routes that are lit have their ends marked: for any panels, ids and hulls, and whatever was locked or selected
\* before (findDeckShip, drawDeckView, handleDeckClick).
THEOREM DecksRight == AirbossSpec => []DecksAreRight
<1>1. DeckShape => DecksAreRight
  BY Namesake, NoAircraft, OneDeck, LitMarked DEF DecksAreRight
<1> QED BY <1>1, EachFollows, DeckStart, DeckStep, PTL

\* The types of all the variables, for any sets and bounds.
THEOREM AirbossTypeCorrect == AirbossSpec => []AirbossTypeOK
<1>1. DeckShape => DeckTypeOK
  BY DEF DeckShape, DeckTypeOK
<1>2. TypeOK /\ TargetsTypeOK /\ DeckTypeOK => AirbossTypeOK
  BY DEF AirbossTypeOK
<1> QED BY <1>1, <1>2, EachFollows, TypeCorrect, TargetsTypeCorrect, DeckStart, DeckStep, PTL
===============================================================================
