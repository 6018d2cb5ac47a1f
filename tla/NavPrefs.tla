------------------------------- MODULE NavPrefs --------------------------------
(***************************************************************************)
(* The page list of the left panel (web-dashboard/src/components/          *)
(* SortableNav.tsx, useNavPrefs.ts, navPrefs.ts): every open tab renders   *)
(* the order and the hidden pages kept in the browser's localStorage, and  *)
(* changes them by menu, by drag and drop and by the Undo of a toast.      *)
(* A change starts from the storage, but what the user aims at is what the *)
(* tab last rendered, and the storage event of another tab comes later.    *)
(* Tabs opened before an upgrade of the dashboard keep the page registry   *)
(* they were loaded with. The tabs are one user's, who has one pointer: a  *)
(* drag leaves no hand free for another tab. A menu is as old as the list  *)
(* it was opened on: an open menu is a tab whose storage event has not     *)
(* come yet.                                                               *)
(***************************************************************************)
EXTENDS Naturals, FiniteSets, SequencesExt, Filter

CONSTANTS
  Tabs,
  Releases,   \* NAV_PAGES of each release of the dashboard, oldest first
  Pinned,     \* the pages no release lets the user hide
  MaxChanges  \* bound: changes of the stored preferences

VARIABLES
  stored,   \* localStorage[NAV_PREFS_KEY]
  changes,
  release,  \* the release the server hands out
  tab,      \* per tab: loaded release, prefs rendered, toast
  drag      \* the page being dragged: its tab, id and place at the start

vars == <<stored, changes, release, tab, drag>>

Pages == UNION {ToSet(Releases[r]) : r \in 1..Len(Releases)}

\* There is a release, and none lists a page twice (NAV_PAGES).
ASSUME NavAssumption ==
  /\ Len(Releases) \in Nat \ {0} /\ MaxChanges \in Nat /\ "none" \notin Tabs
  /\ \A r \in 1..Len(Releases) : Releases[r] \in Seq(Pages) /\ IsInjective(Releases[r])

\* navPrefs.ts: nothing stored, nothing usable stored, or the key removed.
DefaultPrefs == [order |-> <<>>, hidden |-> {}]

NoDrag == [tab |-> "none", page |-> "none", from |-> 0]
NoToast == [kind |-> "none", page |-> "none", prefs |-> DefaultPrefs,
            before |-> DefaultPrefs]
FreshTab(r) == [loaded |-> r, view |-> stored, toast |-> NoToast]

Registry(t) == Releases[tab[t].loaded]
View(t) == tab[t].view

-----------------------------------------------------------------------------
(* The operations on preferences                                           *)

Without(s, ids) == Filtered(s, ToSet(s) \ ids)
IndexOf(s, p) == CHOOSE i \in 1..Len(s) : s[i] = p

\* Fault: the pages of this release are all appended, those in the order too.
AppendsAll(prefs, pages) == Filtered(prefs.order, ToSet(pages)) \o pages
FullOrder(prefs, pages) ==
  Filtered(prefs.order, ToSet(pages)) \o Without(pages, ToSet(prefs.order))

HiddenIds(prefs, pages) == (prefs.hidden \cap ToSet(pages)) \ Pinned
Visible(prefs, pages) == Without(FullOrder(prefs, pages), HiddenIds(prefs, pages))
Hidden(prefs, pages) == Filtered(FullOrder(prefs, pages), HiddenIds(prefs, pages))
IsShown(prefs, p, pages) == p \in ToSet(Visible(prefs, pages))

Reordered(prefs, order) == [prefs EXCEPT !.order = order]

\* Fault: one place in the stored order, hidden pages included.
MovesInOrder(prefs, p, d, pages) ==
  LET order == FullOrder(prefs, pages)
      from == IndexOf(order, p)
  IN  IF from + d \notin 1..Len(order) THEN prefs
      ELSE Reordered(prefs, InsertAt(RemoveAt(order, from), from + d, p))
\* moveUp (d = -1) and moveDown (d = 1).
MoveVisible(prefs, p, d, pages) ==
  LET visible == Visible(prefs, pages)
      order == FullOrder(prefs, pages)
  IN  IF \/ ~IsShown(prefs, p, pages)
         \/ IndexOf(visible, p) + d \notin 1..Len(visible)
      THEN prefs
      ELSE LET target == visible[IndexOf(visible, p) + d]
           IN  Reordered(prefs, InsertAt(RemoveAt(order, IndexOf(order, p)),
                                         IndexOf(order, target), p))

MoveVisibleIndex(prefs, from, to, pages) ==
  LET visible == Visible(prefs, pages)
      rest == Without(FullOrder(prefs, pages), {visible[from]})
      target == IndexOf(rest, visible[to])
  IN  IF from = to \/ {from, to} \ DOMAIN visible # {} THEN prefs
      ELSE Reordered(prefs,
             InsertAt(rest, IF from < to THEN target + 1 ELSE target, visible[from]))

\* Fault: pages of other releases are forgotten.
HidesKnown(prefs, p, pages) ==
  IF p \in Pinned \cup prefs.hidden \/ p \notin ToSet(pages) THEN prefs
  ELSE [order |-> FullOrder(prefs, pages), hidden |-> (prefs.hidden \cap ToSet(pages)) \cup {p}]
HidePage(prefs, p, pages) ==
  IF p \in Pinned \cup prefs.hidden \/ p \notin ToSet(pages) THEN prefs
  ELSE [order |-> FullOrder(prefs, pages), hidden |-> prefs.hidden \cup {p}]

\* Fault: a page shown again goes to the end of the list.
ShowsLast(prefs, p) ==
  IF p \notin prefs.hidden THEN prefs
  ELSE [order |-> Without(prefs.order, {p}), hidden |-> prefs.hidden \ {p}]
ShowPage(prefs, p) == [prefs EXCEPT !.hidden = @ \ {p}]

IsCustomised(prefs, pages) ==
  Hidden(prefs, pages) # <<>> \/ Visible(prefs, pages) # pages

\* The insertion slot counts the dragged page, the index it lands at does not.
SlotToIndex(from, slot) == IF slot > from THEN slot - 1 ELSE slot

-----------------------------------------------------------------------------
(* The panel                                                               *)

Init ==
  /\ stored = DefaultPrefs /\ changes = 0 /\ release = 1
  /\ tab = [t \in Tabs |-> FreshTab(1)]
  /\ drag = NoDrag

\* update() and reset() of useNavPrefs: read, change and write the storage in
\* one go, and render the result in this tab.
Updated(t, prefs, toast) ==
  /\ changes' = changes + (IF prefs = stored THEN 0 ELSE 1)
  /\ stored' = prefs
  /\ tab' = [tab EXCEPT ![t].view = prefs, ![t].toast = toast]
  /\ drag' = NoDrag
  /\ UNCHANGED release

\* The pointer is free (and the bound leaves a change to make).
MayAct == drag = NoDrag /\ changes < MaxChanges

\* Move up and Move down of a page's menu.
Move(t, p, d) ==
  LET visible == Visible(View(t), Registry(t))
  IN  /\ MayAct /\ p \in ToSet(visible)
      /\ IndexOf(visible, p) + d \in 1..Len(visible)
      /\ Updated(t, MoveVisible(stored, p, d, Registry(t)), tab[t].toast)

Hide(t, p) ==
  /\ MayAct /\ IsShown(View(t), p, Registry(t)) /\ p \notin Pinned
  /\ Updated(t, HidePage(stored, p, Registry(t)),
             [kind |-> "hide", page |-> p, prefs |-> DefaultPrefs, before |-> stored])

\* Show, of a hidden page's menu or button.
Show(t, p) ==
  /\ MayAct /\ p \in ToSet(Hidden(View(t), Registry(t)))
  /\ Updated(t, ShowPage(stored, p), tab[t].toast)

\* Reset to default: the preferences the menu was built from go to the toast.
Reset(t) ==
  /\ MayAct /\ IsCustomised(View(t), Registry(t))
  /\ Updated(t, DefaultPrefs,
             [kind |-> "reset", page |-> "none", prefs |-> View(t), before |-> stored])

Undo(t) ==
  /\ MayAct /\ tab[t].toast.kind # "none"
  /\ Updated(t, IF tab[t].toast.kind = "hide" THEN ShowPage(stored, tab[t].toast.page)
                ELSE tab[t].toast.prefs, NoToast)

ToastExpires(t) ==
  /\ tab[t].toast.kind # "none"
  /\ tab' = [tab EXCEPT ![t].toast = NoToast]
  /\ UNCHANGED <<stored, changes, release, drag>>

\* A drag starts on the page at a place of the rendered list.
Grip(t, i) ==
  LET visible == Visible(View(t), Registry(t))
  IN  /\ MayAct /\ i \in DOMAIN visible
      /\ drag' = [tab |-> t, page |-> visible[i], from |-> i]
      /\ UNCHANGED <<stored, changes, release, tab>>

\* It ends in a slot of the list rendered by then.
Drop(t, slot) ==
  LET to == SlotToIndex(drag.from, slot)
  IN  /\ drag.tab = t /\ slot \in 1..Len(Visible(View(t), Registry(t))) + 1
      /\ to # drag.from
      /\ Updated(t, MoveVisibleIndex(stored, drag.from, to, Registry(t)), tab[t].toast)

\* Escape, or the pointer is released where it was.
LetGo ==
  /\ drag # NoDrag
  /\ drag' = NoDrag
  /\ UNCHANGED <<stored, changes, release, tab>>

\* A change by another tab is still to be rendered here.
Notified(t) == View(t) # stored

StorageEvent(t) ==
  /\ Notified(t)
  /\ tab' = [tab EXCEPT ![t].view = stored]
  /\ UNCHANGED <<stored, changes, release, drag>>

\* A new release of the dashboard is started; open tabs keep the old one.
Upgrade ==
  /\ release < Len(Releases)
  /\ release' = release + 1
  /\ UNCHANGED <<stored, changes, tab, drag>>

Load(t) ==
  /\ drag.tab # t
  /\ tab' = [tab EXCEPT ![t] = FreshTab(release)]
  /\ UNCHANGED <<stored, changes, release, drag>>

Next ==
  \/ \E t \in Tabs :
       \/ \E p \in Pages : \/ \E d \in {0 - 1, 1} : Move(t, p, d)
                           \/ Hide(t, p) \/ Show(t, p)
       \/ Reset(t) \/ Undo(t) \/ ToastExpires(t)
       \/ \E i \in 1..Cardinality(Pages) + 1 : Grip(t, i) \/ Drop(t, i)
       \/ StorageEvent(t) \/ Load(t)
  \/ LetGo \/ Upgrade

\* The browser delivers storage events to its tabs.
Fairness == \A t \in Tabs : WF_vars(StorageEvent(t))
Spec == Init /\ [][Next]_vars
FairSpec == Spec /\ Fairness

-----------------------------------------------------------------------------
(* Properties                                                              *)

TypeOK ==
  /\ stored \in [order : Seq(Pages), hidden : SUBSET (Pages \ Pinned)]
  /\ IsInjective(stored.order)
  /\ changes \in 0..MaxChanges /\ release \in 1..Len(Releases)
  /\ \A t \in Tabs : tab[t].loaded \in 1..release
                    /\ tab[t].toast.kind \in {"none", "hide", "reset"}
  /\ drag # NoDrag => drag.tab \in Tabs /\ drag.page \in ToSet(Registry(drag.tab))

\* Whatever tabs of whatever releases have stored, a panel lists each page of
\* its registry once, visible or hidden, and its pinned pages as visible
\* (resolveNav).
EveryPageOnce ==
  \A t \in Tabs :
    LET listed == Visible(View(t), Registry(t)) \o Hidden(View(t), Registry(t))
    IN  /\ IsInjective(listed) /\ ToSet(listed) = ToSet(Registry(t))
        /\ Pinned \cap ToSet(Hidden(View(t), Registry(t))) = {}

\* Move up and Move down exchange a page with its visible neighbour and touch
\* nothing else the user sees, hidden pages lying between the two or not, in
\* whatever the tabs have stored (moveVisible).
MovesByOne ==
  MayAct => \A t \in Tabs : \A p \in ToSet(Registry(t)) : \A d \in {0 - 1, 1} :
    LET moved == MoveVisible(stored, p, d, Registry(t))
        before == Visible(stored, Registry(t))
        at == IndexOf(before, p)
    IN  /\ Hidden(moved, Registry(t)) = Hidden(stored, Registry(t))
        /\ Visible(moved, Registry(t)) =
             IF p \in ToSet(before) /\ at + d \in DOMAIN before
             THEN [before EXCEPT ![at] = before[at + d], ![at + d] = p]
             ELSE before

\* A dropped page is the one that was gripped and stands where it was dropped,
\* the others in their order, hidden pages between them or not, unless another
\* tab has put a different page where it was gripped (moveVisibleIndex goes
\* by the place at which the drag started).
DropsWhatWasGripped ==
  \A t \in Tabs, slot \in 1..Cardinality(Pages) + 1 :
    LET before == Visible(stored, Registry(t))
        to == SlotToIndex(drag.from, slot)
    IN  /\ drag.tab = t
        /\ drag.from \in DOMAIN before /\ to \in DOMAIN before
        /\ before[drag.from] = drag.page
        => Visible(MoveVisibleIndex(stored, drag.from, to, Registry(t)), Registry(t))
             = InsertAt(Without(before, {drag.page}), to, drag.page)

\* The Undo of a toast brings back the panel the user changed, every page in
\* its place, when nothing was changed in between: not when another tab had
\* already hidden the page, or changed the panel before this one was rendered
\* again (doHide, doReset).
UndoRestores ==
  [][\A t \in Tabs : Undo(t) =>
       LET toast == tab[t].toast
           left == IF toast.kind = "reset" THEN DefaultPrefs
                   ELSE HidePage(toast.before, toast.page, Registry(t))
       IN  /\ stored = left
           /\ toast.page \notin toast.before.hidden
           /\ toast.kind = "reset" => toast.prefs = toast.before
           => Visible(stored, Registry(t))' = Visible(toast.before, Registry(t))]_vars

\* A page stays hidden, in tabs of every release, until somebody shows it,
\* resets the panel or undoes something: a tab that does not know the page
\* keeps it hidden for those that do (hidePage, showPage).
HiddenStaysHidden ==
  [][\A p \in stored.hidden \ stored'.hidden :
       \E t \in Tabs : Show(t, p) \/ Reset(t) \/ Undo(t)]_vars

\* Hiding and showing a page moves no page: those a tab knows keep their order
\* in the panels of every release that lists them in the tab's order (hidePage
\* stores the order of its release, the pages never placed included).
PlacesAreKept ==
  MayAct => \A t \in Tabs, r \in 1..Len(Releases) :
    LET Shared(prefs) == Filtered(FullOrder(prefs, Releases[r]), ToSet(Registry(t)))
    IN  Filtered(Releases[r], ToSet(Registry(t))) = Filtered(Registry(t), ToSet(Releases[r]))
        => \A p \in ToSet(Registry(t)) :
             Shared(stored) = Shared(IF p \in stored.hidden THEN ShowPage(stored, p)
                                     ELSE HidePage(stored, p, Registry(t)))

\* Every open tab ends up showing the panel as it was last changed.
TabsAgree == <>[](\A t \in Tabs : View(t) = stored)
================================================================================
