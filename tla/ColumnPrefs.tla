------------------------------ MODULE ColumnPrefs ------------------------------
(***************************************************************************)
(* The columns of an LSO table (web-dashboard/src/app/lso/LsoTable.tsx,    *)
(* useColumnPrefs.ts, columnPrefs.ts): order, hidden columns and sort are  *)
(* kept in the browser's localStorage, shown by every table of the same    *)
(* kind in every open tab, and changed from the headers, their menus and   *)
(* the Columns menu. As in NavPrefs, a change starts from the storage and  *)
(* is aimed at what the tab last rendered, a user has one pointer, and     *)
(* tabs opened before an upgrade keep the columns they were loaded with.   *)
(***************************************************************************)
EXTENDS Naturals, FiniteSets, SequencesExt, Filter

CONSTANTS
  Tabs,
  Releases,   \* the TableSpec of each release: columns and defaultHidden
  MaxChanges  \* bound: changes of the stored preferences

VARIABLES
  stored,   \* localStorage[spec.storageKey], or Absent
  changes,
  release,  \* the release the server hands out
  tab,      \* per tab: loaded release and the preferences rendered
  drag,     \* the header being dragged: its tab, id and place at the start
  blind     \* history: columns sorted by while they were stored as hidden

vars == <<stored, changes, release, tab, drag, blind>>

Columns == UNION {ToSet(Releases[r].columns) : r \in 1..Len(Releases)}

\* There is a release, and every one has columns, each once (TableSpec).
ColumnsAssumption ==
  /\ Len(Releases) \in Nat \ {0} /\ MaxChanges \in Nat /\ "none" \notin Tabs \cup Columns
  /\ \A r \in 1..Len(Releases) :
       /\ Releases[r].columns \in Seq(Columns) \ {<<>>} /\ IsInjective(Releases[r].columns)
       /\ Releases[r].defaultHidden \subseteq Columns

Steps == {0 - 1, 1}
NoSort == [id |-> "none", dir |-> "none"]
NoDrag == [tab |-> "none", page |-> "none", from |-> 0]

DefaultPrefs(spec) ==
  [order |-> spec.columns, hidden |-> spec.defaultHidden, sort |-> NoSort]
Absent == [order |-> <<>>, hidden |-> {}, sort |-> NoSort]

Table(t) == Releases[tab[t].loaded]
View(t) == tab[t].view
\* snapshot: what is stored, or the defaults of this tab's release.
Loaded(spec) == IF stored = Absent THEN DefaultPrefs(spec) ELSE stored
Current(t) == Loaded(Table(t))

-----------------------------------------------------------------------------
(* The operations on preferences                                           *)

Without(s, ids) == Filtered(s, ToSet(s) \ ids)
IndexOf(s, c) == CHOOSE i \in 1..Len(s) : s[i] = c

FullOrder(prefs, spec) ==
  Filtered(prefs.order, ToSet(spec.columns)) \o Without(spec.columns, ToSet(prefs.order))

\* Fault: a table whose columns are all hidden is empty.
ShownOnly(prefs, spec) == Without(FullOrder(prefs, spec), prefs.hidden)
\* resolveColumns: never an empty table.
AllHidden(prefs, spec) == ToSet(spec.columns) \subseteq prefs.hidden
Visible(prefs, spec) ==
  IF AllHidden(prefs, spec) THEN FullOrder(prefs, spec)
  ELSE Without(FullOrder(prefs, spec), prefs.hidden)
Hidden(prefs, spec) ==
  IF AllHidden(prefs, spec) THEN <<>> ELSE Filtered(FullOrder(prefs, spec), prefs.hidden)

Reordered(prefs, order) == [prefs EXCEPT !.order = order]

MoveVisibleIndex(prefs, from, to, spec) ==
  LET visible == Visible(prefs, spec)
      rest == Without(FullOrder(prefs, spec), {visible[from]})
      target == IndexOf(rest, visible[to])
  IN  IF from = to \/ {from, to} \ DOMAIN visible # {} THEN prefs
      ELSE Reordered(prefs,
             InsertAt(rest, IF from < to THEN target + 1 ELSE target, visible[from]))

MoveVisible(prefs, c, d, spec) ==
  LET visible == Visible(prefs, spec)
  IN  IF c \notin ToSet(visible) THEN prefs
      ELSE MoveVisibleIndex(prefs, IndexOf(visible, c), IndexOf(visible, c) + d, spec)

MoveInOrder(prefs, c, d, spec) ==
  LET order == FullOrder(prefs, spec)
      from == IndexOf(order, c)
  IN  IF c \notin ToSet(order) \/ from + d \notin DOMAIN order THEN prefs
      ELSE Reordered(prefs, [order EXCEPT ![from] = order[from + d], ![from + d] = c])

HideColumn(prefs, c, spec) ==
  IF c \notin ToSet(Visible(prefs, spec)) \/ Len(Visible(prefs, spec)) <= 1 THEN prefs
  ELSE [order |-> FullOrder(prefs, spec), hidden |-> prefs.hidden \cup {c},
        sort |-> IF prefs.sort.id = c THEN NoSort ELSE prefs.sort]
ShowColumn(prefs, c) == [prefs EXCEPT !.hidden = @ \ {c}]

SetSort(prefs, sort) == [prefs EXCEPT !.sort = sort]
CycleSort(prefs, c) ==
  SetSort(prefs, CASE prefs.sort.id # c -> [id |-> c, dir |-> "asc"]
                   [] prefs.sort = [id |-> c, dir |-> "asc"] -> [id |-> c, dir |-> "desc"]
                   [] OTHER -> NoSort)

IsCustomised(prefs, spec) ==
  \/ prefs.sort # NoSort
  \/ Visible(prefs, spec) # Visible(DefaultPrefs(spec), spec)
  \/ Hidden(prefs, spec) # Hidden(DefaultPrefs(spec), spec)

\* The insertion slot counts the dragged header, the index it lands at does not.
SlotToIndex(from, slot) == IF slot > from THEN slot - 1 ELSE slot

-----------------------------------------------------------------------------
(* The tables                                                              *)

Init ==
  /\ stored = Absent /\ changes = 0 /\ release = 1
  /\ tab = [t \in Tabs |-> [loaded |-> 1, view |-> DefaultPrefs(Releases[1])]]
  /\ drag = NoDrag /\ blind = {}

\* update() of useColumnPrefs: read, change, write and render in one go.
Updated(t, prefs) ==
  /\ stored' = IF prefs = Current(t) THEN stored ELSE prefs
  /\ changes' = changes + (IF prefs = Current(t) THEN 0 ELSE 1)
  /\ tab' = [tab EXCEPT ![t].view = prefs]
  /\ drag' = NoDrag
  /\ UNCHANGED release

\* The pointer is free (and the bound leaves a change to make).
MayAct == drag = NoDrag /\ changes < MaxChanges
MayActOn(t, c) == MayAct /\ c \in ToSet(Visible(View(t), Table(t)))

Sorted(t, c) == blind' = blind \cup ({c} \cap Current(t).hidden)

ClickHeader(t, c) ==
  /\ MayActOn(t, c)
  /\ Updated(t, CycleSort(Current(t), c)) /\ Sorted(t, c)

\* Sort ascending and Sort descending of a header's menu.
SortBy(t, c, dir) ==
  /\ MayActOn(t, c) /\ View(t).sort # [id |-> c, dir |-> dir]
  /\ Updated(t, SetSort(Current(t), [id |-> c, dir |-> dir])) /\ Sorted(t, c)

ClearSort(t) ==
  /\ MayAct /\ View(t).sort # NoSort
  /\ Updated(t, SetSort(Current(t), NoSort)) /\ UNCHANGED blind

\* Move left and Move right of a header's menu.
Move(t, c, d) ==
  LET visible == Visible(View(t), Table(t))
  IN  /\ MayActOn(t, c) /\ IndexOf(visible, c) + d \in DOMAIN visible
      /\ Updated(t, MoveVisible(Current(t), c, d, Table(t))) /\ UNCHANGED blind

\* The arrows of the Columns menu, which lists the hidden columns too.
MoveListed(t, c, d) ==
  LET order == FullOrder(View(t), Table(t))
  IN  /\ MayAct /\ c \in ToSet(order) /\ IndexOf(order, c) + d \in DOMAIN order
      /\ Updated(t, MoveInOrder(Current(t), c, d, Table(t))) /\ UNCHANGED blind

Hide(t, c) ==
  /\ MayActOn(t, c) /\ Len(Visible(View(t), Table(t))) > 1
  /\ Updated(t, HideColumn(Current(t), c, Table(t))) /\ UNCHANGED blind

Show(t, c) ==
  /\ MayAct /\ c \in ToSet(Hidden(View(t), Table(t)))
  /\ Updated(t, ShowColumn(Current(t), c)) /\ UNCHANGED blind

\* reset() removes the key.
Reset(t) ==
  /\ MayAct /\ IsCustomised(View(t), Table(t))
  /\ stored' = Absent /\ changes' = changes + 1
  /\ tab' = [tab EXCEPT ![t].view = DefaultPrefs(Table(t))]
  /\ UNCHANGED <<release, drag, blind>>

\* A mouse drag starts on the header at a place of the rendered table.
Grip(t, i) ==
  LET visible == Visible(View(t), Table(t))
  IN  /\ MayAct /\ i \in DOMAIN visible
      /\ drag' = [tab |-> t, page |-> visible[i], from |-> i]
      /\ UNCHANGED <<stored, changes, release, tab, blind>>

\* It ends in a slot of the table rendered by then.
Drop(t, slot) ==
  LET to == SlotToIndex(drag.from, slot)
  IN  /\ drag.tab = t /\ slot \in 1..Len(Visible(View(t), Table(t))) + 1
      /\ to # drag.from
      /\ Updated(t, MoveVisibleIndex(Current(t), drag.from, to, Table(t)))
      /\ UNCHANGED blind

\* Escape, or the button is released where it was.
LetGo ==
  /\ drag # NoDrag /\ drag' = NoDrag
  /\ UNCHANGED <<stored, changes, release, tab, blind>>

StorageEvent(t) ==
  /\ View(t) # Current(t)
  /\ tab' = [tab EXCEPT ![t].view = Current(t)]
  /\ UNCHANGED <<stored, changes, release, drag, blind>>

\* A new release of the dashboard is started; open tabs keep the old one.
Upgrade ==
  /\ release < Len(Releases)
  /\ release' = release + 1
  /\ UNCHANGED <<stored, changes, tab, drag, blind>>

Load(t) ==
  /\ drag.tab # t
  /\ tab' = [tab EXCEPT ![t] = [loaded |-> release, view |-> Loaded(Releases[release])]]
  /\ UNCHANGED <<stored, changes, release, drag, blind>>

Next ==
  \/ \E t \in Tabs :
       \/ \E c \in Columns :
            \/ ClickHeader(t, c) \/ Hide(t, c) \/ Show(t, c)
            \/ \E dir \in {"asc", "desc"} : SortBy(t, c, dir)
            \/ \E d \in Steps : Move(t, c, d) \/ MoveListed(t, c, d)
       \/ ClearSort(t) \/ Reset(t)
       \/ \E i \in 1..Cardinality(Columns) + 1 : Grip(t, i) \/ Drop(t, i)
       \/ StorageEvent(t) \/ Load(t)
  \/ LetGo \/ Upgrade

Spec == Init /\ [][Next]_vars

-----------------------------------------------------------------------------
(* Properties                                                              *)

TypeOK ==
  /\ stored.order \in Seq(Columns) /\ IsInjective(stored.order)
  /\ stored.hidden \subseteq Columns
  /\ stored.sort = NoSort \/ stored.sort \in [id : Columns, dir : {"asc", "desc"}]
  /\ changes \in 0..MaxChanges /\ release \in 1..Len(Releases)
  /\ \A t \in Tabs : tab[t].loaded \in 1..release
  /\ drag # NoDrag => drag.tab \in Tabs
  /\ blind \subseteq Columns

\* Whatever tabs of whatever releases have stored, a table has a column to
\* show, and each column of its release once, visible or hidden
\* (resolveColumns): also when a release dropped the only visible ones.
NeverBlank ==
  \A t \in Tabs :
    LET listed == Visible(View(t), Table(t)) \o Hidden(View(t), Table(t))
    IN  /\ Visible(View(t), Table(t)) # <<>>
        /\ IsInjective(listed) /\ ToSet(listed) = ToSet(Table(t).columns)

\* The header menu exchanges a column with its visible neighbour, the Columns
\* menu with its neighbour in the full list, and neither disturbs the others
\* (moveVisible, moveInOrder).
MovesByOne ==
  MayAct => \A t \in Tabs : \A c \in ToSet(Table(t).columns) : \A d \in Steps :
    LET Exchanged(s, i) == [s EXCEPT ![i] = s[i + d], ![i + d] = s[i]]
        Stepped(s) == IF c \in ToSet(s) /\ IndexOf(s, c) + d \in DOMAIN s
                      THEN Exchanged(s, IndexOf(s, c)) ELSE s
    IN  /\ Visible(MoveVisible(Current(t), c, d, Table(t)), Table(t))
             = Stepped(Visible(Current(t), Table(t)))
        /\ FullOrder(MoveInOrder(Current(t), c, d, Table(t)), Table(t))
             = Stepped(FullOrder(Current(t), Table(t)))

\* A dropped header is the one that was gripped and stands where it was
\* dropped, unless another tab has put a different column where it was gripped.
DropsWhatWasGripped ==
  \A t \in Tabs, slot \in 1..Cardinality(Columns) + 1 :
    LET before == Visible(Current(t), Table(t))
        to == SlotToIndex(drag.from, slot)
    IN  /\ drag.tab = t
        /\ drag.from \in DOMAIN before /\ to \in DOMAIN before
        /\ before[drag.from] = drag.page
        => Visible(MoveVisibleIndex(Current(t), drag.from, to, Table(t)), Table(t))
             = InsertAt(Without(before, {drag.page}), to, drag.page)

\* Hiding one of several visible columns hides that one and no other, and the
\* table is not sorted by it any more; but in a table that shows every column
\* because all of them are stored as hidden, hiding has no effect (hideColumn).
HidingHides ==
  MayAct => \A t \in Tabs : \A c \in ToSet(Table(t).columns) :
    LET before == Visible(Current(t), Table(t))
        hidden == HideColumn(Current(t), c, Table(t))
    IN  Len(before) > 1 /\ c \in ToSet(before) =>
          /\ hidden.sort.id # c
          /\ Visible(hidden, Table(t)) =
               IF AllHidden(Current(t), Table(t)) THEN before ELSE Without(before, {c})

\* A table is sorted by a column it shows, unless a tab sorted by a column that
\* was hidden by another tab, or that it showed only because all were hidden (a
\* stored sort on a hidden column is kept and ignored, and applies again when
\* the column is shown).
SortedByShown ==
  \A t \in Tabs :
    LET id == Current(t).sort.id
    IN  id \in ToSet(Table(t).columns) \ blind => id \in ToSet(Visible(Current(t), Table(t)))
================================================================================
