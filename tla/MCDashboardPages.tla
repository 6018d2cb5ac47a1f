---------------------------- MODULE MCDashboardPages ----------------------------
(***************************************************************************)
(* The pages that keep what they show themselves, in one instance: the     *)
(* left panel, the columns of an LSO table, the greenie board and the      *)
(* browser of the mission files. They share no state, so a behaviour       *)
(* follows one of them (focus) and leaves the others alone, as in          *)
(* MCDashboardLive.                                                        *)
(***************************************************************************)
EXTENDS NavPrefs

CONSTANTS
  TableReleases,                                                       \* ColumnPrefs
  PassKinds, NoUcid, NoPoints, PageLimit, PerPilot, MaxPasses, MaxInFlight,   \* LsoBoard
  Tree, Removable, Uploadable, MaxQueue                                \* MissionFiles

VARIABLES
  focus,                                                   \* what is followed
  prefs, edits, version, table, grip, blind,               \* ColumnPrefs
  passes, database, page, showAll, shown, requests,        \* LsoBoard
  disk, queue, running, browser, view, transfer, got, sending   \* MissionFiles

columnVars == <<prefs, edits, version, table, grip, blind>>
boardVars == <<passes, database, page, showAll, shown, requests>>
diskVars == <<disk, queue, running, browser, view, transfer, got, sending>>
pagesVars == <<focus, vars, columnVars, boardVars, diskVars>>

\* The values of the constants: a release that drops a page and adds one, before one that was there.
PanelReleases == <<<<"status", "chat", "old">>, <<"status", "new", "chat">>>>
\* Likewise for the columns; each release hides one by default.
ColumnReleases ==
  <<[columns |-> <<"pilot", "grade", "wire">>, defaultHidden |-> {"wire"}],
    [columns |-> <<"grade", "wire", "case">>, defaultHidden |-> {"case"}]>>
\* Two pilots who fly under one name, and a row of that name without a UCID.
Namesakes ==
  {[ucid |-> "u1", name |-> "a", points |-> 4],
   [ucid |-> "u2", name |-> "a", points |-> NoPoints],
   [ucid |-> NoUcid, name |-> "a", points |-> 3]}
\* Namesakes in two folders, one of them called Missions, and one that the user
\* uploads.
MissionTree ==
  {<<"Campaign", "dawn">>, <<"Campaign", "Missions", "dusk">>,
   <<"Campaign", "Missions_old", "dusk">>}
RemovableFiles == {<<"Campaign", "dawn">>}

Table == INSTANCE ColumnPrefs
  WITH Releases <- TableReleases, stored <- prefs, changes <- edits,
       release <- version, tab <- table, drag <- grip
Board == INSTANCE LsoBoard
Disk == INSTANCE MissionFiles WITH page <- browser
ASSUME PartsAssumption == Table!ColumnsAssumption /\ Board!BoardAssumption /\ Disk!TreeAssumption

PagesInit ==
  /\ focus \in {"panel", "columns", "board", "disk"}
  /\ Init /\ Table!Init /\ Board!Init /\ Disk!Init
  /\ focus # "board" => database = "absent" /\ page = "board"
  /\ focus # "disk" => running = CHOOSE f \in Tree : TRUE

PagesNext ==
  /\ UNCHANGED focus
  /\ \/ focus = "panel" /\ Next /\ UNCHANGED <<columnVars, boardVars, diskVars>>
     \/ focus = "columns" /\ Table!Next /\ UNCHANGED <<vars, boardVars, diskVars>>
     \/ focus = "board" /\ Board!Next /\ UNCHANGED <<vars, columnVars, diskVars>>
     \/ focus = "disk" /\ Disk!Next /\ UNCHANGED <<vars, columnVars, boardVars>>

\* The fairness of the panel (NavPrefs) and of the board (LsoBoard), whose
\* timer runs where the board is followed.
PagesFairness ==
  /\ Fairness
  /\ WF_boardVars(focus = "board" /\ Board!Refresh)
  /\ WF_boardVars(focus = "board" /\ \E i \in DOMAIN requests : Board!Serve(i))
  /\ WF_boardVars(focus = "board" /\ \E i \in DOMAIN requests : Board!Show(i))
  /\ Board!LeftOpen

PagesSpec == PagesInit /\ [][PagesNext]_pagesVars /\ PagesFairness

-----------------------------------------------------------------------------
(* The properties, of the one that is followed. Each part is stated with   *)
(* its code in the module it comes from.                                   *)

\* The types of the variables of what is followed.
PagesTypeOK ==
  /\ focus = "panel" => TypeOK
  /\ focus = "columns" => Table!TypeOK
  /\ focus = "board" => Board!TypeOK
  /\ focus = "disk" => Disk!TypeOK

\* Whatever tabs of different releases have stored, a panel lists every page
\* and a table every column of its release once, and a table is never blank
\* and sorted by a column it shows (resolveNav, resolveColumns, hideColumn).
EntriesOnce ==
  /\ focus = "panel" => EveryPageOnce
  /\ focus = "columns" => Table!NeverBlank /\ Table!SortedByShown

\* The controls do what they are aimed at and leave the rest alone, whatever
\* is hidden between the entries: a move exchanges neighbours, a drop puts
\* what was gripped where it was dropped, hiding and showing hide and show
\* without moving anything (navPrefs.ts, columnPrefs.ts).
ControlsDoAsAimed ==
  /\ focus = "panel" => MovesByOne /\ DropsWhatWasGripped /\ PlacesAreKept
  /\ focus = "columns" =>
       Table!MovesByOne /\ Table!DropsWhatWasGripped /\ Table!HidingHides

\* The board shows the newest passes under their numbers, late by the passes
\* recorded between two queries at most, and says that it is not configured
\* only when it is not; the pilots page gives every pass to the pilot who flew
\* it (list_passes, list_by_pilot, refresh).
BoardIsRight == focus = "board" =>
  /\ Board!NumbersAreRight /\ Board!UnconfiguredIsSo
  /\ Board!PassesAreTheirPilots

\* The statistics of the pilots page cover the passes that are not sent too.
StatisticsAddUp == focus = "board" => Board!StatisticsCoverAll

\* What is hidden stays so until somebody changes that, and an Undo brings back
\* the panel the user changed, every page in its place (hidePage, showPage,
\* doHide, doReset).
HidingIsKept == HiddenStaysHidden /\ UndoRestores

\* A page that is left open catches up: the board with the passes, and the
\* tabs with each other's panels (refresh, useNavPrefs).
PagesCatchUp == Board!CatchesUp /\ TabsAgree
=================================================================================
