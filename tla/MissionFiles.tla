------------------------------- MODULE MissionFiles -------------------------------
(***************************************************************************)
(* The mission files on the Mission page (web-dashboard/src/app/mission/   *)
(* page.tsx) and the DCS Missions folder behind it: the browser over the   *)
(* folder's .miz files, the queue and the uploads, the downloads and the   *)
(* uploads (mission_browse and mission_upload in rust-web-dashboard/src/   *)
(* routes/system.rs, mission_download in downloads.rs, mission_action in   *)
(* dcs.rs). A path is the sequence of its names below the folder.          *)
(***************************************************************************)
EXTENDS Naturals, FiniteSets, SequencesExt

CONSTANTS
  Tree,        \* files below Missions when the page opens
  Removable,   \* those the host may delete
  Uploadable,  \* names of files the user has
  MaxQueue     \* bound: missions in the list

TreeAssumption ==
  /\ Tree # {} /\ Removable \subseteq Tree /\ MaxQueue \in Nat
  /\ \A f \in Tree : f # <<>> /\ f \in Seq(ToSet(f))

VARIABLES
  disk,      \* the files there are
  queue,     \* the mission list
  running,   \* the mission DCS runs
  page,      \* what the page shows: listing, uploads, queue, current mission
  view,      \* the folder and the search of the browser, and was it placed
  transfer,  \* the download under way: the path clicked, and the path asked for
  got,       \* the last download that ended: the path clicked, and the file
  sending    \* uploads under way

vars == <<disk, queue, running, page, view, transfer, got, sending>>

NoPath == <<>>
Uploaded(name) == <<"Uploads", name>>
\* Directories start with a dot, are deeper than three, or are the uploads'.
Listed == {f \in disk : Len(f) <= 4 /\ \A i \in 1 .. Len(f) - 1 : f[i] \notin {"Uploads", ".git"}}

Init ==
  /\ disk = Tree /\ queue = {} /\ running \in Tree
  /\ page = [listing |-> {}, uploads |-> {}, queue |-> {}, current |-> ""]
  /\ view = [folder |-> NoPath, search |-> "", placed |-> "no"]
  /\ transfer = [clicked |-> NoPath, asked |-> NoPath]
  /\ got = [clicked |-> NoPath, file |-> NoPath]
  /\ sending = {}

\* The administrator deletes a file.
Delete(f) ==
  /\ f \in Removable /\ disk' = disk \ {f}
  /\ UNCHANGED <<queue, running, page, view, transfer, got, sending>>

-----------------------------------------------------------------------------
(* What the page shows                                                     *)

\* What /missions matches of a name that begins so, in any case of letters: of
\* the names here, these, and the longer one only as far as it matches.
Matched == [Missions |-> "Missions", missions |-> "missions", Missions_old |-> "Missions"]
\* The first listing with a file places the browser at the last match on the
\* way to its first file, which may be part of a name: of a folder's, or of the
\* file's own. The browser is then in a folder that is not there.
Placed(first) ==
  LET at == {i \in 2 .. Len(first) : first[i] \in DOMAIN Matched}
      last == Max(at)
  IN IF at = {} THEN NoPath ELSE Append(SubSeq(first, 1, last - 1), Matched[first[last]])

\* fetchMission, its two answers on the files; both come every 5 s.
Fetch ==
  /\ page' = [listing |-> Listed, uploads |-> {f \in disk : f[1] = "Uploads"},
              queue |-> queue, current |-> Last(running)]
  /\ IF view.placed = "yes" \/ Listed = {} THEN UNCHANGED view
     ELSE \E first \in Listed :
            view' = [view EXCEPT !.folder = Placed(first), !.placed = "yes"]
  /\ UNCHANGED <<disk, queue, running, transfer, got, sending>>

\* displayedFolders and displayedFiles
FoldersIn(folder) ==
  {f[Len(folder) + 1] : f \in
     {g \in page.listing : Len(g) > Len(folder) + 1 /\ IsPrefix(folder, g)}}
FilesIn(folder) == {f \in page.listing : Len(f) = Len(folder) + 1 /\ IsPrefix(folder, f)}

Searching == view.search # ""
\* A search shows the files whose paths contain it: here, by a whole name.
Shown == IF Searching THEN {f \in page.listing : Contains(f, view.search)} ELSE FilesIn(view.folder)

OpenFolder == \E name \in FoldersIn(view.folder) :
  /\ ~Searching
  /\ view' = [view EXCEPT !.folder = Append(@, name)]
  /\ UNCHANGED <<disk, queue, running, page, transfer, got, sending>>

\* Root, or a name of the trail.
Breadcrumb == \E i \in 0 .. Len(view.folder) - 1 :
  /\ ~Searching
  /\ view' = [view EXCEPT !.folder = SubSeq(@, 1, i)]
  /\ UNCHANGED <<disk, queue, running, page, transfer, got, sending>>

Search == \E word \in {"", "dusk"} :
  /\ view' = [view EXCEPT !.search = word]
  /\ UNCHANGED <<disk, queue, running, page, transfer, got, sending>>

-----------------------------------------------------------------------------
(* The buttons of a row                                                    *)

\* A row is marked Active by its file name, and then has no other button.
IsCurrent(f) == Last(f) = page.current

AddToQueue == \E f \in Shown \cup page.uploads :
  /\ ~IsCurrent(f)
  /\ queue' = queue \cup {f} /\ Cardinality(queue') <= MaxQueue
  /\ UNCHANGED <<disk, running, page, view, transfer, got, sending>>

RemoveFromQueue == \E f \in page.queue :
  /\ ~IsCurrent(f)
  /\ queue' = queue \ {f}
  /\ UNCHANGED <<disk, running, page, view, transfer, got, sending>>

\* load_file; DCS refuses a file that is gone, and the page does not say so.
RunNow == \E f \in Shown \cup page.uploads \cup page.queue :
  /\ ~IsCurrent(f) /\ f \in disk
  /\ running' = f
  /\ UNCHANGED <<disk, queue, page, view, transfer, got, sending>>

\* handleDownload trims a path up to its first Missions that follows a name: of a
\* file below such a folder it asks for another path.
IsMissions(name) == name \in {"Missions", "missions"}
Asked(f) ==
  LET at == {i \in 2 .. Len(f) - 1 : IsMissions(f[i])}
  IN IF at = {} THEN f ELSE SubSeq(f, Min(at) + 1, Len(f))

\* One download at a time: its buttons are disabled while there is one.
Download == \E f \in Shown \cup page.uploads :
  /\ transfer.clicked = NoPath
  /\ transfer' = [clicked |-> f, asked |-> Asked(f)]
  /\ UNCHANGED <<disk, queue, running, page, view, got, sending>>

\* mission_download and downloadFile: the bytes go to the save dialog, or an
\* error is shown. NoPath stands for the error.
Downloaded ==
  /\ transfer.clicked # NoPath
  /\ got' = [clicked |-> transfer.clicked,
             file |-> IF transfer.asked \in disk THEN transfer.asked ELSE NoPath]
  /\ transfer' = [clicked |-> NoPath, asked |-> NoPath]
  /\ UNCHANGED <<disk, queue, running, page, view, sending>>

\* handleFileUpload. The input stays enabled, so several can be under way.
Upload == \E name \in Uploadable :
  /\ sending' = sending \cup {name}
  /\ UNCHANGED <<disk, queue, running, page, view, transfer, got>>

\* mission_upload writes the file below Uploads, over one of the same name, and
\* leaves the queue alone, whatever the page says (page.tsx:538).
Stored == \E name \in sending :
  /\ disk' = disk \cup {Uploaded(name)}
  /\ sending' = sending \ {name}
  /\ UNCHANGED <<queue, running, page, view, transfer, got>>

\* The file is too large for the page, the server or a proxy, or is no .miz.
NotStored == \E name \in sending :
  /\ sending' = sending \ {name}
  /\ UNCHANGED <<disk, queue, running, page, view, transfer, got>>

Next ==
  \/ \E f \in Removable : Delete(f)
  \/ Fetch \/ OpenFolder \/ Breadcrumb \/ Search
  \/ AddToQueue \/ RemoveFromQueue \/ RunNow
  \/ Download \/ Downloaded \/ Upload \/ Stored \/ NotStored

Spec == Init /\ [][Next]_vars

-----------------------------------------------------------------------------
(* Properties                                                              *)

Names ==
  (UNION {ToSet(f) : f \in Tree}) \cup Uploadable \cup {"Uploads", "Missions", "missions"}
IsPath(f) == f \in Seq(Names)
TypeOK ==
  /\ \A f \in disk \cup queue \cup page.listing \cup {running, view.folder} : IsPath(f)
  /\ view.search \in {"", "dusk"} /\ view.placed \in {"yes", "no"}
  /\ sending \subseteq Uploadable
===================================================================================
