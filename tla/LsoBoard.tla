------------------------------- MODULE LsoBoard --------------------------------
(***************************************************************************)
(* The greenie board (rust-web-dashboard/src/lso.rs, routes/lso.rs; the    *)
(* pages web-dashboard/src/app/lso/page.tsx and pilots/page.tsx). The LSO  *)
(* client beside the dashboard appends one row per carrier landing to      *)
(* lso.db; the server reads it, counting the rows and selecting them in    *)
(* two queries that no transaction joins; a page asks again every few      *)
(* seconds whether or not it has its last answer, and shows whatever       *)
(* answer comes last. A browser tab shows one of the two pages.            *)
(***************************************************************************)
EXTENDS Integers, FiniteSets, SequencesExt, Filter

CONSTANTS
  PassKinds,    \* what a pass can be: its pilot's UCID and name, its points (in halves)
  NoUcid,       \* the UCID of a row written before UCIDs were recorded
  NoPoints,     \* the points of a pass that was not graded
  PageLimit,    \* PAGE_LIMIT of the board
  PerPilot,     \* DEFAULT_LIMIT of the pilots page
  MaxPasses,    \* bound: passes recorded
  MaxInFlight   \* bound: requests of the page without an answer

BoardAssumption ==
  /\ {PageLimit, PerPilot} \subseteq Nat \ {0} /\ {MaxPasses, MaxInFlight} \subseteq Nat
  /\ \A kind \in PassKinds : kind.points # NoPoints => kind.points \in Int

VARIABLES
  passes,    \* the rows of lso.db, oldest first: the id is the place
  database,  \* "unset" (no LSO_DIR), "absent" (no file yet) or "present"
  page,      \* "board" or "pilots"
  showAll,   \* the toggle of the pilots page
  shown,     \* what the page shows
  requests   \* the page's requests in flight, oldest first

vars == <<passes, database, page, showAll, shown, requests>>

All == MaxPasses  \* a cap on the passes of a pilot that cuts nothing

-----------------------------------------------------------------------------
(* The queries (lso.rs). Rows are only ever added, so what a query reads is *)
(* the first n rows for some n.                                            *)

\* ORDER BY id DESC
NewestFirst(ids, n) == Filtered([k \in 1..n |-> n + 1 - k], ids)
\* Fault: the oldest rows are kept.
LastOf(s, n) == SubSeq(s, IF Len(s) < n THEN 1 ELSE Len(s) + 1 - n, Len(s))
\* LIMIT, and the cap on the passes of a pilot
Limited(s, n) == SubSeq(s, 1, IF Len(s) < n THEN Len(s) ELSE n)

\* list_passes, as the board calls it
ListPasses(n) == Limited(NewestFirst(1..n, n), PageLimit)

UcidOf(id) == passes[id].ucid
NameOf(id) == passes[id].name
PointsOf(id) == passes[id].points

\* name_to_ucid: the UCIDs that passes of that name bear.
UcidsOf(name, n) == {UcidOf(id) : id \in {i \in 1..n : NameOf(i) = name}} \ {NoUcid}

\* GroupKey of a row.
KeyOf(id, n) ==
  IF UcidOf(id) # NoUcid THEN <<"ucid", UcidOf(id)>>
  ELSE IF Cardinality(UcidsOf(NameOf(id), n)) = 1
  THEN <<"ucid", CHOOSE u \in UcidsOf(NameOf(id), n) : TRUE>>
  ELSE <<"name", NameOf(id)>>

\* The sum of a sequence of numbers.
SumOf(s) ==
  LET upTo[k \in 0..Len(s)] == IF k = 0 THEN 0 ELSE upTo[k - 1] + s[k]
  IN  upTo[Len(s)]

\* Fault: passes without a grade count too.
AllGraded(rows) == rows
Graded(rows) == Filtered(rows, {id \in ToSet(rows) : PointsOf(id) # NoPoints})
\* One pilot of the answer: the passes cut to the cap, the statistics over all.
Pilot(rows, cap) ==
  LET graded == Graded(rows)
  IN  [name |-> NameOf(rows[1]),
       aliases |-> {NameOf(id) : id \in ToSet(rows)} \ {NameOf(rows[1])},
       total |-> Len(rows), graded |-> Len(graded),
       points |-> SumOf([i \in 1..Len(graded) |-> PointsOf(graded[i])]),
       passes |-> Limited(rows, cap)]

\* list_by_pilot: pilots in the order of their newest pass.
ListByPilot(cap, n) ==
  LET RowsOf(key) == NewestFirst({id \in 1..n : KeyOf(id, n) = key}, n)
      IsNewest(id) == \A i \in 1..n : i > id => KeyOf(i, n) # KeyOf(id, n)
      first == NewestFirst({id \in 1..n : IsNewest(id)}, n)
  IN  [i \in 1..Len(first) |-> Pilot(RowsOf(KeyOf(first[i], n)), cap)]

-----------------------------------------------------------------------------
(* The LSO client                                                          *)

Create ==
  /\ database = "absent"
  /\ database' = "present"
  /\ UNCHANGED <<passes, page, showAll, shown, requests>>

Record(kind) ==
  /\ database = "present" /\ Len(passes) < MaxPasses
  /\ passes' = Append(passes, kind)
  /\ UNCHANGED <<database, page, showAll, shown, requests>>

-----------------------------------------------------------------------------
(* The pages                                                               *)

\* An answer and what is shown of it: kind as BoardState (a pilots page has
\* "loading", "notice" or "ready"), the board's total, the pilots' cap, the
\* number of rows read, and the refresh error in the header.
Loading == [kind |-> "loading", total |-> 0, cap |-> 0, read |-> 0, error |-> "no"]

BoardRows == ListPasses(shown.read)
BoardPilots == ListByPilot(shown.cap, shown.read)

\* A request: its step and the answer to be, with the cap it asks for.
Cap(toggle) == IF toggle = "yes" THEN All ELSE PerPilot
Sent(toggle) == [at |-> "sent", answer |-> [Loading EXCEPT !.cap = Cap(toggle)]]

Init ==
  /\ passes = <<>> /\ database \in {"unset", "absent"}
  /\ page \in {"board", "pilots"} /\ showAll = "no"
  /\ shown = Loading /\ requests = <<>>

\* Another page is opened, or this one anew: answers to the old one are lost.
Open(p) ==
  /\ page' = p /\ showAll' = "no" /\ shown' = Loading /\ requests' = <<>>
  /\ UNCHANGED <<passes, database>>

\* Fault: the next request waits for a failure.
RefreshFailed ==
  /\ requests = <<>> /\ (shown.kind = "loading" \/ shown.error = "yes")
  /\ requests' = Append(requests, Sent(showAll))
  /\ UNCHANGED <<passes, database, page, showAll, shown>>
\* The timer of the page, and its first request.
Refresh ==
  /\ Len(requests) < MaxInFlight
  /\ requests' = Append(requests, Sent(showAll))
  /\ UNCHANGED <<passes, database, page, showAll, shown>>

\* The Last and All buttons of the pilots page ask at once.
Toggle ==
  /\ page = "pilots" /\ Len(requests) < MaxInFlight
  /\ showAll' = IF showAll = "yes" THEN "no" ELSE "yes"
  /\ requests' = Append(requests, Sent(showAll'))
  /\ UNCHANGED <<passes, database, page, shown>>

Advanced(i, at, answer) == [requests EXCEPT ![i] = [at |-> at, answer |-> answer]]
Answer(i) == requests[i].answer

\* No LSO_DIR or no lso.db: a 404. The board then asks for the status.
NotFound(i) ==
  /\ requests[i].at = "sent" /\ database # "present"
  /\ requests' = IF page = "board" THEN Advanced(i, "asking", Answer(i))
                 ELSE Advanced(i, "answered", [Answer(i) EXCEPT !.kind = "notice"])
  /\ UNCHANGED <<passes, database, page, showAll, shown>>

\* GET /api/lso/status: is LSO_DIR set?
Status(i) ==
  /\ requests[i].at = "asking"
  /\ requests' = Advanced(i, "answered",
       [Answer(i) EXCEPT !.kind = IF database = "unset" THEN "unconfigured" ELSE "waiting"])
  /\ UNCHANGED <<passes, database, page, showAll, shown>>

\* list_passes: count_passes, then the rows.
Count(i) ==
  /\ page = "board" /\ requests[i].at = "sent" /\ database = "present"
  /\ requests' = Advanced(i, "counted", [Answer(i) EXCEPT !.total = Len(passes)])
  /\ UNCHANGED <<passes, database, page, showAll, shown>>

Select(i) ==
  /\ \/ requests[i].at = "counted"
     \/ page = "pilots" /\ requests[i].at = "sent" /\ database = "present"
  /\ requests' = Advanced(i, "answered",
                          [Answer(i) EXCEPT !.kind = "ready", !.read = Len(passes)])
  /\ UNCHANGED <<passes, database, page, showAll, shown>>

Show(i) ==
  /\ requests[i].at = "answered"
  /\ shown' = requests[i].answer
  /\ requests' = RemoveAt(requests, i)
  /\ UNCHANGED <<passes, database, page, showAll>>

\* The refresh error: the page keeps what it shows, a board that shows nothing
\* yet says it is not configured.
Failed == [shown EXCEPT !.kind = IF page = "board" /\ @ = "loading" THEN "unconfigured" ELSE @,
                        !.error = "yes"]

\* A locked database, a lost connection, an unreadable answer.
Fail(i) ==
  /\ shown' = Failed
  /\ requests' = RemoveAt(requests, i)
  /\ UNCHANGED <<passes, database, page, showAll>>

Serve(i) == NotFound(i) \/ Status(i) \/ Count(i) \/ Select(i)

Next ==
  \/ Create \/ \E kind \in PassKinds : Record(kind)
  \/ \E p \in {"board", "pilots"} : Open(p)
  \/ Refresh \/ Toggle
  \/ \E i \in DOMAIN requests : Serve(i) \/ Show(i) \/ Fail(i)

\* The timer fires, the server answers and the page applies its answers; a
\* page that is left open and whose requests stop failing catches up.
Fairness ==
  /\ WF_vars(Refresh)
  /\ WF_vars(\E i \in DOMAIN requests : Serve(i))
  /\ WF_vars(\E i \in DOMAIN requests : Show(i))
LeftOpen ==
  <>[][/\ \A p \in {"board", "pilots"} : ~Open(p)
       /\ ~Toggle /\ \A i \in DOMAIN requests : ~Fail(i)]_vars

Spec == Init /\ [][Next]_vars
FairSpec == Spec /\ Fairness /\ LeftOpen

-----------------------------------------------------------------------------
(* Properties                                                              *)

Answers ==
  [kind : {"loading", "unconfigured", "waiting", "notice", "ready"}, total : 0..MaxPasses,
   cap : {0, All, PerPilot}, read : 0..MaxPasses, error : {"yes", "no"}]

TypeOK ==
  /\ passes \in Seq(PassKinds) /\ Len(passes) <= MaxPasses
  /\ database \in {"unset", "absent", "present"}
  /\ page \in {"board", "pilots"} /\ showAll \in {"yes", "no"}
  /\ shown \in Answers
  /\ Len(requests) <= MaxInFlight
  /\ \A i \in DOMAIN requests :
       requests[i].at \in {"sent", "asking", "counted", "answered"}
         /\ requests[i].answer \in Answers
         /\ page = "pilots" => requests[i].at \notin {"asking", "counted"}
  /\ page = "pilots" => shown.kind \in {"loading", "notice", "ready"}
  /\ page = "board" => shown.kind # "notice"

\* The board numbers its rows from the count of passes down: the newest passes,
\* each with its own number, or all of them behind by the passes that were
\* recorded between the count and the rows (list_passes, PassTable).
NumbersAreRight ==
  page = "board" /\ shown.kind = "ready" =>
    LET between == shown.read - shown.total
    IN  /\ between >= 0
        /\ Len(BoardRows) = IF shown.read < PageLimit THEN shown.read ELSE PageLimit
        /\ \A k \in DOMAIN BoardRows : BoardRows[k] = (shown.total + 1 - k) + between

\* The pilots page shows no pass twice and all of them when asked for all,
\* those of one UCID together, those of two UCIDs apart, and a pass without a
\* UCID only with passes of its name or of the one pilot who flew under it;
\* pilots and their passes newest first (list_by_pilot).
PassesAreTheirPilots ==
  page = "pilots" /\ shown.kind = "ready" =>
    LET pilots == BoardPilots
        Rows(k) == ToSet(pilots[k].passes)
        Shares(i, j) == \E k \in DOMAIN pilots : {i, j} \subseteq Rows(k)
        Known(name) == {UcidOf(i) : i \in {j \in 1..shown.read : NameOf(j) = name}} \ {NoUcid}
    IN  /\ \A k, l \in DOMAIN pilots : k < l =>
             Rows(k) \cap Rows(l) = {} /\ pilots[k].passes[1] > pilots[l].passes[1]
        /\ \A k \in DOMAIN pilots : IsSorted(pilots[k].passes, >)
        /\ shown.cap = All =>
             /\ UNION {Rows(k) : k \in DOMAIN pilots} = 1..shown.read
             /\ \A i, j \in 1..shown.read :
                  /\ UcidOf(i) # NoUcid /\ UcidOf(j) # NoUcid =>
                       (Shares(i, j) <=> UcidOf(i) = UcidOf(j))
                  /\ UcidOf(i) = NoUcid /\ UcidOf(j) # NoUcid =>
                       (Shares(i, j) <=> Known(NameOf(i)) = {UcidOf(j)})

\* However few passes of a pilot are sent, the numbers of passes add up to the
\* passes recorded, the graded ones to those with points, and the points the
\* averages are made of to the points of all of these.
StatisticsCoverAll ==
  page = "pilots" /\ shown.kind = "ready" =>
    LET pilots == BoardPilots
        graded == {i \in 1..shown.read : PointsOf(i) # NoPoints}
    IN  /\ SumOf([k \in 1..Len(pilots) |-> pilots[k].total]) = shown.read
        /\ SumOf([k \in 1..Len(pilots) |-> pilots[k].graded]) = Cardinality(graded)
        /\ SumOf([k \in 1..Len(pilots) |-> pilots[k].points])
             = SumOf([i \in 1..shown.read |-> IF i \in graded THEN PointsOf(i) ELSE 0])

\* The board says that it is not configured only when LSO_DIR is not set, or
\* with the error of its first refresh in the header (refresh in page.tsx).
UnconfiguredIsSo ==
  shown.kind = "unconfigured" /\ shown.error = "no" => database = "unset"

\* A page that is left open ends up with an answer that has read every pass
\* recorded, before its rows were counted, and with as many passes of each
\* pilot as it was last asked for, although answers come in any order and old
\* ones replace newer ones.
CatchesUp ==
  <>[](database = "present" =>
         /\ shown.kind = "ready" /\ shown.error = "no"
         /\ shown.read = Len(passes)
         /\ page = "board" => shown.total = Len(passes)
         /\ page = "pilots" => shown.cap = Cap(showAll))
================================================================================
