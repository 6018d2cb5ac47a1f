------------------------ MODULE ServerSettings_proofs ------------------------
(***************************************************************************)
(* No mission is queued twice, whatever interleaves; as long as requests   *)
(* that write come one at a time the file holds the settings saved last    *)
(* and, until a save puts an old list back, the queue that was asked for;  *)
(* and with no mishap that spoils its text it parses between requests. For *)
(* any editors, queue actions, settings and missions.                      *)
(*                                                                         *)
(* The second and third need the write that is under way: what it is about *)
(* to put into the file is what the history will say then, and the file is *)
(* blank while it is filled, so that filling it leaves nothing of the old  *)
(* text.                                                                   *)
(***************************************************************************)
EXTENDS ServerSettings, TLAPS, SequenceTheorems

Setting == Edits \cup {"initial", "error"}
File == {Blank, Torn} \cup {Whole(text) : text \in Text}
Job == [at : {"idle", "writing", "filling"}, new : File,
        saves : Setting \cup {"nothing"}, queues : SUBSET Missions]

Shape ==
  /\ file \in File
  /\ form \in [Editors -> Text \cup {<<>>}]
  /\ job \in [Clients -> Job]
  /\ saved \in Setting /\ queued \subseteq Missions
  /\ mishaps \subseteq {"overlap", "brace", "kill", "old list"}

\* A file and what is about to be written hold no mission twice.
FileOnce(f) == IsWhole(f) => IsInjective(f.text.queue)
Once ==
  /\ FileOnce(file) /\ \A c \in Clients : FileOnce(job[c].new)
  /\ \A p \in Editors : form[p] # <<>> => IsInjective(form[p].queue)

\* A whole file holds these settings and, unless an old list was put back,
\* exactly these missions.
Holds(f, settings, missions) ==
  IsWhole(f) => f.text.settings = settings /\ (NoOldList => ToSet(f.text.queue) = missions)

OneAtATime == \A c, d \in Clients : job[c].at # "idle" /\ job[d].at # "idle" => c = d
BlankWhileFilled == \A c \in Clients : job[c].at = "filling" => file = Blank
JobHolds(c) ==
  Holds(job[c].new, IF job[c].saves = "nothing" THEN saved ELSE job[c].saves, job[c].queues)
Sequential ==
  /\ OneAtATime /\ BlankWhileFilled /\ Holds(file, saved, queued)
  /\ \A c \in Clients : job[c].at # "idle" => JobHolds(c)

\* The file is whole but for the moment in which it is filled, and every write
\* composes a whole one.
Readable ==
  /\ IsWhole(file) \/ \E c \in Clients : job[c].at = "filling"
  /\ \A c \in Clients : job[c].at # "idle" => IsWhole(job[c].new)

IInv == /\ Shape /\ Once
        /\ "overlap" \notin mishaps => Sequential
        /\ mishaps \subseteq {"old list"} => Readable

-----------------------------------------------------------------------------
(* Files and queues                                                        *)

LEMMA WholeFiles ==
  /\ \A text : Whole(text).is = "whole" /\ Whole(text).text = text
  /\ ~IsWhole(Blank) /\ ~IsWhole(Torn) /\ Blank # Torn
  /\ \A f \in File : IsWhole(f) => f.text \in Text /\ f = Whole(f.text)
  /\ Blank \in File /\ Torn \in File /\ \A text \in Text : Whole(text) \in File
<1>1. Blank.is = "blank" /\ Torn.is = "torn"
  BY DEF Blank, Torn
<1>2. \A text : Whole(text).is = "whole" /\ Whole(text).text = text
  BY DEF Whole
<1>3. ASSUME NEW f \in File, IsWhole(f) PROVE f.text \in Text /\ f = Whole(f.text)
  <2>1. PICK text \in Text : f = Whole(text)
    BY <1>1, <1>3 DEF File, IsWhole
  <2> QED BY <1>2, <2>1
<1> QED BY <1>1, <1>2, <1>3 DEF File, IsWhole

\* mutate_queue adds a mission that is not there, and keeps the others.
LEMMA AddedAddsOne ==
  ASSUME NEW queue \in Seq(Missions), NEW m \in Missions, IsInjective(queue)
  PROVE  /\ Added(queue, m) \in Seq(Missions) /\ IsInjective(Added(queue, m))
         /\ ToSet(Added(queue, m)) = ToSet(queue) \cup {m}
<1>1. DOMAIN queue = 1..Len(queue) /\ Len(queue) \in Nat
  BY LenProperties
<1>2. CASE Contains(queue, m)
  BY <1>1, <1>2 DEF Added, Contains, ToSet
<1>3. CASE ~Contains(queue, m)
  <2> DEFINE new == Append(queue, m)
  <2>1. /\ new \in Seq(Missions) /\ DOMAIN new = 1..(Len(queue) + 1)
        /\ \A i \in 1..Len(queue) : new[i] = queue[i]
        /\ new[Len(queue) + 1] = m
    BY <1>1, AppendProperties, LenProperties
  <2>2. \A i \in 1..Len(queue) : queue[i] # m
    BY <1>3 DEF Contains
  <2>3. IsInjective(new)
    BY <1>1, <2>1, <2>2 DEF IsInjective
  <2>4. ToSet(new) = ToSet(queue) \cup {m}
    BY <1>1, <2>1 DEF ToSet
  <2> QED BY <1>3, <2>1, <2>3, <2>4 DEF Added
<1> QED BY <1>2, <1>3

\* ... and takes out the one that is asked for, and no other.
LEMMA RemovedRemovesOne ==
  ASSUME NEW queue \in Seq(Missions), NEW m \in Missions, IsInjective(queue)
  PROVE  /\ Removed(queue, m) \in Seq(Missions) /\ IsInjective(Removed(queue, m))
         /\ ToSet(Removed(queue, m)) = ToSet(queue) \ {m}
<1>1. DOMAIN queue = 1..Len(queue) /\ Len(queue) \in Nat
      /\ \A i \in 1..Len(queue) : queue[i] \in Missions
  BY LenProperties, ElementOfSeq
<1>2. CASE \A i \in 1..Len(queue) : queue[i] # m
  BY <1>1, <1>2 DEF Removed, RemoveFirst, ToSet
<1>3. CASE \E i \in 1..Len(queue) : queue[i] = m
  <2>1. PICK k \in 1..Len(queue) : queue[k] = m
    BY <1>3
  <2>2. {i \in 1..Len(queue) : queue[i] = m} = {k}
    BY <1>1, <2>1 DEF IsInjective
  <2>3. Min({k}) = k
    BY <1>1 DEF Min
  <2>4. SelectInSeq(queue, LAMBDA v : v = m) = k
    BY <2>2, <2>3 DEF SelectInSeq
  <2> DEFINE front == SubSeq(queue, 1, k - 1)
             back == SubSeq(queue, k + 1, Len(queue))
             new == front \o back
  <2>5. Removed(queue, m) = new
    BY <1>3, <2>4 DEF Removed, RemoveFirst, RemoveAt
  <2>6. /\ front \in Seq(Missions) /\ Len(front) = k - 1
        /\ \A i \in 1..(k - 1) : front[i] = queue[i]
    BY <1>1, SubSeqProperties
  <2>7. /\ back \in Seq(Missions) /\ Len(back) = Len(queue) - k
        /\ \A i \in 1..(Len(queue) - k) : back[i] = queue[k + i]
    <3>1. k + 1 \in Int /\ Len(queue) \in Int /\ \A i \in (k + 1)..Len(queue) : queue[i] \in Missions
      BY <1>1
    <3>2. /\ back \in Seq(Missions)
          /\ Len(back) = IF k + 1 <= Len(queue) THEN Len(queue) - (k + 1) + 1 ELSE 0
          /\ \A i \in 1..(Len(queue) - (k + 1) + 1) : back[i] = queue[(k + 1) + i - 1]
      BY <3>1, SubSeqProperties
    <3> HIDE DEF back
    <3>3. ASSUME NEW i \in 1..(Len(queue) - k) PROVE back[i] = queue[k + i]
      <4>1. i \in 1..(Len(queue) - (k + 1) + 1) /\ (k + 1) + i - 1 = k + i
        BY <1>1
      <4> QED BY <3>2, <4>1
    <3>4. Len(back) = Len(queue) - k
      <4>1. CASE k + 1 <= Len(queue)
        BY <1>1, <3>2, <4>1
      <4>2. CASE k = Len(queue)
        BY <1>1, <3>2, <4>2
      <4>3. k \in Int /\ Len(queue) \in Int /\ k <= Len(queue)
        BY <1>1
      <4> QED BY <4>1, <4>2, <4>3
    <3> QED BY <3>2, <3>3, <3>4
  <2> HIDE DEF front, back
  <2>8. /\ new \in Seq(Missions) /\ DOMAIN new = 1..(Len(queue) - 1)
        /\ \A i \in 1..(Len(queue) - 1) : new[i] = IF i < k THEN queue[i] ELSE queue[i + 1]
    <3>1. /\ new \in Seq(Missions) /\ Len(new) = Len(front) + Len(back)
          /\ \A i \in 1..(Len(front) + Len(back)) :
               new[i] = IF i <= Len(front) THEN front[i] ELSE back[i - Len(front)]
      BY <2>6, <2>7, ConcatProperties
    <3>2. Len(front) + Len(back) = Len(queue) - 1 /\ DOMAIN new = 1..Len(new)
      BY <1>1, <2>6, <2>7, <3>1, LenProperties
    <3> HIDE DEF new
    <3>3. ASSUME NEW i \in 1..(Len(queue) - 1)
          PROVE  new[i] = IF i < k THEN queue[i] ELSE queue[i + 1]
      <4>1. CASE i < k
        <5>1. i \in 1..(Len(front) + Len(back)) /\ i <= Len(front) /\ i \in 1..(k - 1)
          <6>1. Len(front) = k - 1 /\ Len(front) + Len(back) = Len(queue) - 1
            BY <2>6, <3>2
          <6>2. k \in Nat /\ Len(queue) \in Nat /\ i \in Nat
            BY <1>1
          <6> QED BY ONLY <6>1, <6>2, <4>1, i \in 1..(Len(queue) - 1)
        <5>2. new[i] = front[i]
          BY ONLY <3>1, <5>1
        <5> QED BY ONLY <2>6, <4>1, <5>1, <5>2
      <4>2. CASE i >= k
        <5>1. /\ Len(front) = k - 1 /\ i \in 1..(Len(front) + Len(back))
              /\ ~(i <= Len(front)) /\ i - (k - 1) \in 1..(Len(queue) - k)
          <6>1. Len(front) = k - 1 /\ Len(front) + Len(back) = Len(queue) - 1
            BY <2>6, <3>2
          <6>2. k \in Nat /\ Len(queue) \in Nat /\ k >= 1 /\ k <= Len(queue) /\ i \in Nat
            BY <1>1
          <6> QED BY ONLY <6>1, <6>2, <4>2, i \in 1..(Len(queue) - 1)
        <5>0. new[i] = back[i - (k - 1)]
          BY ONLY <3>1, <5>1
        <5>2. k + (i - (k - 1)) = i + 1
          BY <1>1
        <5>3. back[i - (k - 1)] = queue[i + 1]
          BY ONLY <2>7, <5>1, <5>2
        <5>4. i >= k => ~(i < k)
          BY <1>1
        <5> QED BY ONLY <4>2, <5>0, <5>3, <5>4
      <4>3. i \in Int /\ k \in Int
        BY <1>1
      <4> QED BY <4>1, <4>2, <4>3
    <3> QED BY <3>1, <3>2, <3>3
  <2> HIDE DEF new
  <2>9. IsInjective(new)
    <3>1. ASSUME NEW i \in 1..(Len(queue) - 1), NEW j \in 1..(Len(queue) - 1), new[i] = new[j]
          PROVE  i = j
      <4> DEFINE old(h) == IF h < k THEN h ELSE h + 1
      <4>1. old(i) \in DOMAIN queue /\ old(j) \in DOMAIN queue
        BY <1>1
      <4>2. queue[old(i)] = queue[old(j)]
        BY <2>8, <3>1
      <4>3. old(i) = old(j)
        BY <4>1, <4>2 DEF IsInjective
      <4> QED BY <1>1, <4>3
    <3> QED BY <2>8, <3>1 DEF IsInjective
  <2>10. ToSet(new) \subseteq ToSet(queue) \ {m}
    BY <1>1, <2>1, <2>8 DEF IsInjective, ToSet
  <2>11. ASSUME NEW i \in 1..Len(queue), queue[i] # m PROVE queue[i] \in ToSet(new)
    <3>1. CASE i < k
      <4>1. i \in DOMAIN new /\ new[i] = queue[i]
        BY <1>1, <2>8, <3>1
      <4> QED BY <4>1 DEF ToSet
    <3>2. CASE i > k
      <4>1. i - 1 \in DOMAIN new /\ ~(i - 1 < k) /\ (i - 1) + 1 = i
        BY <1>1, <2>8, <3>2
      <4>2. new[i - 1] = queue[i]
        BY <2>8, <4>1
      <4> QED BY <4>1, <4>2 DEF ToSet
    <3> QED BY <2>1, <2>11, <3>1, <3>2
  <2>12. ToSet(queue) \ {m} \subseteq ToSet(new)
    BY <1>1, <2>11 DEF ToSet
  <2> QED BY <2>5, <2>8, <2>9, <2>10, <2>12
<1> QED BY <1>2, <1>3

-----------------------------------------------------------------------------
(* A write starts                                                          *)

LEMMA MishapsType ==
  ASSUME mishaps \subseteq {"overlap", "brace", "kill", "old list"},
         NEW more \in SUBSET {"overlap", "brace", "kill", "old list"}
  PROVE  /\ Mishaps(more) \subseteq {"overlap", "brace", "kill", "old list"}
         /\ "overlap" \notin Mishaps(more) =>
              /\ "overlap" \notin mishaps /\ "overlap" \notin more
              /\ Mishaps(more) = mishaps \cup more
         /\ Mishaps(more) \subseteq {"old list"} =>
              mishaps \subseteq {"old list"} /\ more \subseteq {"old list"}
BY DEF Mishaps

LEMMA JobTypes ==
  /\ NoJob \in Job /\ NoJob.at = "idle" /\ NoJob.new = Blank
  /\ NoJob.saves = "nothing" /\ NoJob.queues = {}
BY WholeFiles DEF NoJob, Job

\* The jobs after a request has composed what it will write.
LEMMA JobStarts ==
  ASSUME Shape, NEW c \in Clients, NEW new \in File, NEW saves \in Setting \cup {"nothing"},
         NEW queues \in SUBSET Missions, Writing(c, new, saves, queues)
  PROVE  /\ job' \in [Clients -> Job]
         /\ job'[c].at = "writing" /\ job'[c].new = new
         /\ \A d \in Clients \ {c} : job'[d].at = job[d].at /\ job'[d].new = job[d].new
         /\ saved' \in Setting /\ queued' \subseteq Missions
         /\ "overlap" \notin mishaps \cup Overlap =>
              /\ job' = [job EXCEPT ![c] = [at |-> "writing", new |-> new,
                                            saves |-> saves, queues |-> queues]]
              /\ UNCHANGED <<saved, queued>>
<1>1. job \in [Clients -> Job] /\ saved \in Setting /\ queued \subseteq Missions
  BY DEF Shape
<1>2. CASE "overlap" \in mishaps \cup Overlap
  <2> DEFINE fresh == [NoJob EXCEPT !.at = "writing", !.new = new]
             old(d) == [job[d] EXCEPT !.saves = "nothing", !.queues = {}]
  <2>1. job' = [d \in Clients |-> IF d = c THEN fresh ELSE old(d)]
    BY <1>2 DEF Writing
  <2>2. fresh \in Job /\ fresh.at = "writing" /\ fresh.new = new
    BY JobTypes DEF Job
  <2>3. \A d \in Clients : old(d) \in Job /\ old(d).at = job[d].at /\ old(d).new = job[d].new
    BY <1>1 DEF Job
  <2>4. saved' \in Setting /\ queued' \subseteq Missions
    BY <1>2 DEF Writing, Setting
  <2> HIDE DEF fresh, old
  <2> QED BY <1>2, <2>1, <2>2, <2>3, <2>4
<1>3. CASE "overlap" \notin mishaps \cup Overlap
  <2>1. /\ job' = [job EXCEPT ![c] = [at |-> "writing", new |-> new,
                                      saves |-> saves, queues |-> queues]]
        /\ UNCHANGED <<saved, queued>>
    BY <1>3 DEF Writing
  <2>2. [at |-> "writing", new |-> new, saves |-> saves, queues |-> queues] \in Job
    BY DEF Job
  <2> QED BY <1>1, <2>1, <2>2
<1> QED BY <1>2, <1>3

\* What is composed keeps the invariant, if it holds no mission twice, what
\* the history will say once it is written, and is whole without a mishap.
LEMMA WritingKeeps ==
  ASSUME IInv, NEW c \in Clients, job[c].at = "idle",
         NEW new \in File, NEW saves \in Setting \cup {"nothing"}, NEW queues \in SUBSET Missions,
         Writing(c, new, saves, queues), UNCHANGED <<file, form>>,
         NEW more \in SUBSET {"brace"}, mishaps' = Mishaps(Overlap \cup more),
         FileOnce(new),
         "overlap" \notin mishaps =>
           Holds(new, IF saves = "nothing" THEN saved ELSE saves, queues),
         more = {} => IsWhole(new)
  PROVE  IInv'
<1>1. Shape /\ Once
  BY DEF IInv
<1>2. /\ job' \in [Clients -> Job]
      /\ job'[c].at = "writing" /\ job'[c].new = new
      /\ \A d \in Clients \ {c} : job'[d].at = job[d].at /\ job'[d].new = job[d].new
      /\ saved' \in Setting /\ queued' \subseteq Missions
      /\ "overlap" \notin mishaps \cup Overlap =>
           /\ job' = [job EXCEPT ![c] = [at |-> "writing", new |-> new,
                                         saves |-> saves, queues |-> queues]]
           /\ UNCHANGED <<saved, queued>>
  BY <1>1, JobStarts
<1>3. Overlap \subseteq {"overlap"} /\ ("overlap" \notin Overlap => Resting)
  BY DEF Overlap
<1>4. /\ mishaps' \subseteq {"overlap", "brace", "kill", "old list"}
      /\ "overlap" \notin mishaps' =>
           "overlap" \notin mishaps /\ "overlap" \notin Overlap /\ (NoOldList' => NoOldList)
      /\ mishaps' \subseteq {"old list"} =>
           mishaps \subseteq {"old list"} /\ Overlap = {} /\ more = {}
  <2>1. PICK all : all = Overlap \cup more
    OBVIOUS
  <2>2. mishaps' = Mishaps(all) /\ all \in SUBSET {"overlap", "brace", "kill", "old list"}
    BY <1>3, <2>1
  <2>3. /\ mishaps' \subseteq {"overlap", "brace", "kill", "old list"}
        /\ "overlap" \notin mishaps' =>
             "overlap" \notin mishaps /\ "overlap" \notin all /\ mishaps' = mishaps \cup all
        /\ mishaps' \subseteq {"old list"} => mishaps \subseteq {"old list"} /\ all \subseteq {"old list"}
    BY <1>1, <2>2, MishapsType DEF Shape
  <2> QED BY <1>3, <2>1, <2>3 DEF NoOldList
<1>5. Shape'
  BY <1>1, <1>2, <1>4 DEF Shape
<1>6. Once'
  BY <1>1, <1>2 DEF Once, FileOnce
<1>7. ASSUME "overlap" \notin mishaps' PROVE Sequential'
  <2>1. Sequential /\ Resting /\ "overlap" \notin mishaps \cup Overlap
    BY <1>3, <1>4, <1>7 DEF IInv
  <2>2. job' = [job EXCEPT ![c] = [at |-> "writing", new |-> new,
                                   saves |-> saves, queues |-> queues]]
        /\ UNCHANGED <<saved, queued, file>> /\ job \in [Clients -> Job]
    BY <1>1, <1>2, <2>1 DEF Shape
  <2>3. \A d \in Clients : job'[d].at # "idle" => d = c
    BY <2>1, <2>2 DEF Resting
  <2>4. OneAtATime' /\ BlankWhileFilled' /\ Holds(file, saved, queued)'
    BY <1>2, <1>4, <1>7, <2>1, <2>2, <2>3 DEF Sequential, OneAtATime, BlankWhileFilled, Holds
  <2>5. job'[c].saves = saves /\ job'[c].queues = queues
    BY <2>2
  <2>6. JobHolds(c)'
    BY <1>2, <1>4, <1>7, <2>1, <2>2, <2>5 DEF JobHolds, Holds
  <2> QED BY <2>3, <2>4, <2>6 DEF Sequential
<1>8. ASSUME mishaps' \subseteq {"old list"} PROVE Readable'
  <2>1. Readable /\ Resting /\ IsWhole(new)
    BY <1>3, <1>4, <1>8 DEF IInv
  <2>2. IsWhole(file) /\ \A d \in Clients : job'[d].at # "idle" => d = c
    BY <1>2, <2>1 DEF Readable, Resting
  <2> QED BY <1>2, <2>1, <2>2 DEF Readable, IsWhole
<1> QED BY <1>5, <1>6, <1>7, <1>8 DEF IInv

-----------------------------------------------------------------------------
(* The steps                                                               *)

LEMMA InitKeeps == Init => IInv
<1> SUFFICES ASSUME Init PROVE IInv
  OBVIOUS
<1> DEFINE text == [settings |-> "initial", queue |-> <<>>]
<1>1. <<>> \in Seq(Missions) /\ Len(<<>>) = 0 /\ DOMAIN <<>> = {}
  BY EmptySeq
<1>2. text \in Text /\ file = Whole(text) /\ file \in File /\ file.text = text /\ IsWhole(file)
  BY <1>1, WholeFiles DEF Init, Text, IsWhole
<1>3. IsInjective(<<>>) /\ ToSet(<<>>) = {}
  BY <1>1 DEF IsInjective, ToSet
<1>4. \A c \in Clients : job[c] = NoJob
  BY DEF Init
<1>5. Shape
  BY <1>2, JobTypes DEF Init, Shape, Setting
<1>6. Once
  BY <1>2, <1>3, <1>4, JobTypes, WholeFiles DEF Init, Once, FileOnce
<1>7. Sequential
  BY <1>2, <1>3, <1>4, JobTypes
  DEF Init, Sequential, OneAtATime, BlankWhileFilled, Holds
<1>8. Readable
  BY <1>2, <1>4, JobTypes DEF Readable
<1> QED BY <1>5, <1>6, <1>7, <1>8 DEF IInv

\* A form that is loaded or edited is no file.
LEMMA FormKeeps ==
  ASSUME IInv, NEW p \in Editors, NEW text \in Text, IsInjective(text.queue),
         form' = [form EXCEPT ![p] = text], UNCHANGED <<file, job, saved, queued, mishaps>>
  PROVE  IInv'
<1>1. Shape'
  BY DEF IInv, Shape
<1>2. \A q \in Editors : form'[q] = IF q = p THEN text ELSE form[q]
  BY DEF IInv, Shape
<1>3. Once'
  BY <1>2 DEF IInv, Once, FileOnce
<1>4. "overlap" \notin mishaps' => Sequential'
  BY DEF IInv, Sequential, OneAtATime, BlankWhileFilled, JobHolds, Holds, NoOldList
<1>5. mishaps' \subseteq {"old list"} => Readable'
  BY DEF IInv, Readable
<1> QED BY <1>1, <1>3, <1>4, <1>5 DEF IInv

LEMMA LoadKeeps == ASSUME IInv, NEW p \in Editors, Load(p) PROVE IInv'
<1>1. CASE IsWhole(file) /\ form' = [form EXCEPT ![p] = file.text]
  <2>1. file.text \in Text /\ IsInjective(file.text.queue)
    BY <1>1, WholeFiles DEF IInv, Shape, Once, FileOnce
  <2> QED BY <1>1, <2>1, FormKeeps DEF Load
<1>2. CASE form' = [form EXCEPT ![p] = ErrorForm]
  <2>1. ErrorForm \in Text /\ ErrorForm.queue = <<>>
    BY EmptySeq DEF ErrorForm, Text
  <2>2. IsInjective(<<>>)
    BY DEF IsInjective
  <2> QED BY <1>2, <2>1, <2>2, FormKeeps DEF Load
<1> QED BY <1>1, <1>2 DEF Load

LEMMA EditKeeps == ASSUME IInv, NEW p \in Editors, NEW edit \in Edits, Edit(p, edit) PROVE IInv'
<1>1. form[p] \in Text /\ form[p] # <<>> /\ form \in [Editors -> Text \cup {<<>>}]
  BY DEF IInv, Shape, Edit
<1> DEFINE text == [form[p] EXCEPT !.settings = edit]
<1>2. text \in Text /\ text.queue = form[p].queue
  BY <1>1 DEF Text
<1>3. form' = [form EXCEPT ![p] = text]
  BY <1>1 DEF Edit
<1>4. IsInjective(text.queue)
  BY <1>1, <1>2 DEF IInv, Once
<1> QED BY <1>2, <1>3, <1>4, FormKeeps DEF Edit

LEMMA SaveKeeps == ASSUME IInv, NEW p \in Editors, Save(p) PROVE IInv'
<1>1. form[p] \in Text /\ IsInjective(form[p].queue) /\ p \in Clients
  BY DEF IInv, Shape, Once, Save, Clients
<1> DEFINE new == Whole(form[p])
<1>2. new \in File /\ IsWhole(new) /\ new.text = form[p]
  BY <1>1, WholeFiles DEF IsWhole
<1>3. form[p].settings \in Setting /\ form[p].queue \in Seq(Missions)
  BY <1>1 DEF Text, Setting
<1>4. ToSet(form[p].queue) \in SUBSET Missions
  BY <1>3, LenProperties, ElementOfSeq DEF ToSet
<1>5. form[p].settings # "nothing"
  BY <1>3, SettingsAssumption DEF Setting
<1>6. FileOnce(new) /\ Holds(new, form[p].settings, ToSet(form[p].queue))
  BY <1>1, <1>2 DEF FileOnce, Holds
<1>7. mishaps' = Mishaps(Overlap \cup {})
  BY DEF Save
<1> QED BY <1>1, <1>2, <1>3, <1>4, <1>5, <1>6, <1>7, WritingKeeps DEF Save

\* What the rewriting of the mission block puts together.
LEMMA RewrittenFile ==
  ASSUME NEW text \in Text, NEW queue \in Seq(Missions)
  PROVE  /\ Rewritten(text, queue) \in File
         /\ IsWhole(Rewritten(text, queue)) =>
              /\ Rewritten(text, queue).text.settings = text.settings
              /\ Rewritten(text, queue).text.queue = queue
         /\ ~HasBrace(text.queue) => IsWhole(Rewritten(text, queue))
<1> DEFINE new == [text EXCEPT !.queue = queue]
<1>1. new \in Text /\ new.settings = text.settings /\ new.queue = queue
  BY DEF Text
<1> HIDE DEF new
<1>2. CASE HasBrace(text.queue)
  BY <1>2, WholeFiles DEF Rewritten
<1>3. CASE ~HasBrace(text.queue)
  <2>1. Rewritten(text, queue) = Whole(new)
    BY <1>3 DEF Rewritten, new
  <2> QED BY <1>1, <1>3, <2>1, WholeFiles DEF IsWhole
<1> QED BY <1>2, <1>3

\* A queue action keeps the settings it has read, and changes the queue as it
\* was asked to.
LEMMA MutateKeeps ==
  ASSUME IInv, NEW c \in Admins, NEW queue \in Seq(Missions), IsInjective(queue),
         NEW queues \in SUBSET Missions, Mutate(c, queue, queues),
         "overlap" \notin mishaps /\ NoOldList => ToSet(queue) = queues
  PROVE  IInv'
<1>1. c \in Clients /\ job[c].at = "idle" /\ IsWhole(file)
  BY DEF Clients, Mutate
<1>2. file.text \in Text
  BY <1>1, WholeFiles DEF IInv, Shape
<1> DEFINE new == Rewritten(file.text, queue)
           more == IF HasBrace(file.text.queue) THEN {"brace"} ELSE {}
<1>3. /\ new \in File
      /\ IsWhole(new) => new.text.settings = file.text.settings /\ new.text.queue = queue
      /\ more = {} => IsWhole(new)
  BY <1>2, RewrittenFile
<1>4. FileOnce(new)
  BY <1>3 DEF FileOnce
<1>5. "overlap" \notin mishaps => Holds(new, saved, queues)
  BY <1>1, <1>3 DEF IInv, Sequential, Holds
<1>6. /\ Writing(c, new, "nothing", queues) /\ UNCHANGED <<file, form>>
      /\ mishaps' = Mishaps(Overlap \cup more) /\ more \in SUBSET {"brace"}
  BY DEF Mutate
<1> HIDE DEF new, more
<1> QED BY <1>1, <1>3, <1>4, <1>5, <1>6, WritingKeeps

LEMMA AddToQueueKeeps ==
  ASSUME IInv, NEW c \in Admins, NEW m \in Missions, AddToQueue(c, m)
  PROVE  IInv'
<1>1. IsWhole(file) /\ file.text \in Text /\ IsInjective(file.text.queue)
  BY WholeFiles DEF AddToQueue, IInv, Shape, Once, FileOnce
<1> DEFINE queue == Added(file.text.queue, m)
<1>2. /\ queue \in Seq(Missions) /\ IsInjective(queue)
      /\ ToSet(queue) = ToSet(file.text.queue) \cup {m}
  BY <1>1, AddedAddsOne DEF Text
<1>3. "overlap" \notin mishaps /\ NoOldList => ToSet(queue) = queued \cup {m}
  BY <1>1, <1>2 DEF IInv, Sequential, Holds
<1>4. queued \cup {m} \in SUBSET Missions
  BY DEF IInv, Shape
<1> QED BY <1>2, <1>3, <1>4, MutateKeeps DEF AddToQueue

LEMMA RemoveFromQueueKeeps ==
  ASSUME IInv, NEW c \in Admins, NEW m \in Missions, RemoveFromQueue(c, m)
  PROVE  IInv'
<1>1. IsWhole(file) /\ file.text \in Text /\ IsInjective(file.text.queue)
  BY WholeFiles DEF RemoveFromQueue, IInv, Shape, Once, FileOnce
<1> DEFINE queue == Removed(file.text.queue, m)
<1>2. /\ queue \in Seq(Missions) /\ IsInjective(queue)
      /\ ToSet(queue) = ToSet(file.text.queue) \ {m}
  BY <1>1, RemovedRemovesOne DEF Text
<1>3. "overlap" \notin mishaps /\ NoOldList => ToSet(queue) = queued \ {m}
  BY <1>1, <1>2 DEF IInv, Sequential, Holds
<1>4. queued \ {m} \in SUBSET Missions
  BY DEF IInv, Shape
<1> QED BY <1>2, <1>3, <1>4, MutateKeeps DEF RemoveFromQueue

LEMMA TruncateKeeps == ASSUME IInv, NEW c \in Clients, Truncate(c) PROVE IInv'
<1>1. /\ job \in [Clients -> Job] /\ job[c].at = "writing" /\ file' = Blank
      /\ job' = [job EXCEPT ![c].at = "filling"] /\ UNCHANGED <<form, saved, queued, mishaps>>
  BY DEF IInv, Shape, Truncate
<1>2. /\ job' \in [Clients -> Job] /\ job'[c].at = "filling"
      /\ \A d \in Clients : /\ job'[d].new = job[d].new /\ job'[d].saves = job[d].saves
                            /\ job'[d].queues = job[d].queues
                            /\ d # c => job'[d].at = job[d].at
  BY <1>1 DEF Job
<1>3. Shape'
  BY <1>1, <1>2, WholeFiles DEF IInv, Shape
<1>4. Once'
  BY <1>1, <1>2, WholeFiles DEF IInv, Once, FileOnce
<1>5. Sequential => Sequential'
  <2>1. NoOldList' => NoOldList
    BY <1>1 DEF NoOldList
  <2> QED BY <1>1, <1>2, <2>1, WholeFiles
          DEF Sequential, OneAtATime, BlankWhileFilled, JobHolds, Holds
<1>6. Readable => Readable'
  BY <1>1, <1>2 DEF Readable
<1> QED BY <1>1, <1>3, <1>4, <1>5, <1>6 DEF IInv

\* Requests that write nothing more.
LEMMA EndedJobs ==
  ASSUME Shape, NEW ended \in SUBSET Clients,
         job' = [c \in Clients |-> IF c \in ended THEN NoJob ELSE job[c]]
  PROVE  /\ job' \in [Clients -> Job]
         /\ \A c \in ended : job'[c] = NoJob /\ job'[c].at = "idle" /\ job'[c].new = Blank
         /\ \A c \in Clients \ ended : job'[c] = job[c]
BY JobTypes DEF Shape

LEMMA GiveUpKeeps == ASSUME IInv, NEW c \in Clients, GiveUp(c) PROVE IInv'
<1>1. Shape /\ job[c].at = "writing" /\ UNCHANGED <<file, form, saved, queued, mishaps>>
  BY DEF IInv, GiveUp
<1>2. job' = [d \in Clients |-> IF d \in {c} THEN NoJob ELSE job[d]]
  BY DEF IInv, Shape, GiveUp
<1>3. /\ job' \in [Clients -> Job] /\ job'[c].at = "idle" /\ job'[c].new = Blank
      /\ \A d \in Clients : d # c => job'[d] = job[d]
  BY <1>1, <1>2, EndedJobs
<1>4. Shape'
  BY <1>1, <1>3 DEF Shape
<1>5. Once'
  BY <1>1, <1>3, WholeFiles DEF IInv, Once, FileOnce
<1>6. Sequential => Sequential'
  <2>1. NoOldList' => NoOldList
    BY <1>1 DEF NoOldList
  <2> QED BY <1>1, <1>3, <2>1
          DEF Sequential, OneAtATime, BlankWhileFilled, JobHolds, Holds
<1>7. Readable => Readable'
  BY <1>1, <1>3 DEF Readable
<1> QED BY <1>1, <1>4, <1>5, <1>6, <1>7 DEF IInv

\* What filling the file leaves in the history.
LEMMA RecordKeeps ==
  ASSUME Shape, NEW c \in Clients, "overlap" \notin mishaps, Record(job[c])
  PROVE  /\ saved' = IF job[c].saves = "nothing" THEN saved ELSE job[c].saves
         /\ queued' \subseteq Missions /\ (NoOldList' => queued' = job[c].queues)
         /\ mishaps' \in {mishaps, mishaps \cup {"old list"}}
<1>1. job[c].queues \subseteq Missions /\ queued \subseteq Missions
  BY DEF Shape, Job
<1>2. CASE job[c].saves = "nothing"
  BY <1>1, <1>2 DEF Record
<1>3. CASE job[c].saves # "nothing"
  <2>1. /\ saved' = job[c].saves /\ UNCHANGED queued
        /\ mishaps' = Mishaps(IF job[c].queues = queued THEN {} ELSE {"old list"})
    BY <1>3 DEF Record
  <2>2. CASE job[c].queues = queued
    <3>1. mishaps' = mishaps
      BY <2>1, <2>2 DEF Mishaps
    <3> QED BY <1>1, <1>3, <2>1, <2>2, <3>1
  <2>3. CASE job[c].queues # queued
    <3>1. mishaps' = mishaps \cup {"old list"}
      BY <2>1, <2>3 DEF Mishaps
    <3> QED BY <1>1, <1>3, <2>1, <3>1 DEF NoOldList
  <2> QED BY <2>2, <2>3
<1> QED BY <1>2, <1>3

LEMMA FillKeeps == ASSUME IInv, NEW c \in Clients, Fill(c) PROVE IInv'
<1>1. /\ Shape /\ Once /\ job[c].at = "filling" /\ job[c] \in Job
      /\ UNCHANGED form /\ job[c].new \in File
  BY DEF IInv, Shape, Fill, Job
<1>2. file' = job[c].new \/ (file' = Torn /\ file # Blank)
  BY DEF Fill, Overwritten
<1>3. job' = [d \in Clients |-> IF d \in {c} THEN NoJob ELSE job[d]]
  BY DEF IInv, Shape, Fill
<1>4. /\ job' \in [Clients -> Job] /\ job'[c].at = "idle" /\ job'[c].new = Blank
      /\ \A d \in Clients : d # c => job'[d] = job[d]
  BY <1>1, <1>3, EndedJobs
<1>5. /\ "overlap" \in mishaps => UNCHANGED <<saved, queued, mishaps>>
      /\ "overlap" \notin mishaps =>
           /\ saved' = IF job[c].saves = "nothing" THEN saved ELSE job[c].saves
           /\ queued' \subseteq Missions /\ (NoOldList' => queued' = job[c].queues)
           /\ mishaps' \in {mishaps, mishaps \cup {"old list"}}
  <2>1. CASE "overlap" \in mishaps
    BY <2>1 DEF Fill
  <2>2. CASE "overlap" \notin mishaps
    <3>1. Record(job[c])
      BY <2>2 DEF Fill
    <3> QED BY <1>1, <2>2, <3>1, RecordKeeps
  <2> QED BY <2>1, <2>2
<1>6. Shape'
  BY <1>1, <1>2, <1>4, <1>5, WholeFiles DEF Shape, Job
<1>7. Once'
  BY <1>1, <1>2, <1>4, WholeFiles DEF Once, FileOnce
<1>8. ASSUME "overlap" \notin mishaps PROVE Sequential' /\ file' = job[c].new
  <2>1. Sequential
    BY <1>8 DEF IInv
  <2>2. file' = job[c].new /\ \A d \in Clients : job'[d].at = "idle"
    BY <1>1, <1>2, <1>4, <2>1 DEF Sequential, OneAtATime, BlankWhileFilled
  <2>3. JobHolds(c) /\ (NoOldList' => NoOldList)
    BY <1>1, <1>5, <1>8, <2>1 DEF Sequential, NoOldList
  <2>4. Holds(file, saved, queued)'
    BY <1>5, <1>8, <2>2, <2>3 DEF JobHolds, Holds
  <2> QED BY <2>2, <2>4 DEF Sequential, OneAtATime, BlankWhileFilled
<1>9. mishaps \subseteq mishaps' /\ ("overlap" \notin mishaps' => "overlap" \notin mishaps)
  BY <1>5
<1>10. ASSUME mishaps' \subseteq {"old list"} PROVE Readable'
  <2>1. Readable /\ file' = job[c].new
    BY <1>8, <1>9, <1>10 DEF IInv
  <2> QED BY <1>1, <1>4, <2>1 DEF Readable, IsWhole
<1> QED BY <1>1, <1>6, <1>7, <1>8, <1>9, <1>10 DEF IInv

LEMMA CrashKeeps == ASSUME IInv, Crash PROVE IInv'
<1> DEFINE more == IF \E c \in Clients : job[c].at = "filling" THEN {"kill"} ELSE {}
<1>1. Shape /\ UNCHANGED <<file, form, saved, queued>> /\ mishaps' = Mishaps(more)
  BY DEF IInv, Crash
<1>2. job' = [c \in Clients |-> IF c \in Clients THEN NoJob ELSE job[c]]
  BY DEF Crash
<1>3. /\ job' \in [Clients -> Job]
      /\ \A c \in Clients : job'[c].at = "idle" /\ job'[c].new = Blank
  BY <1>1, <1>2, EndedJobs
<1>4. /\ mishaps' \subseteq {"overlap", "brace", "kill", "old list"}
      /\ "overlap" \notin mishaps' => "overlap" \notin mishaps /\ (NoOldList' => NoOldList)
      /\ mishaps' \subseteq {"old list"} => mishaps \subseteq {"old list"} /\ more = {}
  <2>1. more \in SUBSET {"overlap", "brace", "kill", "old list"} /\ (more \subseteq {"old list"} => more = {})
    OBVIOUS
  <2> HIDE DEF more
  <2>2. /\ mishaps' \subseteq {"overlap", "brace", "kill", "old list"}
        /\ "overlap" \notin mishaps' => "overlap" \notin mishaps /\ mishaps' = mishaps \cup more
        /\ mishaps' \subseteq {"old list"} => mishaps \subseteq {"old list"} /\ more \subseteq {"old list"}
    BY <1>1, <2>1, MishapsType DEF Shape
  <2> QED BY <2>1, <2>2 DEF NoOldList
<1>5. Shape'
  BY <1>1, <1>3, <1>4 DEF Shape
<1>6. Once'
  BY <1>1, <1>3, WholeFiles DEF IInv, Once, FileOnce
<1>7. Sequential /\ (NoOldList' => NoOldList) => Sequential'
  BY <1>1, <1>3 DEF Sequential, OneAtATime, BlankWhileFilled, Holds
<1>8. ASSUME mishaps' \subseteq {"old list"} PROVE Readable'
  <2>1. Readable /\ ~\E c \in Clients : job[c].at = "filling"
    BY <1>4, <1>8 DEF IInv
  <2> QED BY <1>1, <1>3, <2>1 DEF Readable, IsWhole
<1> QED BY <1>4, <1>5, <1>6, <1>7, <1>8 DEF IInv

LEMMA StepKeeps == IInv /\ [Next]_vars => IInv'
<1> SUFFICES ASSUME IInv, [Next]_vars PROVE IInv'
  OBVIOUS
<1>1. ASSUME NEW p \in Editors, Load(p) PROVE IInv'
  BY <1>1, LoadKeeps
<1>2. ASSUME NEW p \in Editors, Save(p) PROVE IInv'
  BY <1>2, SaveKeeps
<1>3. ASSUME NEW p \in Editors, NEW edit \in Edits, Edit(p, edit) PROVE IInv'
  BY <1>3, EditKeeps
<1>4. ASSUME NEW c \in Admins, NEW m \in Missions, AddToQueue(c, m) PROVE IInv'
  BY <1>4, AddToQueueKeeps
<1>5. ASSUME NEW c \in Admins, NEW m \in Missions, RemoveFromQueue(c, m) PROVE IInv'
  BY <1>5, RemoveFromQueueKeeps
<1>6. ASSUME NEW c \in Clients, Truncate(c) PROVE IInv'
  BY <1>6, TruncateKeeps
<1>7. ASSUME NEW c \in Clients, GiveUp(c) PROVE IInv'
  BY <1>7, GiveUpKeeps
<1>8. ASSUME NEW c \in Clients, Fill(c) PROVE IInv'
  BY <1>8, FillKeeps
<1>9. CASE Crash
  BY <1>9, CrashKeeps
<1>10. CASE UNCHANGED vars
  BY <1>10
  DEF vars, IInv, Shape, Once, FileOnce, Sequential, OneAtATime, BlankWhileFilled,
      JobHolds, Holds, NoOldList, Readable, IsWhole
<1> QED BY <1>1, <1>2, <1>3, <1>4, <1>5, <1>6, <1>7, <1>8, <1>9, <1>10 DEF Next

LEMMA Invariance == Spec => []IInv
BY InitKeeps, StepKeeps, PTL DEF Spec

-----------------------------------------------------------------------------
(* The theorems                                                            *)

\* Every reachable state of the file, the forms and the writes is well typed.
THEOREM SettingsTypeCorrect == Spec => []TypeOK
<1>1. IInv => TypeOK
  <2> SUFFICES ASSUME IInv PROVE TypeOK
    OBVIOUS
  <2>1. ASSUME NEW f \in File PROVE IsFile(f, IsText)
    BY <2>1, WholeFiles DEF File, IsFile, IsText
  <2>2. \A c \in Clients : job[c] \in Job /\ job[c].new \in File
    BY DEF IInv, Shape, Job
  <2> QED BY <2>1, <2>2 DEF IInv, Shape, Job, Setting, TypeOK
<1> QED BY <1>1, Invariance, PTL

\* No mission is queued twice, in the file or in a form, whatever requests
\* interleave (mutate_queue, write_settings).
THEOREM QueuedOnce == Spec => []NoDuplicates
<1>1. IInv => NoDuplicates
  BY DEF IInv, Once, FileOnce, NoDuplicates
<1> QED BY <1>1, Invariance, PTL

\* As long as requests that write came one at a time, the file's settings are
\* those saved last and, unless a save has posted another list than was asked
\* for, its queue is what the queue actions asked for, over old forms, given up
\* and killed writes (serialize_settings, mutate_queue).
THEOREM AskedIsKept == Spec => []FileIsAsAsked
<1>1. IInv => FileIsAsAsked
  BY DEF IInv, Sequential, Holds, FileIsAsAsked, SettingsAreKept, QueueIsAsAsked
<1> QED BY <1>1, Invariance, PTL

\* Between requests the file parses, unless requests overlapped, one was killed
\* as it wrote, or a queued mission has a } in its name.
THEOREM StaysReadable == Spec => []FileIsReadable
<1>1. IInv => FileIsReadable
  BY DEF IInv, Readable, Resting, FileIsReadable
<1> QED BY <1>1, Invariance, PTL
=============================================================================
