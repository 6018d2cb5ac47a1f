---------------------------- MODULE ScreenMessages ----------------------------
(***************************************************************************)
(* The on-screen message feed, end to end: the Lua module that records     *)
(* messages in the running mission (rust-web-dashboard/lua/                *)
(* screen_messages.lua), its installation on demand by a probe and an      *)
(* install Eval (src/screen_messages.rs, eval_installable in               *)
(* src/routes/dcs.rs), and the cursor polls of the Chat page               *)
(* (web-dashboard/src/app/chat/page.tsx, useCursorFeed).                   *)
(*                                                                         *)
(* A message is the mission it was shown in and its id.  Each Eval is one  *)
(* step of the mission; between a page's request, the two Evals and the    *)
(* answer, missions restart, messages are shown and other pages poll.      *)
(***************************************************************************)
EXTENDS Naturals, Sequences, SequencesExt

CONSTANTS
  Pages,        \* browser pages that poll the feed
  MaxBuffer,    \* MAX_BUFFER
  MaxMessages,  \* bound: messages recorded per mission
  MaxMissions   \* bound: missions run

BoundsAssumption == MaxBuffer \in Nat \ {0} /\ MaxMessages \in Nat /\ MaxMissions \in Nat

VARIABLES
  mission,  \* which mission runs
  module,   \* ScreenMessages in that mission, against MODULE_VERSION
  nextId,   \* M.nextId
  buffer,   \* M.buffer
  page,     \* page[p]: one useCursorFeed and its request in flight
  open,     \* the pages that are open
  lost      \* history: the pages that lost an answer the mission had given

vars == <<mission, module, nextId, buffer, page, open, lost>>

Message == [mission : Nat, id : Nat]
Reply == [messages : Seq(Message), last : Nat]
NoReply == [messages |-> <<>>, last |-> 0]

TypeOK ==
  /\ mission \in Nat
  /\ module \in {"absent", "outdated", "current"}
  /\ nextId \in Nat \ {0}
  /\ buffer \in Seq(Message) /\ Len(buffer) <= MaxBuffer
  /\ page \in [Pages -> [at : {"idle", "probe", "install", "answer"},
                         attempt : 1 .. 2, cursor : Nat,
                         items : Seq(Message), reply : Reply]]
  /\ lost \subseteq open /\ open \subseteq Pages

-----------------------------------------------------------------------------
(* lua/screen_messages.lua                                                 *)

Trimmed(seq) == IF Len(seq) > MaxBuffer THEN Tail(seq) ELSE seq

\* A scripted message passes through a wrapper, if there is one.
Show ==
  /\ nextId <= MaxMessages
  /\ module # "absent"
  /\ buffer' = Trimmed(Append(buffer, [mission |-> mission, id |-> nextId]))
  /\ nextId' = nextId + 1
  /\ UNCHANGED <<mission, module, page, open, lost>>

\* Fault: the message at the cursor is sent again.
IsFrom(m, from) == m.id >= from /\ m.id > 0

IsAfter(m, from) == m.id > from

\* The ids of a log ascend: what is after a cursor is the end of it.
First(seq, from) ==
  CHOOSE k \in 1..(Len(seq) + 1) : \A i \in DOMAIN seq : IsAfter(seq[i], from) <=> i >= k

\* Served from the module's state, which is that of the installing script in
\* the same Eval.
Since(seq, next, cursor) ==
  LET last == next - 1
      from == IF cursor > last THEN 0 ELSE cursor IN
  [messages |-> SubSeq(seq, First(seq, from), Len(seq)), last |-> last]

-----------------------------------------------------------------------------
(* eval_installable                                                        *)

Answered(p, reply) ==
  page' = [page EXCEPT ![p].at = "answer", ![p].reply = reply]

Probe(p) ==
  /\ page[p].at = "probe"
  /\ IF module = "current"
     THEN Answered(p, Since(buffer, nextId, page[p].cursor))
     ELSE page' = [page EXCEPT ![p].at = "install"]
  /\ UNCHANGED <<mission, module, nextId, buffer, open, lost>>

\* The script checks the version again; a new module starts an empty log, an
\* upgraded one takes its predecessor's log over.
Install(p) ==
  /\ page[p].at = "install"
  /\ module' = "current"
  /\ buffer' = IF module = "absent" THEN <<>> ELSE buffer
  /\ nextId' = IF module = "absent" THEN 1 ELSE nextId
  /\ Answered(p, Since(buffer', nextId', page[p].cursor))
  /\ UNCHANGED <<mission, open, lost>>

-----------------------------------------------------------------------------
(* useCursorFeed                                                           *)

\* The poll timer, or a refresh after sending; one request at a time.
Poll(p) ==
  /\ p \in open
  /\ page[p].at = "idle"
  /\ page' = [page EXCEPT ![p].at = "probe", ![p].attempt = 1]
  /\ UNCHANGED <<mission, module, nextId, buffer, open, lost>>

Receive(p) ==
  LET was == page[p]  reply == was.reply
      restarted == reply.last < was.cursor
      cursor == IF restarted /\ reply.messages = <<>> THEN 0 ELSE reply.last
      again == restarted /\ cursor = 0 /\ was.attempt = 1 IN
  /\ was.at = "answer"
  /\ page' = [page EXCEPT
       ![p] = [at |-> IF again THEN "probe" ELSE "idle",
               attempt |-> IF again THEN 2 ELSE 1,
               cursor |-> cursor,
               items |-> (IF restarted THEN <<>> ELSE was.items) \o reply.messages,
               reply |-> NoReply]]
  /\ UNCHANGED <<mission, module, nextId, buffer, open, lost>>

\* DCS is not reachable, or the answer is lost: the page shows an error.
Fail(p) ==
  /\ page[p].at # "idle"
  /\ lost' = IF page[p].at = "answer" THEN lost \cup {p} ELSE lost
  /\ page' = [page EXCEPT ![p].at = "idle", ![p].attempt = 1, ![p].reply = NoReply]
  /\ UNCHANGED <<mission, module, nextId, buffer, open>>

-----------------------------------------------------------------------------
\* The mission scripting state is reset: the wrappers and the log are gone.
MissionRestart ==
  /\ mission < MaxMissions
  /\ mission' = mission + 1
  /\ module' = "absent"
  /\ nextId' = 1
  /\ buffer' = <<>>
  /\ UNCHANGED <<page, open, lost>>

\* A dashboard with a newer module replaces the running one.
DashboardUpgrade ==
  /\ module = "current"
  /\ \A p \in Pages : page[p].at = "idle"
  /\ module' = "outdated"
  /\ UNCHANGED <<mission, nextId, buffer, page, open, lost>>

Init ==
  /\ mission = 1
  /\ module = "absent"
  /\ nextId = 1
  /\ buffer = <<>>
  /\ page = [p \in Pages |-> [at |-> "idle", attempt |-> 1, cursor |-> 0,
                              items |-> <<>>, reply |-> NoReply]]
  /\ open \in SUBSET Pages \ {{}}
  /\ lost = {}

Next ==
  \/ Show
  \/ \E p \in Pages : Poll(p) \/ Probe(p) \/ Install(p) \/ Receive(p) \/ Fail(p)
  \/ MissionRestart
  \/ DashboardUpgrade

Spec == Init /\ [][Next]_vars

\* setInterval keeps polling, and requests are executed; in the end DCS stays
\* reachable.
Fairness ==
  \A p \in Pages : WF_vars(Poll(p)) /\ WF_vars(Probe(p) \/ Install(p) \/ Receive(p))
LeftOpen == <>[][\A p \in Pages : ~Fail(p)]_vars

FairSpec == Spec /\ Fairness /\ LeftOpen
-----------------------------------------------------------------------------
(* Properties                                                              *)

Earlier(m, n) ==
  m.mission < n.mission \/ (m.mission = n.mission /\ m.id < n.id)

\* What a page lists was shown in that order, and nothing is listed twice:
\* not after a restart whose ids start over, a repeated request, an upgrade in
\* place, or an answer that arrives when its mission is gone.
ShownInOrder ==
  \A p \in Pages : \A i, j \in DOMAIN page[p].items :
    i < j => Earlier(page[p].items[i], page[p].items[j])

\* No message of the running mission's log is behind the cursor of a page
\* without having been listed.
Complete(p) ==
  \A i \in DOMAIN buffer :
    buffer[i].id <= page[p].cursor => Contains(page[p].items, buffer[i])

\* Between two polls: "a cursor ahead of the buffer (the mission restarted and
\* ids started over) is treated as 0 so the caller gets everything again".
NothingSkipped == \A p \in Pages : page[p].at = "idle" => Complete(p)

\* A page that alone polls the feed and has received its answers: no other page
\* installs the capture in a new mission, so the new log never catches up with
\* an old cursor.
Alone(p) == open = {p} /\ p \notin lost

\* Such a page skips nothing between two polls, over restarts before, during
\* and after a request, failed requests, and upgrades in place.
AloneNothingSkipped ==
  \A p \in Pages : Alone(p) /\ page[p].at = "idle" => Complete(p)

\* ... and it lists everything there is in the log again and again: a message
\* is listed unless the ring buffer or the end of the mission drops it first.
EveryMessageIsListed ==
  []<>(\A p \in Pages : Alone(p) => ToSet(buffer) \subseteq ToSet(page[p].items))
=============================================================================
