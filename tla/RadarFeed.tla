------------------------------- MODULE RadarFeed -------------------------------
(***************************************************************************)
(* The radar feed, end to end: the unit streams of DCS-gRPC, the tasks     *)
(* that hold one stream per group category and publish its messages on a   *)
(* broadcast channel (rust-web-dashboard/src/telemetry.rs), the SSE        *)
(* adapter that drops what a slow client did not read                      *)
(* (src/routes/stream.rs), and the Airboss page, which collects frames     *)
(* into a batch and commits it when they pause                             *)
(* (web-dashboard/src/app/airboss/page.tsx, deckTracking.ts).              *)
(*                                                                         *)
(* A unit's transform is the time of its last change; 0 stands for a unit  *)
(* that does not exist, is not reported or is not shown.                   *)
(***************************************************************************)
EXTENDS Naturals, Sequences, SequencesExt

CONSTANTS
  Units,
  Categories,  \* group categories, one stream each
  Category,    \* of a unit
  MaxQueue,    \* TELEMETRY_BUFFER
  MaxChanges,  \* bound: changes of the world
  MaxReloads   \* bound: streams that end

ASSUME CategoryAssumption == Category \in [Units -> Categories]
ASSUME QueueAssumption == MaxQueue \in Nat \ {0}
ASSUME RadarBoundsAssumption == MaxChanges \in Nat /\ MaxReloads \in Nat

VARIABLES
  world,     \* the units of the running mission
  clock,     \* the last change of the world
  reloads,   \* streams ended so far
  stream,    \* each category's StreamUnits call
  reported,  \* what the open streams said last
  source,    \* the page's EventSource
  queue,     \* frames published and not yet received by the page
  pending,   \* pendingRadarBatch, the empty batch for null
  snapshot,  \* radarSnapshot
  replayed,  \* history: the snapshot if each frame were applied on its own
  missed     \* history: the units whose last frame never got to the page

radarVars == <<world, clock, reloads, stream, reported, source, queue, pending,
          snapshot, replayed, missed>>
upstream == <<world, clock, reloads, stream, reported>>
page == <<source, pending, snapshot, replayed>>

Frame == [unit : Units, at : Nat]
Batch == [samples : [Units -> Nat], gone : SUBSET Units]
Nothing == [u \in Units |-> 0]
NoBatch == [samples |-> Nothing, gone |-> {}]

RadarTypeOK ==
  /\ world \in [Units -> Nat] /\ clock \in Nat /\ reloads \in Nat
  /\ stream \in [Categories -> {"open", "closed"}]
  /\ reported \in [Units -> Nat]
  /\ source \in {"open", "closed"}
  /\ queue \in Seq(Frame) /\ Len(queue) <= MaxQueue
  /\ pending \in Batch
  /\ snapshot \in [Units -> Nat] /\ replayed \in [Units -> Nat]
  /\ missed \subseteq Units

-----------------------------------------------------------------------------
(* The mission and DCS-gRPC                                                *)

\* A unit spawns, moves or is destroyed.
Change(u) ==
  /\ clock < MaxChanges
  /\ clock' = clock + 1
  /\ \E t \in {0, clock + 1} : world[u] # t /\ world' = [world EXCEPT ![u] = t]
  /\ UNCHANGED <<reloads, stream, reported, queue, page, missed>>

\* The mission reloads or the call breaks; what was reported is forgotten, so
\* that it will not be said of a unit that it is gone.
StreamEnds(c) ==
  /\ reloads < MaxReloads
  /\ stream[c] = "open"
  /\ reloads' = reloads + 1
  /\ stream' = [stream EXCEPT ![c] = "closed"]
  /\ reported' = [u \in Units |-> IF Category[u] = c THEN 0 ELSE reported[u]]
  /\ missed' = missed \cup {u \in Units : Category[u] = c /\ reported[u] # 0}
  /\ UNCHANGED <<world, clock, queue, page>>

-----------------------------------------------------------------------------
(* telemetry.rs, stream.rs                                                 *)

\* After a backoff of at most BACKOFF_MAX the task calls again.
StreamOpens(c) ==
  /\ stream[c] = "closed"
  /\ stream' = [stream EXCEPT ![c] = "open"]
  /\ UNCHANGED <<world, clock, reloads, reported, queue, page, missed>>

\* Fault: an unbounded channel.
Unbounded(frames) == frames

\* A receiver that lags behind skips the oldest frames.
Buffered(frames) ==
  IF Len(frames) > MaxQueue THEN Tail(frames) ELSE frames

\* Of these frames, the units whose last one is not among those kept.
Overtaken(frames, keep) == {f.unit : f \in ToSet(frames)} \ {f.unit : f \in ToSet(keep)}

\* A poll of the server finds a unit new, changed, or gone: said once.
ReportUnit(u) ==
  LET frames == Append(queue, [unit |-> u, at |-> world[u]]) IN
  /\ stream[Category[u]] = "open"
  /\ reported[u] # world[u]
  /\ reported' = [reported EXCEPT ![u] = world[u]]
  /\ IF source = "open"
     THEN /\ queue' = Buffered(frames)
          /\ missed' = (missed \ {u}) \cup Overtaken(frames, queue')
     ELSE queue' = queue /\ missed' = missed \cup {u}
  /\ UNCHANGED <<world, clock, reloads, stream, page>>

-----------------------------------------------------------------------------
(* The Airboss page                                                        *)

\* Fault: a unit that is back within one batch stays listed as gone.
StaysGone(batch, f) ==
  [samples |-> [batch.samples EXCEPT ![f.unit] = f.at],
   gone |-> IF f.at = 0 THEN batch.gone \cup {f.unit} ELSE batch.gone]

\* Fault: the first sample of a batch wins.
KeepsFirst(batch, f) ==
  [samples |-> IF f.at # 0 /\ batch.samples[f.unit] # 0 THEN batch.samples
               ELSE [batch.samples EXCEPT ![f.unit] = f.at],
   gone |-> IF f.at = 0 THEN batch.gone \cup {f.unit} ELSE batch.gone \ {f.unit}]

Appended(batch, f) ==
  [samples |-> [batch.samples EXCEPT ![f.unit] = f.at],
   gone |-> IF f.at = 0 THEN batch.gone \cup {f.unit} ELSE batch.gone \ {f.unit}]

Applied(samples, batch) ==
  [u \in Units |-> IF u \in batch.gone THEN 0
                   ELSE IF batch.samples[u] # 0 THEN batch.samples[u] ELSE samples[u]]

\* A frame joins the batch and restarts the timer.
ReceiveFrame ==
  /\ queue # <<>>
  /\ queue' = Tail(queue)
  /\ pending' = Appended(pending, Head(queue))
  /\ replayed' = [replayed EXCEPT ![Head(queue).unit] = Head(queue).at]
  /\ UNCHANGED <<upstream, source, snapshot, missed>>

\* No frame came for RADAR_BATCH_SETTLE_MS.
Commit ==
  /\ pending # NoBatch
  /\ snapshot' = Applied(snapshot, pending)
  /\ pending' = NoBatch
  /\ UNCHANGED <<upstream, source, queue, replayed, missed>>

\* The connection breaks with the frames under way; the batch and its timer
\* stay, and EventSource connects again: to the live channel, no replay.
Disconnect ==
  /\ source = "open"
  /\ source' = "closed"
  /\ queue' = <<>>
  /\ missed' = missed \cup Overtaken(queue, <<>>)
  /\ UNCHANGED <<upstream, pending, snapshot, replayed>>

Connect ==
  /\ source = "closed"
  /\ source' = "open"
  /\ UNCHANGED <<upstream, queue, pending, snapshot, replayed, missed>>

\* The page is opened anew; the cleanup cancels the timer and drops the batch.
Reopen ==
  /\ source' = "open"
  /\ queue' = <<>>
  /\ pending' = NoBatch
  /\ snapshot' = Nothing
  /\ replayed' = Nothing
  /\ missed' = {u \in Units : reported[u] # 0}
  /\ UNCHANGED upstream

-----------------------------------------------------------------------------
\* The page is open when the streams are opened for the first time.
RadarInit ==
  /\ world = Nothing /\ clock = 0 /\ reloads = 0
  /\ stream = [c \in Categories |-> "closed"]
  /\ reported = Nothing
  /\ source = "open"
  /\ queue = <<>>
  /\ pending = NoBatch
  /\ snapshot = Nothing /\ replayed = Nothing /\ missed = {}

RadarNext ==
  \/ \E u \in Units : Change(u) \/ ReportUnit(u)
  \/ \E c \in Categories : StreamEnds(c) \/ StreamOpens(c)
  \/ ReceiveFrame \/ Commit
  \/ Disconnect \/ Connect \/ Reopen

RadarSpec == RadarInit /\ [][RadarNext]_radarVars

\* The server polls every second, the tasks and the browser call again for
\* ever, frames are delivered, and the timer fires once the frames pause: with
\* finitely many changes they do.
RadarFairness ==
  /\ \A u \in Units : WF_radarVars(ReportUnit(u))
  /\ \A c \in Categories : WF_radarVars(StreamOpens(c))
  /\ WF_radarVars(ReceiveFrame) /\ WF_radarVars(Commit) /\ WF_radarVars(Connect)

RadarFairSpec == RadarSpec /\ RadarFairness

-----------------------------------------------------------------------------
(* Properties                                                              *)

\* Batching is not visible: committing the collected batch at any moment gives
\* the units that applying every frame at once would have given, also when a
\* unit dies and its id is back, or moves several times, within a batch.
BatchIsFaithful == Applied(snapshot, pending) = replayed

\* A unit is shown as the streams last reported it, or the last frame of it that
\* is under way says so, unless its last frame was lost or the report was taken
\* back by a restart.
NothingGoesMissing == \A u \in Units \ missed :
  \/ \E i \in DOMAIN queue :
       /\ queue[i] = [unit |-> u, at |-> reported[u]]
       /\ \A j \in DOMAIN queue : queue[j].unit = u => j <= i
  \/ /\ \A i \in DOMAIN queue : queue[i].unit # u
     /\ Applied(snapshot, pending)[u] = reported[u]

\* "Slow clients that fall this far behind drop the oldest frames (telemetry is
\* latest-wins)": when the world comes to rest, the page shows every unit as it
\* is and no unit that is gone, over batches, lost frames, broken connections
\* and restarts of the streams, save for the units at rest whose last frame
\* was lost: nothing repeats it.
ShowsTheWorld == \A u \in Units : <>[](u \notin missed => snapshot[u] = world[u])
===============================================================================
