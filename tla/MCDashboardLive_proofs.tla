------------------------ MODULE MCDashboardLive_proofs ------------------------
(***************************************************************************)
(* What is proved of the modules that MCDashboardLive follows, for any     *)
(* groups, units, ships, capacities and schedules.                         *)
(***************************************************************************)
EXTENDS MCDashboardLive, TLAPS, SequenceTheorems

-----------------------------------------------------------------------------
(* The carrier list. A listed carrier is never barred from triggering a    *)
(* refresh, whichever groups, failures and request times.                  *)

\* The groups that triggered the request in flight are not listed either: only
\* its own answer changes the list before it ends.
HintsAreUnknown == inFlight.hints \cap known = {}

ListInv ==
  TypeOK /\ ListedAreNotRejected /\ RejectedForAReason /\ HintsAreUnknown

LEMMA IdleType ==
  NotAsking.hints = {} /\ NotAsking \in [at : {"idle", "sent", "served"},
                               hints : SUBSET Groups, reply : SUBSET Carriers]
BY DEF NotAsking

\* What the effects on the radar and the list do to a request and the
\* rejected groups.
LEMMA EffectIsSafe ==
  ASSUME NEW seen \in SUBSET Groups, NEW listed \in SUBSET Carriers,
         NEW refused \in SUBSET Groups,
         NEW r \in [at : {"idle", "sent", "served"},
                    hints : SUBSET Groups, reply : SUBSET Carriers],
         r.hints \cap listed = {}, rested \in {"yes", "no"},
         Effect(seen, listed, refused, r)
  PROVE  /\ rejected' \subseteq Groups /\ rejected' \cap listed = {}
         /\ rested' \in {"yes", "no"}
         /\ inFlight' \in [at : {"idle", "sent", "served"},
                          hints : SUBSET Groups, reply : SUBSET Carriers]
         /\ inFlight'.hints \cap listed = {}
         /\ undecided \subseteq undecided' /\ rejected' \subseteq refused \cup undecided'
         /\ undecided \subseteq Groups => undecided' \subseteq Groups
<1> DEFINE unknown == Unknown(seen, listed, refused)
<1>1. unknown \subseteq Groups /\ unknown \cap listed = {}
  BY DEF Unknown
<1>2. rejected' \in {Cleared(Rejecting(refused, unknown), listed), Cleared(refused, listed)}
  BY DEF Effect
<1>3. rejected' \subseteq Groups /\ rejected' \cap listed = {}
  BY <1>1, <1>2 DEF Cleared, Rejecting
<1>4. rested' \in {"yes", "no"}
  BY DEF Effect
<1>5. inFlight' = r \/ inFlight' = [at |-> "sent", hints |-> unknown, reply |-> {}]
  BY DEF Effect
<1>6. /\ undecided \subseteq undecided' /\ rejected' \subseteq refused \cup undecided'
      /\ undecided \subseteq Groups => undecided' \subseteq Groups
  BY <1>1 DEF Effect, Cleared, Rejecting
<1> QED BY <1>1, <1>3, <1>4, <1>5, <1>6

\* A list that is taken, in answer to a request.
LEMMA ListTaken ==
  ASSUME ListInv, NEW list \in SUBSET Carriers, Takes(list)
  PROVE  ListInv'
<1> USE DEF ListInv
<1> DEFINE refused == Rejecting(rejected, inFlight.hints)
<1>1. known' \subseteq Carriers /\ refused \subseteq Groups
      /\ denied' \subseteq Groups
  BY DEF Takes, TypeOK, Rejecting
<1>2. undecided \subseteq Groups /\ radar \subseteq Groups /\ rested \in {"yes", "no"}
  BY DEF TypeOK
<1>3. Effect(radar, list, refused, NotAsking) /\ known' = list
  BY DEF Takes
<1> HIDE DEF refused
<1>4. /\ rejected' \subseteq Groups /\ rejected' \cap list = {}
      /\ rested' \in {"yes", "no"}
      /\ inFlight' \in [at : {"idle", "sent", "served"},
                       hints : SUBSET Groups, reply : SUBSET Carriers]
      /\ inFlight'.hints \cap list = {}
      /\ undecided \subseteq undecided' /\ rejected' \subseteq refused \cup undecided'
      /\ undecided' \subseteq Groups
  BY <1>1, <1>2, <1>3, IdleType, EffectIsSafe
<1>5. rejected' \subseteq denied' \cup undecided'
  <2>1. refused \subseteq rejected \cup inFlight.hints
    BY DEF refused, Rejecting
  <2>2. inFlight.hints \subseteq denied' \cup list
    BY DEF Takes
  <2>3. rejected \subseteq denied' \cup undecided
    BY DEF Takes, RejectedForAReason
  <2> QED BY <1>4, <2>1, <2>2, <2>3
<1> QED BY <1>1, <1>3, <1>4, <1>5
          DEF Takes, TypeOK, ListedAreNotRejected, RejectedForAReason, HintsAreUnknown

LEMMA ListStep == ListInv /\ [Next]_vars => ListInv'
<1> SUFFICES ASSUME ListInv, [Next]_vars PROVE ListInv'
  OBVIOUS
<1> USE DEF ListInv
<1>1. ASSUME NEW g \in Groups, Spawn(g) PROVE ListInv'
  BY <1>1 DEF Spawn, TypeOK, ListedAreNotRejected, RejectedForAReason,
         HintsAreUnknown
<1>2. ASSUME NEW g \in Groups, Lose(g) PROVE ListInv'
  BY <1>2 DEF Lose, TypeOK, ListedAreNotRejected, RejectedForAReason,
         HintsAreUnknown
<1>3. CASE Serve
  BY <1>3 DEF Serve, Listed, TypeOK, ListedAreNotRejected, RejectedForAReason,
         HintsAreUnknown
<1>4. CASE RadarCommits
  <2>1. radar' \subseteq Groups
    BY <1>4 DEF RadarCommits, TypeOK
  <2>2. Effect(radar', known, rejected, inFlight)
    BY <1>4 DEF RadarCommits
  <2>3. /\ rejected' \subseteq Groups /\ rejected' \cap known = {}
        /\ rested' \in {"yes", "no"}
        /\ inFlight' \in [at : {"idle", "sent", "served"},
                         hints : SUBSET Groups, reply : SUBSET Carriers]
        /\ inFlight'.hints \cap known = {}
        /\ undecided \subseteq undecided' /\ rejected' \subseteq rejected \cup undecided'
        /\ undecided' \subseteq Groups
    BY <2>1, <2>2, EffectIsSafe DEF TypeOK, HintsAreUnknown
  <2> QED BY <1>4, <2>1, <2>3
            DEF RadarCommits, TypeOK, ListedAreNotRejected, RejectedForAReason,
         HintsAreUnknown
<1>5. CASE Refresh
  BY <1>5 DEF Refresh, NotAsking, TypeOK, ListedAreNotRejected, RejectedForAReason,
         HintsAreUnknown
<1>6. CASE Answer \/ AnswerWithoutList
  <2>1. inFlight.reply \subseteq Carriers
    BY DEF TypeOK
  <2>2. PICK list \in SUBSET Carriers : Takes(list)
    BY <1>6, <2>1 DEF Answer, AnswerWithoutList
  <2> QED BY <2>2, ListTaken
<1>7. CASE Fail
  BY <1>7, IdleType
     DEF Fail, Rejecting, TypeOK, ListedAreNotRejected, RejectedForAReason,
         HintsAreUnknown
<1>8. CASE Rest
  BY <1>8 DEF Rest, TypeOK, ListedAreNotRejected, RejectedForAReason,
         HintsAreUnknown
<1>9. CASE UNCHANGED vars
  BY <1>9 DEF vars, TypeOK, ListedAreNotRejected, RejectedForAReason,
         HintsAreUnknown
<1> QED BY <1>1, <1>2, <1>3, <1>4, <1>5, <1>6, <1>7, <1>8, <1>9 DEF Next

LEMMA ListStart == Init => ListInv
BY IdleType DEF Init, ListInv, TypeOK, ListedAreNotRejected, RejectedForAReason,
         HintsAreUnknown

\* Every variable keeps its type: only what the controller lists is known.
THEOREM ListTypeCorrect == Spec => []TypeOK
<1>1. ListInv => TypeOK
  BY DEF ListInv
<1> QED BY <1>1, ListStart, ListStep, PTL DEF Spec

\* No group is listed and rejected at once, although the rejection happens in
\* the refresh's callback and the clearing in an effect of the next render, and
\* a group is barred from triggering refreshes only by a list without it, or by
\* a refresh that no list answered.
THEOREM Rejections == Spec => []RejectionsAreRight
<1>1. ListInv => RejectionsAreRight
  BY DEF ListInv, RejectionsAreRight
<1> QED BY <1>1, ListStart, ListStep, PTL DEF Spec

-----------------------------------------------------------------------------
(* The radar feed. The batching of the Airboss page is faithful for any    *)
(* schedule of frames, commits and broken connections.                     *)

\* A frame joins a batch: the result is a batch.
LEMMA AppendedType ==
  ASSUME NEW batch \in Batch, NEW f \in Frame
  PROVE  Appended(batch, f) \in Batch
BY DEF Appended, Batch, Frame

LEMMA AppliedType ==
  ASSUME NEW samples \in [Units -> Nat], NEW batch \in Batch
  PROVE  Applied(samples, batch) \in [Units -> Nat]
BY DEF Applied, Batch

\* The channel keeps at most its capacity, and only frames.
LEMMA BufferedType ==
  ASSUME NEW frames \in Seq(Frame), Len(frames) <= MaxQueue, NEW f \in Frame
  PROVE  /\ Buffered(Append(frames, f)) \in Seq(Frame)
         /\ Len(Buffered(Append(frames, f))) <= MaxQueue
<1> DEFINE longer == Append(frames, f)
<1>1. longer \in Seq(Frame) /\ Len(longer) = Len(frames) + 1 /\ longer # <<>>
  OBVIOUS
<1>2. Tail(longer) \in Seq(Frame) /\ Len(Tail(longer)) = Len(longer) - 1
  BY <1>1
<1> HIDE DEF longer
<1>3. Buffered(longer) \in Seq(Frame) /\ Len(Buffered(longer)) <= MaxQueue
  BY <1>1, <1>2, QueueAssumption DEF Buffered
<1> QED BY <1>3 DEF longer

\* A frame that joins the batch acts on the result as if applied on its own.
LEMMA AppendedApplies ==
  ASSUME NEW samples \in [Units -> Nat], NEW batch \in Batch, NEW f \in Frame
  PROVE  Applied(samples, Appended(batch, f))
           = [Applied(samples, batch) EXCEPT ![f.unit] = f.at]
BY DEF Applied, Appended, Batch, Frame

\* A batch is applied once: after it, the empty batch changes nothing.
LEMMA NothingApplies ==
  ASSUME NEW samples \in [Units -> Nat]
  PROVE  Applied(samples, NoBatch) = samples
BY DEF Applied, NoBatch, Nothing

\* Only units are overtaken by the loss of frames.
LEMMA OvertakenType ==
  ASSUME NEW frames \in Seq(Frame), NEW keep
  PROVE  Overtaken(frames, keep) \subseteq Units
<1>1. \A i \in DOMAIN frames : frames[i] \in Frame
  OBVIOUS
<1>2. \A f \in Frame : f.unit \in Units
  BY DEF Frame
<1> QED BY <1>1, <1>2 DEF Overtaken, ToSet

LEMMA NothingType == Nothing \in [Units -> Nat] /\ NoBatch \in Batch
BY DEF Nothing, NoBatch, Batch

LEMMA HeadOfQueue ==
  ASSUME RadarTypeOK, queue # <<>>
  PROVE  /\ Head(queue) \in Frame
         /\ Tail(queue) \in Seq(Frame) /\ Len(Tail(queue)) <= MaxQueue
<1>1. queue \in Seq(Frame) /\ Len(queue) <= MaxQueue
  BY DEF RadarTypeOK
<1>2. Head(queue) \in Frame /\ Tail(queue) \in Seq(Frame)
      /\ Len(Tail(queue)) = Len(queue) - 1 /\ Len(queue) \in Nat
  BY <1>1
<1> QED BY <1>1, <1>2, QueueAssumption

-----------------------------------------------------------------------------
LEMMA RadarTypeStep == RadarTypeOK /\ [RadarNext]_radarVars => RadarTypeOK'
<1> SUFFICES ASSUME RadarTypeOK, [RadarNext]_radarVars PROVE RadarTypeOK'
  OBVIOUS
<1> USE CategoryAssumption, QueueAssumption
<1>1. ASSUME NEW u \in Units, Change(u) PROVE RadarTypeOK'
  BY <1>1 DEF Change, RadarTypeOK, page
<1>2. ASSUME NEW u \in Units, ReportUnit(u) PROVE RadarTypeOK'
  <2> DEFINE f == [unit |-> u, at |-> world[u]]
  <2>1. f \in Frame
    BY DEF Frame, RadarTypeOK
  <2>2. queue \in Seq(Frame) /\ Len(queue) <= MaxQueue
    BY DEF RadarTypeOK
  <2>3. queue' \in Seq(Frame) /\ Len(queue') <= MaxQueue
    <3> HIDE DEF f
    <3>1. queue' = Buffered(Append(queue, f)) \/ queue' = queue
      BY <1>2 DEF ReportUnit, f
    <3> QED BY <3>1, <2>1, <2>2, BufferedType
  <2>4. missed' \subseteq Units
    <3>1. Append(queue, f) \in Seq(Frame)
      BY <2>1, <2>2
    <3>2. Overtaken(Append(queue, f), queue') \subseteq Units
      BY <3>1, OvertakenType
    <3> QED BY <1>2, <3>2 DEF ReportUnit, RadarTypeOK
  <2> QED BY <1>2, <2>3, <2>4 DEF ReportUnit, RadarTypeOK, page
<1>3. ASSUME NEW c \in Categories, StreamEnds(c) PROVE RadarTypeOK'
  BY <1>3 DEF StreamEnds, RadarTypeOK, page
<1>4. ASSUME NEW c \in Categories, StreamOpens(c) PROVE RadarTypeOK'
  BY <1>4 DEF StreamOpens, RadarTypeOK, page
<1>5. CASE ReceiveFrame
  <2>1. Head(queue) \in Frame /\ Tail(queue) \in Seq(Frame)
        /\ Len(Tail(queue)) <= MaxQueue
    BY <1>5, HeadOfQueue DEF ReceiveFrame
  <2>2. pending' \in Batch
    BY <1>5, <2>1, AppendedType DEF ReceiveFrame, RadarTypeOK
  <2>3. replayed' \in [Units -> Nat]
    BY <1>5, <2>1 DEF ReceiveFrame, RadarTypeOK, Frame
  <2> QED BY <1>5, <2>1, <2>2, <2>3 DEF ReceiveFrame, RadarTypeOK, upstream
<1>6. CASE Commit
  <2>1. snapshot' \in [Units -> Nat] /\ pending' \in Batch
    BY <1>6, AppliedType, NothingType DEF Commit, RadarTypeOK
  <2> QED BY <1>6, <2>1 DEF Commit, RadarTypeOK, upstream
<1>7. CASE Disconnect
  <2>1. missed' \subseteq Units
    BY <1>7, OvertakenType DEF Disconnect, RadarTypeOK
  <2> QED BY <1>7, <2>1 DEF Disconnect, RadarTypeOK, upstream
<1>8. CASE Connect
  BY <1>8 DEF Connect, RadarTypeOK, upstream
<1>9. CASE Reopen
  BY <1>9, NothingType DEF Reopen, RadarTypeOK, upstream
<1>10. CASE UNCHANGED radarVars
  BY <1>10 DEF RadarTypeOK, radarVars
<1> QED BY <1>1, <1>2, <1>3, <1>4, <1>5, <1>6, <1>7, <1>8, <1>9, <1>10 DEF RadarNext

\* Every variable keeps its type; the channel never holds more than its
\* capacity.
THEOREM RadarTypeCorrect == RadarSpec => []RadarTypeOK
<1>1. RadarInit => RadarTypeOK
  BY NothingType, QueueAssumption DEF RadarInit, RadarTypeOK
<1> QED BY <1>1, RadarTypeStep, PTL DEF RadarSpec

-----------------------------------------------------------------------------
LEMMA FaithfulStep ==
  RadarTypeOK /\ BatchIsFaithful /\ [RadarNext]_radarVars => BatchIsFaithful'
<1> SUFFICES ASSUME RadarTypeOK, BatchIsFaithful, [RadarNext]_radarVars PROVE BatchIsFaithful'
  OBVIOUS
<1>1. CASE UNCHANGED <<snapshot, pending, replayed>>
  BY <1>1 DEF BatchIsFaithful
<1>2. CASE ReceiveFrame
  <2>1. Head(queue) \in Frame
    BY <1>2, HeadOfQueue DEF ReceiveFrame
  <2>2. snapshot \in [Units -> Nat] /\ pending \in Batch
    BY DEF RadarTypeOK
  <2>3. Applied(snapshot, Appended(pending, Head(queue)))
          = [replayed EXCEPT ![Head(queue).unit] = Head(queue).at]
    BY <2>1, <2>2, AppendedApplies DEF BatchIsFaithful
  <2> QED BY <1>2, <2>3 DEF ReceiveFrame, BatchIsFaithful
<1>3. CASE Commit
  <2>1. Applied(snapshot, pending) \in [Units -> Nat]
    BY AppliedType DEF RadarTypeOK
  <2>2. Applied(snapshot', pending') = snapshot'
    BY <1>3, <2>1, NothingApplies DEF Commit
  <2> QED BY <1>3, <2>2 DEF Commit, BatchIsFaithful
<1>4. CASE Reopen
  BY <1>4, NothingType, NothingApplies DEF Reopen, BatchIsFaithful
<1> QED
  <2>1. CASE UNCHANGED radarVars
    BY <1>1, <2>1 DEF radarVars
  <2>2. ASSUME NEW u \in Units, Change(u) \/ ReportUnit(u)
        PROVE  UNCHANGED <<snapshot, pending, replayed>>
    BY <2>2 DEF Change, ReportUnit, page
  <2>3. ASSUME NEW c \in Categories, StreamEnds(c) \/ StreamOpens(c)
        PROVE  UNCHANGED <<snapshot, pending, replayed>>
    BY <2>3 DEF StreamEnds, StreamOpens, page
  <2>4. CASE Disconnect \/ Connect
    BY <1>1, <2>4 DEF Disconnect, Connect
  <2> QED BY <1>1, <1>2, <1>3, <1>4, <2>1, <2>2, <2>3, <2>4 DEF RadarNext

\* Batching is not visible: at any moment the committed and the collected frames
\* make the units that applying every frame at once would have made.
THEOREM Faithful == RadarSpec => []BatchIsFaithful
<1>1. RadarInit => BatchIsFaithful
  BY NothingType, NothingApplies DEF RadarInit, BatchIsFaithful
<1>2. RadarTypeOK /\ BatchIsFaithful /\ [RadarNext]_radarVars => BatchIsFaithful'
  BY FaithfulStep
<1> QED BY <1>1, <1>2, RadarTypeCorrect, PTL DEF RadarSpec

-----------------------------------------------------------------------------
(* What a unit was last reported as is in the last frame of it that is     *)
(* under way, or already shown.                                            *)

UnderWay(u, frames, at) ==
  \E i \in DOMAIN frames : /\ frames[i] = [unit |-> u, at |-> at]
                           /\ \A j \in DOMAIN frames : frames[j].unit = u => j <= i
NoneOfIt(u, frames) == \A i \in DOMAIN frames : frames[i].unit # u

LEMMA TailShows ==
  ASSUME NEW frames \in Seq(Frame), frames # <<>>, NEW u, NEW at
  PROVE  /\ UnderWay(u, frames, at) =>
              \/ UnderWay(u, Tail(frames), at)
              \/ NoneOfIt(u, Tail(frames)) /\ Head(frames) = [unit |-> u, at |-> at]
         /\ NoneOfIt(u, frames) => NoneOfIt(u, Tail(frames)) /\ Head(frames).unit # u
<1>1. /\ DOMAIN frames = 1..Len(frames) /\ Len(frames) \in Nat \ {0} /\ Head(frames) = frames[1]
      /\ DOMAIN Tail(frames) = 1..(Len(frames) - 1)
      /\ \A i \in 1..(Len(frames) - 1) : Tail(frames)[i] = frames[i + 1]
  <2>1. DOMAIN frames = 1..Len(frames) /\ Len(frames) \in Nat \ {0} /\ Head(frames) = frames[1]
    BY LenProperties, EmptySeq
  <2>2. Tail(frames) \in Seq(Frame) /\ Len(Tail(frames)) = Len(frames) - 1
        /\ \A i \in 1..Len(Tail(frames)) : Tail(frames)[i] = frames[i + 1]
    BY HeadTailProperties
  <2> QED BY <2>1, <2>2, LenProperties
<1> DEFINE rest == Tail(frames)
<1> HIDE DEF rest
<1>2. \A i \in DOMAIN rest : i + 1 \in DOMAIN frames /\ i + 1 # 1 /\ rest[i] = frames[i + 1]
  BY <1>1 DEF rest
<1>3. \A j \in DOMAIN frames : j # 1 => j - 1 \in DOMAIN rest /\ rest[j - 1] = frames[j]
  <2> TAKE j \in DOMAIN frames
  <2>1. CASE j # 1
    <3>1. j - 1 \in 1..(Len(frames) - 1) /\ (j - 1) + 1 = j
      BY <1>1, <2>1
    <3> QED BY <1>1, <3>1 DEF rest
  <2> QED BY <2>1
<1>4. ASSUME NEW i \in DOMAIN frames, frames[i] = [unit |-> u, at |-> at],
             \A j \in DOMAIN frames : frames[j].unit = u => j <= i
      PROVE  \/ UnderWay(u, rest, at)
             \/ NoneOfIt(u, rest) /\ Head(frames) = [unit |-> u, at |-> at]
  <2>1. CASE i = 1
    <3>1. \A j \in DOMAIN rest : rest[j].unit # u
      BY <1>1, <1>2, <1>4, <2>1 DEF rest
    <3> QED BY <1>1, <1>4, <2>1, <3>1 DEF NoneOfIt
  <2>2. CASE i # 1
    <3>1. i - 1 \in DOMAIN rest /\ rest[i - 1] = [unit |-> u, at |-> at]
      BY <1>3, <1>4, <2>2
    <3>2. \A j \in DOMAIN rest : rest[j].unit = u => j <= i - 1
      <4> TAKE j \in DOMAIN rest
      <4>1. rest[j].unit = u => j + 1 <= i
        BY <1>2, <1>4
      <4>2. j \in Int /\ i \in Int
        BY <1>1 DEF rest
      <4> QED BY <4>1, <4>2
    <3> QED BY <3>1, <3>2 DEF UnderWay
  <2> QED BY <2>1, <2>2
<1>5. ASSUME NoneOfIt(u, frames) PROVE NoneOfIt(u, rest) /\ Head(frames).unit # u
  BY <1>1, <1>2, <1>5 DEF NoneOfIt
<1> QED BY <1>4, <1>5 DEF UnderWay, rest

LEMMA AppendShows ==
  ASSUME NEW frames \in Seq(Frame), NEW f \in Frame
  PROVE  /\ UnderWay(f.unit, Append(frames, f), f.at)
         /\ \A v, at : v # f.unit =>
              /\ UnderWay(v, frames, at) => UnderWay(v, Append(frames, f), at)
              /\ NoneOfIt(v, frames) => NoneOfIt(v, Append(frames, f))
<1> DEFINE longer == Append(frames, f)
<1>1. /\ DOMAIN frames = 1..Len(frames) /\ Len(frames) \in Nat
      /\ DOMAIN longer = 1..(Len(frames) + 1) /\ longer[Len(frames) + 1] = f
      /\ \A i \in 1..Len(frames) : longer[i] = frames[i]
  BY AppendProperties, LenProperties
<1>2. f = [unit |-> f.unit, at |-> f.at]
  BY DEF Frame
<1> HIDE DEF longer
<1>3. UnderWay(f.unit, longer, f.at)
  <2>1. Len(frames) + 1 \in DOMAIN longer /\ \A j \in DOMAIN longer : j <= Len(frames) + 1
    BY <1>1
  <2> QED BY <1>1, <1>2, <2>1 DEF UnderWay
<1>4. \A j \in DOMAIN longer : longer[j] = f \/ (j \in DOMAIN frames /\ longer[j] = frames[j])
  BY <1>1
<1>5. \A j \in DOMAIN frames : j \in DOMAIN longer /\ longer[j] = frames[j]
  BY <1>1
<1>6. ASSUME NEW v, NEW at, v # f.unit
      PROVE  /\ UnderWay(v, frames, at) => UnderWay(v, longer, at)
             /\ NoneOfIt(v, frames) => NoneOfIt(v, longer)
  BY <1>4, <1>5, <1>6 DEF UnderWay, NoneOfIt
<1> QED BY <1>3, <1>6 DEF longer

\* A frame that joins a batch changes its unit only, and to what it says.
LEMMA AppliedFrame ==
  ASSUME NEW samples \in [Units -> Nat], NEW batch \in Batch, NEW f \in Frame
  PROVE  /\ Applied(samples, Appended(batch, f))[f.unit] = f.at
         /\ \A v \in Units \ {f.unit} :
              Applied(samples, Appended(batch, f))[v] = Applied(samples, batch)[v]
BY AppendedApplies, AppliedType DEF Frame

LEMMA ReportKeeps ==
  ASSUME RadarTypeOK, NothingGoesMissing, NEW u \in Units, ReportUnit(u)
  PROVE  NothingGoesMissing'
<1> DEFINE f == [unit |-> u, at |-> world[u]]
           frames == Append(queue, f)
           samples == Applied(snapshot, pending)
<1>1. f \in Frame /\ queue \in Seq(Frame) /\ f.unit = u /\ f.at = world[u]
  BY DEF RadarTypeOK, Frame
<1>2. /\ samples' = samples /\ reported'[u] = world[u]
      /\ \A v \in Units \ {u} : reported'[v] = reported[v]
  BY DEF ReportUnit, page, Applied, RadarTypeOK
<1> HIDE DEF f, samples
<1>3. \A v \in Units \ missed :
        UnderWay(v, queue, reported[v]) \/ (NoneOfIt(v, queue) /\ samples[v] = reported[v])
  BY DEF NothingGoesMissing, UnderWay, NoneOfIt, samples
<1>4. SUFFICES ASSUME NEW v \in Units \ missed'
               PROVE  \/ UnderWay(v, queue', reported'[v])
                      \/ NoneOfIt(v, queue') /\ samples[v] = reported'[v]
  BY <1>2 DEF NothingGoesMissing, UnderWay, NoneOfIt, samples
<1>5. CASE source # "open"
  <2>1. queue' = queue /\ v # u /\ v \in Units \ missed
    BY <1>4, <1>5 DEF ReportUnit
  <2> QED BY <1>2, <1>3, <2>1
<1>6. CASE source = "open"
  <2>1. /\ queue' = Buffered(frames)
        /\ missed' = (missed \ {u}) \cup Overtaken(frames, queue')
    BY <1>6 DEF ReportUnit, f
  <2>2. frames \in Seq(Frame) /\ frames # <<>> /\ Len(frames) = Len(queue) + 1 /\ Len(queue) \in Nat
    BY <1>1, AppendProperties, LenProperties
  <2>3. v # u => v \in Units \ missed
    BY <1>4, <2>1
  <2>4. \/ UnderWay(v, frames, reported'[v])
        \/ v # u /\ NoneOfIt(v, frames) /\ samples[v] = reported'[v]
    <3>1. CASE v = u
      BY <1>1, <1>2, <3>1, AppendShows
    <3>2. CASE v # u
      BY <1>1, <1>2, <1>3, <2>3, <3>2, AppendShows
    <3> QED BY <3>1, <3>2
  <2> HIDE DEF frames
  <2>5. CASE queue' = frames
    BY <2>4, <2>5
  <2>6. CASE queue' = Tail(frames) /\ Len(frames) > MaxQueue
    <3>1. CASE NoneOfIt(v, frames)
      BY <2>2, <2>4, <2>6, <3>1, TailShows DEF UnderWay, NoneOfIt
    <3>2. CASE UnderWay(v, frames, reported'[v])
      <4>1. CASE UnderWay(v, queue', reported'[v])
        BY <4>1
      <4>2. CASE NoneOfIt(v, queue') /\ Head(frames) = [unit |-> v, at |-> reported'[v]]
        <5>1. v \in {g.unit : g \in ToSet(frames)}
          BY <3>2 DEF UnderWay, ToSet
        <5>2. v \notin {g.unit : g \in ToSet(queue')}
          BY <4>2 DEF NoneOfIt, ToSet
        <5> QED BY <1>4, <2>1, <5>1, <5>2 DEF Overtaken
      <4> QED BY <2>2, <2>6, <3>2, <4>1, <4>2, TailShows
    <3> QED BY <2>4, <3>1, <3>2
  <2> QED BY <2>1, <2>5, <2>6 DEF Buffered
<1> QED BY <1>5, <1>6

LEMMA ReceiveKeeps ==
  ASSUME RadarTypeOK, NothingGoesMissing, ReceiveFrame
  PROVE  NothingGoesMissing'
<1> DEFINE samples == Applied(snapshot, pending)
<1>1. /\ queue \in Seq(Frame) /\ queue # <<>> /\ queue' = Tail(queue) /\ Head(queue) \in Frame
      /\ UNCHANGED <<reported, missed>>
  BY HeadOfQueue DEF ReceiveFrame, RadarTypeOK, upstream
<1>2. /\ samples'[Head(queue).unit] = Head(queue).at
      /\ \A v \in Units \ {Head(queue).unit} : samples'[v] = samples[v]
  BY <1>1, AppliedFrame DEF ReceiveFrame, RadarTypeOK
<1> HIDE DEF samples
<1>3. \A v \in Units \ missed :
        UnderWay(v, queue, reported[v]) \/ (NoneOfIt(v, queue) /\ samples[v] = reported[v])
  BY DEF NothingGoesMissing, UnderWay, NoneOfIt, samples
<1>4. SUFFICES ASSUME NEW v \in Units \ missed
               PROVE  \/ UnderWay(v, queue', reported[v])
                      \/ NoneOfIt(v, queue') /\ samples'[v] = reported[v]
  BY <1>1 DEF NothingGoesMissing, UnderWay, NoneOfIt, samples
<1>5. CASE UnderWay(v, queue, reported[v])
  BY <1>1, <1>2, <1>5, TailShows
<1>6. CASE NoneOfIt(v, queue) /\ samples[v] = reported[v]
  BY <1>1, <1>2, <1>6, TailShows
<1> QED BY <1>3, <1>4, <1>5, <1>6

LEMMA MissingStep ==
  RadarTypeOK /\ NothingGoesMissing /\ [RadarNext]_radarVars => NothingGoesMissing'
<1> SUFFICES ASSUME RadarTypeOK, NothingGoesMissing, [RadarNext]_radarVars
             PROVE  NothingGoesMissing'
  OBVIOUS
<1>1. CASE UNCHANGED <<reported, queue, pending, snapshot, missed>>
  BY <1>1 DEF NothingGoesMissing, Applied
<1>2. ASSUME NEW c \in Categories, StreamEnds(c) PROVE NothingGoesMissing'
  <2>1. /\ UNCHANGED <<queue, pending, snapshot>> /\ missed \subseteq missed'
        /\ \A u \in Units \ missed' : reported'[u] = reported[u]
    BY <1>2 DEF StreamEnds, page, RadarTypeOK
  <2>2. Applied(snapshot, pending)' = Applied(snapshot, pending)
    BY <2>1 DEF Applied
  <2> QED BY <2>1, <2>2 DEF NothingGoesMissing
<1>3. CASE Commit
  <2>1. Applied(snapshot, pending) \in [Units -> Nat]
    BY AppliedType DEF RadarTypeOK
  <2>2. Applied(snapshot, pending)' = Applied(snapshot, pending)
    BY <1>3, <2>1, NothingApplies DEF Commit
  <2> QED BY <1>3, <2>2 DEF Commit, upstream, NothingGoesMissing
<1>4. CASE Disconnect
  <2>1. \A u \in Units \ missed' : u \in Units \ missed /\ NoneOfIt(u, queue)
    BY <1>4 DEF Disconnect, Overtaken, ToSet, NoneOfIt
  <2>2. Applied(snapshot, pending)' = Applied(snapshot, pending) /\ DOMAIN queue' = {}
        /\ reported' = reported
    BY <1>4 DEF Disconnect, Applied, upstream
  <2> QED BY <2>1, <2>2 DEF NothingGoesMissing, NoneOfIt
<1>5. CASE Reopen
  <2>1. \A u \in Units \ missed' : reported'[u] = 0 /\ DOMAIN queue' = {}
    BY <1>5 DEF Reopen, upstream
  <2>2. Applied(snapshot, pending)' = Nothing
    BY <1>5, NothingType, NothingApplies DEF Reopen
  <2> QED BY <2>1, <2>2 DEF NothingGoesMissing, Nothing
<1> QED
  <2>1. CASE UNCHANGED radarVars
    BY <1>1, <2>1 DEF radarVars
  <2>2. ASSUME NEW u \in Units, Change(u) PROVE NothingGoesMissing'
    BY <1>1, <2>2 DEF Change, page
  <2>3. ASSUME NEW c \in Categories, StreamOpens(c) PROVE NothingGoesMissing'
    BY <1>1, <2>3 DEF StreamOpens, page
  <2>4. CASE Connect
    BY <1>1, <2>4 DEF Connect, upstream
  <2> QED BY <1>2, <1>3, <1>4, <1>5, <2>1, <2>2, <2>3, <2>4, ReportKeeps, ReceiveKeeps DEF RadarNext

\* For any number of units, streams and frames, and any capacity: a unit is shown
\* as its stream last reported it, or the last frame of it under way says so,
\* unless that frame was lost (telemetry.rs, stream.rs, deckTracking.ts).
THEOREM NothingIsLost == RadarSpec => []NothingGoesMissing
<1>1. RadarInit => NothingGoesMissing
  BY NothingType, NothingApplies DEF RadarInit, NothingGoesMissing, Nothing
<1> QED BY <1>1, MissingStep, RadarTypeCorrect, PTL DEF RadarSpec

-----------------------------------------------------------------------------
(* The reports. The report and the error of a panel that is not synced are *)
(* left alone: a request that still counts asks for the synced panels, since *)
(* whatever changes these strikes the requests of before.                  *)

Entries == {<<>>} \cup UNION {[names -> {"there", "gone"}] : names \in SUBSET Ships}
Request == [at : {"free", "sent", "served"}, ships : SUBSET Ships,
            entries : Entries, current : {"yes", "no"}]

\* What the requests are: the lists of names and answers are taken apart by
\* the steps, and the two tables have an entry per ship.
ReportsShape ==
  /\ ship \in [Ships -> {"there", "gone"}]
  /\ moving \subseteq Ships /\ shown \subseteq Ships /\ synced \subseteq Ships
  /\ report \in [Ships -> {"none", "one"}]
  /\ error \in [Ships -> {"none", "gone", "other"}]
  /\ poll \in [Polls -> Request]

\* A request that counts has asked for the panels that are synced now.
CurrentAsksForSynced == \A q \in Polls : poll[q].current = "yes" => poll[q].ships = Synced

ReportsInv == ReportsShape /\ CurrentAsksForSynced

-----------------------------------------------------------------------------
LEMMA FreeRequest == NoPoll \in Request /\ NoPoll.current = "no"
BY DEF NoPoll, Request, Entries

LEMMA SyncedType == ASSUME ReportsShape PROVE Synced \in SUBSET Ships
BY DEF ReportsShape, Synced

LEMMA AskedType ==
  ASSUME NEW names \in SUBSET Ships
  PROVE  [at |-> "sent", ships |-> names, entries |-> <<>>, current |-> "yes"] \in Request
BY DEF Request, Entries

\* The requests are struck when the names change, and left alone when not.
LEMMA RekeyedKeeps ==
  ASSUME ReportsShape, CurrentAsksForSynced, Rekeyed,
         shown' \subseteq Ships, synced' \subseteq Ships
  PROVE  poll' \in [Polls -> Request] /\ CurrentAsksForSynced'
<1>1. CASE synced' \cap shown' = Synced
  <2>1. poll' = poll /\ Synced' = Synced
    BY <1>1 DEF Rekeyed, Synced
  <2> QED BY <2>1 DEF ReportsShape, CurrentAsksForSynced
<1>2. CASE synced' \cap shown' # Synced
  <2>1. poll' = [q \in Polls |-> [poll[q] EXCEPT !.current = "no"]]
    BY <1>2 DEF Rekeyed
  <2>2. \A q \in Polls : poll'[q] \in Request /\ poll'[q].current = "no"
    BY <2>1 DEF ReportsShape, Request
  <2>3. poll' \in [Polls -> Request]
    BY <2>1, <2>2
  <2> QED BY <2>2, <2>3 DEF CurrentAsksForSynced
<1> QED BY <1>1, <1>2

\* A request comes to its end: it is free, the others are as they were.
LEMMA FreedKeeps ==
  ASSUME ReportsShape, CurrentAsksForSynced, NEW q \in Polls,
         poll' = [poll EXCEPT ![q] = NoPoll], UNCHANGED <<shown, synced>>
  PROVE  poll' \in [Polls -> Request] /\ CurrentAsksForSynced'
<1>1. poll' \in [Polls -> Request]
  BY FreeRequest DEF ReportsShape
<1>2. Synced' = Synced
  BY DEF Synced
<1>3. \A p \in Polls : p # q => poll'[p] = poll[p]
  BY DEF ReportsShape
<1>4. poll'[q].current = "no"
  BY FreeRequest DEF ReportsShape
<1> QED BY <1>1, <1>2, <1>3, <1>4 DEF CurrentAsksForSynced

-----------------------------------------------------------------------------
LEMMA ReportsStart == ReportsInit => ReportsInv
<1> SUFFICES ASSUME ReportsInit PROVE ReportsInv
  OBVIOUS
<1>1. poll \in [Polls -> Request] /\ \A q \in Polls : poll[q].current = "no"
  BY FreeRequest DEF ReportsInit
<1>2. ReportsShape
  BY <1>1 DEF ReportsInit, ReportsShape
<1> QED BY <1>1, <1>2 DEF ReportsInv, CurrentAsksForSynced

\* What an answer does to the two tables keeps their shape.
LEMMA AnswerShape ==
  ASSUME ReportsShape, NEW q \in Polls, AnswerPoll(q)
  PROVE  report' \in [Ships -> {"none", "one"}]
         /\ error' \in [Ships -> {"none", "gone", "other"}]
<1>1. CASE ~Counts(q)
  BY <1>1 DEF AnswerPoll, ReportsShape
<1>2. CASE Counts(q)
  BY <1>2 DEF AnswerPoll, ReportsShape
<1> QED BY <1>1, <1>2

LEMMA ReportsStep == ReportsInv /\ [ReportsNext]_reportsVars => ReportsInv'
<1> SUFFICES ASSUME ReportsShape, CurrentAsksForSynced, [ReportsNext]_reportsVars PROVE ReportsInv'
  BY DEF ReportsInv
<1>1. ASSUME NEW s \in Ships, Sink(s) PROVE ReportsInv'
  BY <1>1 DEF Sink, ReportsInv, ReportsShape, CurrentAsksForSynced, Synced
<1>2. ASSUME NEW s \in Ships, ShipFrame(s) PROVE ReportsInv'
  BY <1>2 DEF ShipFrame, ReportsInv, ReportsShape, CurrentAsksForSynced, Synced
<1>3. ASSUME NEW s \in Ships, Sync(s) PROVE ReportsInv'
  <2>1. shown' \subseteq Ships /\ synced' \subseteq Ships /\ Rekeyed
    BY <1>3 DEF Sync, ReportsShape
  <2>2. poll' \in [Polls -> Request] /\ CurrentAsksForSynced'
    BY <2>1, RekeyedKeeps
  <2> QED BY <1>3, <2>1, <2>2 DEF Sync, ReportsInv, ReportsShape
<1>4. ASSUME NEW s \in Ships, Show(s) PROVE ReportsInv'
  <2>1. shown' \subseteq Ships /\ synced' \subseteq Ships /\ Rekeyed
    BY <1>4 DEF Show, ReportsShape
  <2>2. poll' \in [Polls -> Request] /\ CurrentAsksForSynced'
    BY <2>1, RekeyedKeeps
  <2> QED BY <1>4, <2>1, <2>2 DEF Show, ReportsInv, ReportsShape
<1>5. ASSUME NEW q \in Polls, Tick(q) PROVE ReportsInv'
  <2> DEFINE asked == [at |-> "sent", ships |-> Synced, entries |-> <<>>, current |-> "yes"]
  <2>1. asked \in Request /\ asked.ships = Synced
    BY SyncedType, AskedType
  <2> HIDE DEF asked
  <2>2. poll' = [poll EXCEPT ![q] = asked] /\ Synced' = Synced
    BY <1>5 DEF Tick, asked, Synced
  <2>3. poll' \in [Polls -> Request]
    BY <2>1, <2>2 DEF ReportsShape
  <2>4. CurrentAsksForSynced'
    BY <2>1, <2>2 DEF ReportsShape, CurrentAsksForSynced
  <2> QED BY <1>5, <2>3, <2>4 DEF Tick, ReportsInv, ReportsShape
<1>6. ASSUME NEW q \in Polls, ServePoll(q) PROVE ReportsInv'
  <2> DEFINE answer == [s \in poll[q].ships |-> ship[s]]
             served == [poll[q] EXCEPT !.at = "served", !.entries = answer]
  <2>1. poll[q] \in Request /\ poll[q].ships \in SUBSET Ships
    BY DEF ReportsShape, Request
  <2>2. answer \in Entries
    BY <2>1 DEF ReportsShape, Entries
  <2>3. poll' = [poll EXCEPT ![q] = served] /\ Synced' = Synced
    BY <1>6 DEF ServePoll, ReportsShape, Synced
  <2>4. served \in Request /\ served.ships = poll[q].ships /\ served.current = poll[q].current
    <3> HIDE DEF answer
    <3> QED BY <2>1, <2>2 DEF Request
  <2> HIDE DEF answer, served
  <2>5. poll' \in [Polls -> Request]
    BY <2>3, <2>4 DEF ReportsShape
  <2>6. CurrentAsksForSynced'
    BY <2>3, <2>4 DEF ReportsShape, CurrentAsksForSynced
  <2> QED BY <1>6, <2>5, <2>6 DEF ServePoll, ReportsInv, ReportsShape
<1>7. ASSUME NEW q \in Polls, AnswerPoll(q) PROVE ReportsInv'
  <2>1. poll' = [poll EXCEPT ![q] = NoPoll] /\ UNCHANGED <<ship, moving, shown, synced>>
    BY <1>7 DEF AnswerPoll
  <2> QED BY <1>7, <2>1, FreedKeeps, AnswerShape DEF ReportsInv, ReportsShape
<1>8. ASSUME NEW q \in Polls, FailPoll(q) PROVE ReportsInv'
  <2>1. poll' = [poll EXCEPT ![q] = NoPoll] /\ UNCHANGED <<ship, moving, shown, synced, report>>
    BY <1>8 DEF FailPoll
  <2>2. error' \in [Ships -> {"none", "gone", "other"}]
    BY <1>8 DEF FailPoll, ReportsShape
  <2> QED BY <2>1, <2>2, FreedKeeps DEF ReportsInv, ReportsShape
<1>9. CASE UNCHANGED reportsVars
  BY <1>9 DEF reportsVars, ReportsInv, ReportsShape, CurrentAsksForSynced, Synced
<1> QED BY <1>1, <1>2, <1>3, <1>4, <1>5, <1>6, <1>7, <1>8, <1>9 DEF ReportsNext

\* The tables and the sets of the page hold what they should, whatever
\* requests and clicks come (page.tsx, CarrierPanel.tsx).
THEOREM ReportsTypeCorrect == ReportsSpec => []ReportsTypeOK
<1>1. ReportsInv => ReportsTypeOK
  BY DEF ReportsInv, ReportsShape, ReportsTypeOK
<1> QED BY <1>1, ReportsStart, ReportsStep, PTL DEF ReportsSpec

-----------------------------------------------------------------------------
\* An answer or a failure only touches the panels it asked for, and these are
\* synced, or it does not count.
LEMMA StepFreezes ==
  ReportsInv /\ [ReportsNext]_reportsVars
    => [\A s \in Ships \ Synced : report'[s] = report[s] /\ error'[s] = error[s]]_reportsVars
<1> SUFFICES ASSUME ReportsShape, CurrentAsksForSynced, [ReportsNext]_reportsVars,
                    NEW s \in Ships \ Synced
             PROVE  report'[s] = report[s] /\ error'[s] = error[s]
  BY DEF ReportsInv
<1>1. ASSUME NEW q \in Polls, Counts(q) PROVE s \notin poll[q].ships
  BY <1>1 DEF Counts, CurrentAsksForSynced
<1>2. ASSUME NEW q \in Polls, AnswerPoll(q) PROVE report'[s] = report[s] /\ error'[s] = error[s]
  <2>1. CASE ~Counts(q)
    BY <1>2, <2>1 DEF AnswerPoll
  <2>2. CASE Counts(q)
    BY <1>1, <1>2, <2>2 DEF AnswerPoll
  <2> QED BY <2>1, <2>2
<1>3. ASSUME NEW q \in Polls, FailPoll(q) PROVE report'[s] = report[s] /\ error'[s] = error[s]
  <2>1. CASE UNCHANGED error
    BY <1>3, <2>1 DEF FailPoll
  <2>2. CASE /\ Counts(q)
             /\ error' = [t \in Ships |-> IF t \in poll[q].ships THEN "other" ELSE error[t]]
    BY <1>1, <1>3, <2>2 DEF FailPoll
  <2> QED BY <1>3, <2>1, <2>2 DEF FailPoll
<1>4. ASSUME NEW t \in Ships, Sink(t) \/ ShipFrame(t) \/ Sync(t) \/ Show(t)
      PROVE  report'[s] = report[s] /\ error'[s] = error[s]
  BY <1>4 DEF Sink, ShipFrame, Sync, Show
<1>5. ASSUME NEW q \in Polls, Tick(q) \/ ServePoll(q)
      PROVE  report'[s] = report[s] /\ error'[s] = error[s]
  BY <1>5 DEF Tick, ServePoll
<1>6. CASE UNCHANGED reportsVars
  BY <1>6 DEF reportsVars
<1> QED BY <1>2, <1>3, <1>4, <1>5, <1>6 DEF ReportsNext

\* No answer, however late, touches a panel that is not synced: its last wind
\* stays what the user saw when the Sync was taken off (page.tsx:215-265).
THEOREM Frozen == ReportsSpec => UnsyncedIsFrozen
BY ReportsStart, ReportsStep, StepFreezes, PTL DEF ReportsSpec, UnsyncedIsFrozen

-----------------------------------------------------------------------------
(* All of them                                                             *)

LEMMA LiveFollows == LiveSpec => Spec /\ RadarSpec /\ ReportsSpec
<1>1. LiveInit => Init /\ RadarInit /\ ReportsInit
  BY DEF LiveInit
<1>2. [LiveNext]_liveVars => [Next]_vars /\ [RadarNext]_radarVars /\ [ReportsNext]_reportsVars
  BY DEF LiveNext, liveVars
<1> QED BY <1>1, <1>2, PTL DEF LiveSpec, Spec, RadarSpec, ReportsSpec

\* The types of all the variables, for any sets and bounds.
THEOREM LiveTypeCorrect == LiveSpec => []LiveTypeOK
<1>1. TypeOK /\ RadarTypeOK /\ ReportsTypeOK => LiveTypeOK
  BY DEF LiveTypeOK
<1> QED BY <1>1, LiveFollows, ListTypeCorrect, RadarTypeCorrect, ReportsTypeCorrect, PTL
================================================================================
