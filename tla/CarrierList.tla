------------------------------ MODULE CarrierList ------------------------------
(***************************************************************************)
(* The list of detected carriers on the Airboss page                       *)
(* (web-dashboard/src/app/airboss/useCarrierList.ts): fetched when the     *)
(* page opens and on a manual refresh, and again when the radar shows a    *)
(* ship whose type hints at a carrier and that the list does not know, at  *)
(* most once per 30 seconds and not for groups a refresh did not return.   *)
(* The list itself is what the mission's controller classifies as carriers *)
(* at that moment (listCarriers in rust-web-dashboard/lua/                 *)
(* carrier_recovery.lua).                                                  *)
(***************************************************************************)
EXTENDS Naturals, FiniteSets

CONSTANTS
  Carriers,    \* ship groups the controller lists
  Lookalikes,  \* ship groups whose type hints at a carrier, not listed
  MaxSpawns,   \* bound: groups that spawn
  MaxLosses    \* bound: groups that sink or despawn

Groups == Carriers \cup Lookalikes

ASSUME GroupsAssumption == Carriers \cap Lookalikes = {}
ASSUME BoundsAssumption == MaxSpawns \in Nat /\ MaxLosses \in Nat

VARIABLES
  mission,   \* the groups that exist
  spawns,    \* groups spawned so far
  losses,    \* groups lost so far
  radar,     \* the groups of radarUnits
  known,     \* knownGroups: the list's groups
  rejected,  \* rejectedGroups
  rested,    \* have 30 seconds passed since lastAttemptAt
  inFlight,  \* inFlight, the groups that triggered it, and its reply
  denied,    \* history: triggering groups that a list then did not contain
  undecided  \* history: triggering groups that no list answered

vars == <<mission, spawns, losses, radar, known, rejected, rested, inFlight,
          denied, undecided>>

NotAsking == [at |-> "idle", hints |-> {}, reply |-> {}]

TypeOK ==
  /\ mission \subseteq Groups /\ radar \subseteq Groups
  /\ spawns \in Nat /\ losses \in Nat
  /\ known \subseteq Carriers
  /\ rejected \subseteq Groups
  /\ denied \subseteq Groups /\ undecided \subseteq Groups
  /\ rested \in {"yes", "no"}
  /\ inFlight \in [at : {"idle", "sent", "served"}, hints : SUBSET Groups,
                  reply : SUBSET Carriers]

-----------------------------------------------------------------------------
(* The mission                                                             *)

Spawn(g) ==
  /\ g \notin mission /\ spawns < MaxSpawns
  /\ mission' = mission \cup {g}
  /\ spawns' = spawns + 1
  /\ UNCHANGED <<losses, radar, known, rejected, rested, inFlight,
                 denied, undecided>>

Lose(g) ==
  /\ g \in mission /\ losses < MaxLosses
  /\ mission' = mission \ {g}
  /\ losses' = losses + 1
  /\ UNCHANGED <<spawns, radar, known, rejected, rested, inFlight, denied, undecided>>

Listed == mission \cap Carriers

\* listCarriers, in the mission, some time after the request was sent.
Serve ==
  /\ inFlight.at = "sent"
  /\ inFlight' = [inFlight EXCEPT !.at = "served", !.reply = Listed]
  /\ UNCHANGED <<mission, spawns, losses, radar, known, rejected, rested, denied,
                 undecided>>

-----------------------------------------------------------------------------
(* useCarrierList                                                          *)

Unknown(shown, listed, refused) == shown \ (listed \cup refused)

\* Fault: a refresh that does not return a group does not count against it.
NeverRejects(refused, hints) == refused

\* refresh().then: also after a refresh that failed or did not start.
Rejecting(refused, hints) == refused \cup hints

\* Fault: a listed group stays rejected.
StaysRejected(refused, listed) == refused

Cleared(refused, listed) == refused \ listed

\* The effect on radarUnits and knownGroups, with the one that clears listed
\* groups after it: r is the request that is in flight, if any, and refused
\* the rejected groups.
Effect(shown, listed, refused, r) ==
  LET unknown == Unknown(shown, listed, refused)
      triggers == unknown # {} /\ rested = "yes"
      starts == triggers /\ r = NotAsking IN
  /\ inFlight' = IF starts THEN [at |-> "sent", hints |-> unknown, reply |-> {}] ELSE r
  /\ rested' = IF starts THEN "no" ELSE rested
  /\ rejected' = Cleared(IF triggers /\ ~starts THEN Rejecting(refused, unknown)
                         ELSE refused, listed)
  /\ undecided' = IF triggers /\ ~starts THEN undecided \cup unknown ELSE undecided

\* The radar commits a batch: a group that has moved comes on it and stays until
\* it is gone; one that lies still is not sent. What is gone may be shown still.
RadarCommits ==
  /\ radar' \in {shown \in SUBSET (radar \cup mission) : radar \cap mission \subseteq shown}
  /\ Effect(radar', known, rejected, inFlight)
  /\ UNCHANGED <<mission, spawns, losses, known, denied>>

\* The first scan, or the Refresh button.
Refresh ==
  /\ inFlight = NotAsking
  /\ inFlight' = [NotAsking EXCEPT !.at = "sent"]
  /\ rested' = "no"
  /\ UNCHANGED <<mission, spawns, losses, radar, known, rejected, denied, undecided>>

\* A list arrives; the groups that triggered the refresh are rejected, and
\* the new list is rendered.
Takes(list) ==
  /\ known' = list
  /\ denied' = denied \cup (inFlight.hints \ list)
  /\ Effect(radar, list, Rejecting(rejected, inFlight.hints), NotAsking)
  /\ UNCHANGED <<mission, spawns, losses, radar>>

Answer == inFlight.at = "served" /\ Takes(inFlight.reply)

\* An answer that is OK but has no array of carriers is an empty list to the page.
AnswerWithoutList == inFlight # NotAsking /\ Takes({})

\* The request fails, or its answer is an error; the list stays.
Fail ==
  /\ inFlight # NotAsking
  /\ rejected' = Rejecting(rejected, inFlight.hints)
  /\ undecided' = undecided \cup inFlight.hints
  /\ inFlight' = NotAsking
  /\ UNCHANGED <<mission, spawns, losses, radar, known, rested, denied>>

\* CARRIER_REFRESH_MIN_INTERVAL_MS after the last attempt; a request can take
\* longer.
Rest ==
  /\ rested = "no"
  /\ rested' = "yes"
  /\ UNCHANGED <<mission, spawns, losses, radar, known, rejected, inFlight, denied,
                 undecided>>

-----------------------------------------------------------------------------
Init ==
  /\ mission \in SUBSET Groups
  /\ spawns = 0 /\ losses = 0
  /\ radar = {} /\ known = {} /\ rejected = {}
  /\ denied = {} /\ undecided = {}
  /\ rested = "yes"
  /\ inFlight = NotAsking

Next ==
  \/ \E g \in Groups : Spawn(g) \/ Lose(g)
  \/ Serve \/ RadarCommits \/ Refresh \/ Answer \/ AnswerWithoutList \/ Fail \/ Rest

Spec == Init /\ [][Next]_vars

\* The radar commits for ever, whatever moves, time passes, and requests end;
\* nobody has to press Refresh, and requests may fail for ever.
Fairness ==
  /\ WF_vars(RadarCommits) /\ WF_vars(Rest)
  /\ WF_vars(Serve) /\ WF_vars(Answer)

FairSpec == Spec /\ Fairness

-----------------------------------------------------------------------------
(* Properties                                                              *)

\* No group is both listed and barred from triggering a refresh, whichever of
\* the refresh's callback and the render that shows the list comes first.
ListedAreNotRejected == rejected \cap known = {}

\* "Hinted groups that a refresh did not return (hulls the controller excludes
\* or classifies as non-carriers)": a group is rejected only if a list that the
\* page received did not contain it.
RejectedWereDenied == rejected \subseteq denied

\* ... or if no list answered the refresh it triggered: it failed, or another
\* one was under way. No other group is barred.
RejectedForAReason == rejected \subseteq denied \cup undecided

\* Both of useCarrierList's bookkeeping of rejections.
RejectionsAreRight == ListedAreNotRejected /\ RejectedForAReason

\* "A ship whose type hints at a carrier but whose group is not in the list
\* means something spawned since the last fetch": a carrier that the radar shows
\* and that stays in the mission gets listed without anybody pressing Refresh,
\* unless it was rejected or requests keep failing or being answered without a
\* list. One that lies still is never on the radar, and waits for a Refresh or
\* for another group's.
ListCatchesUp ==
  []<><<Fail \/ AnswerWithoutList>>_vars \/
  \A g \in Carriers : g \in radar ~> g \in known \cup rejected \/ g \notin mission

\* Excluded hulls do not "re-trigger a refresh every 30 s for the rest of the
\* session": once nothing spawns any more, every hinted group is listed or
\* rejected, failing requests or not, unless somebody keeps pressing Refresh.
HintsSettle ==
  []<><<Refresh>>_vars \/ <>[](Unknown(radar, known, rejected) = {})

\* Whatever the radar shows is listed, or found not to be a carrier, and then
\* there is nothing left to ask for.
CarriersSettle == ListCatchesUp /\ HintsSettle
===============================================================================
