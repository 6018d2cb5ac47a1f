------------------------------- MODULE WeatherSwap -------------------------------
(***************************************************************************)
(* Applying a weather preset (weather_apply in                             *)
(* rust-web-dashboard/src/routes/system.rs): the request finds out which   *)
(* of a mission's two files DCS runs, has the weather generator write the  *)
(* other one, and makes DCS load it. The generator is a child process that *)
(* a timeout or a lost client leaves running.                              *)
(*                                                                         *)
(* A file is its slot: "A", "B", or "plain" for a mission without the      *)
(* suffix; its content is the number of the apply that wrote it.           *)
(***************************************************************************)
EXTENDS Naturals

CONSTANTS
  Requests,   \* applies at a time
  First,      \* the slot the server starts with, first in the mission list
  Queued,     \* is the running mission in the mission list
  MaxApplies  \* bound: applies

AppliesAssumption == MaxApplies \in Nat

Slots == {"A", "B", "plain"}

VARIABLES
  running,  \* the slot DCS has loaded, and its content at that time
  weather,  \* content of the files
  dto,      \* the mission of data/dto.json: what a generator wrote last
  applies,  \* applies so far
  request,  \* request[r]: an apply, and its generator
  mishaps   \* history: what has happened that can spoil the swap

vars == <<running, weather, dto, applies, request, mishaps>>

Idle == [at |-> "idle", target |-> "none", apply |-> 0]

TypeOK ==
  /\ running \in [slot : Slots \cup {"none"}, weather : Nat]
  /\ weather \in [Slots -> Nat]
  /\ dto \in Slots \cup {"none"}
  /\ applies \in 0 .. MaxApplies
  /\ request \in [Requests -> [at : {"idle", "resolved", "generating", "orphan",
                                     "generated", "success"},
                               target : Slots, apply : Nat] \cup {Idle}]
  /\ mishaps \subseteq {"overlap", "unreachable", "switch"}

-----------------------------------------------------------------------------
(* weather_apply                                                           *)

\* Fault: both slots are mapped to B.
AlwaysB(slot) == IF slot = "plain" THEN slot ELSE "B"

Swapped(slot) == CASE slot = "A" -> "B" [] slot = "B" -> "A" [] OTHER -> slot

\* What DCS runs, if it can be reached; else the last generated mission; else
\* the mission list's first.
Current(reachable) ==
  IF reachable /\ running.slot # "none" /\ Queued THEN running.slot
  ELSE IF dto # "none" THEN dto
  ELSE First

Resolve(r) ==
  /\ request[r] = Idle
  /\ applies < MaxApplies
  /\ applies' = applies + 1
  /\ \E reachable \in BOOLEAN :
       /\ request' = [request EXCEPT ![r] = [at |-> "resolved",
                                          target |-> Swapped(Current(reachable)),
                                          apply |-> applies + 1]]
       /\ mishaps' = mishaps
            \cup (IF \E q \in Requests : request[q] # Idle THEN {"overlap"} ELSE {})
            \cup (IF reachable THEN {} ELSE {"unreachable"})
  /\ UNCHANGED <<running, weather, dto>>

StartGenerator(r) ==
  /\ request[r].at = "resolved"
  /\ request' = [request EXCEPT ![r].at = "generating"]
  /\ UNCHANGED <<running, weather, dto, applies, mishaps>>

\* cmd.output() is not awaited any longer; the child is not killed.
Timeout(r) ==
  /\ request[r].at = "generating"
  /\ request' = [request EXCEPT ![r].at = "orphan"]
  /\ UNCHANGED <<running, weather, dto, applies, mishaps>>

\* load_mission fails: the generated file stays unused.
LoadFails(r) ==
  /\ request[r].at = "generated"
  /\ request' = [request EXCEPT ![r] = Idle]
  /\ UNCHANGED <<running, weather, dto, applies, mishaps>>

Loaded(r) == request[r].target

Load(r) ==
  /\ request[r].at = "generated"
  /\ running' = [slot |-> Loaded(r), weather |-> weather[Loaded(r)]]
  /\ request' = [request EXCEPT ![r].at = "success"]
  /\ UNCHANGED <<weather, dto, applies, mishaps>>

Respond(r) ==
  /\ request[r].at = "success"
  /\ request' = [request EXCEPT ![r] = Idle]
  /\ UNCHANGED <<running, weather, dto, applies, mishaps>>

-----------------------------------------------------------------------------
(* weather_generator.py and DCS                                            *)

IsWriting(r) == request[r].at \in {"generating", "orphan"}

GeneratorWrites(r) ==
  /\ IsWriting(r)
  /\ weather' = [weather EXCEPT ![request[r].target] = request[r].apply]
  /\ dto' = request[r].target
  /\ request' = [request EXCEPT
       ![r] = IF request[r].at = "orphan" THEN Idle ELSE [@ EXCEPT !.at = "generated"]]
  /\ UNCHANGED <<running, applies, mishaps>>

GeneratorFails(r) ==
  /\ IsWriting(r)
  /\ request' = [request EXCEPT ![r] = Idle]
  /\ UNCHANGED <<running, weather, dto, applies, mishaps>>

\* An administrator has another slot loaded, or DCS stopped or started.
Switch(slot) ==
  /\ running.slot # slot
  /\ running' = [slot |-> slot, weather |-> IF slot = "none" THEN 0 ELSE weather[slot]]
  /\ mishaps' = mishaps \cup {"switch"}
  /\ UNCHANGED <<weather, dto, applies, request>>

Init ==
  /\ running = [slot |-> First, weather |-> 0]
  /\ weather = [slot \in Slots |-> 0]
  /\ dto = "none"
  /\ applies = 0
  /\ request = [r \in Requests |-> Idle]
  /\ mishaps = {}

Next ==
  \/ \E r \in Requests :
       \/ Resolve(r) \/ StartGenerator(r) \/ Timeout(r) \/ LoadFails(r) \/ Load(r)
       \/ Respond(r) \/ GeneratorWrites(r) \/ GeneratorFails(r)
  \/ \E slot \in {"A", "B", "none"} : Switch(slot)

Spec == Init /\ [][Next]_vars

-----------------------------------------------------------------------------
(* Properties                                                              *)

\* "A/B swap so the generator writes the inactive (unlocked) file": no
\* generator is at work on the file of the mission DCS has loaded, over
\* timeouts, failed generators and failed loads, as long as applies do not
\* overlap, nobody else loads a mission and DCS answers.
WritesInactive ==
  mishaps = {} =>
    \A r \in Requests : IsWriting(r) => request[r].target # running.slot

\* An apply that reports success has made DCS load the weather it was asked for,
\* also when DCS was unreachable or missions were switched before; only
\* another apply at the same time can put its weather in place.
SuccessIsLoaded ==
  [][\A r \in Requests : request[r].at # "success" /\ request'[r].at = "success"
       => running'.weather = request[r].apply \/ "overlap" \in mishaps]_vars
=================================================================================
