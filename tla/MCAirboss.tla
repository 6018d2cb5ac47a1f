-------------------------------- MODULE MCAirboss --------------------------------
(***************************************************************************)
(* A carrier recovery, the panel that chooses its target wind and the      *)
(* decks the panels show, in one instance. The controller reads the target *)
(* when a recovery starts, as part of the picture of CarrierRecovery; they *)
(* share no other state, so a behaviour follows one of them (focus) and    *)
(* leaves the others alone, as in MCDashboardLive.                         *)
(***************************************************************************)
EXTENDS MCCarrierRecovery, AirbossTargets, DeckView, TLC

VARIABLE focus   \* what is followed

AirbossInit ==
  /\ focus \in {"recovery", "targets", "decks"}
  /\ Init /\ TargetsInit /\ DeckInit
  /\ focus # "recovery" => bc = {} /\ sea = [g \in Groups |-> CHOOSE p \in Pictures : TRUE]
  /\ focus # "targets" => detected = "yes"

AirbossNext ==
  /\ UNCHANGED focus
  /\ \/ focus = "recovery" /\ Next /\ UNCHANGED <<targetsVars, deckVars>>
     \/ focus = "targets" /\ TargetsNext /\ UNCHANGED <<vars, deckVars>>
     \/ focus = "decks" /\ DeckNext /\ UNCHANGED <<vars, targetsVars>>

AirbossSpec == AirbossInit /\ [][AirbossNext]_<<focus, vars, targetsVars, deckVars>>

\* Neither posts nor panels are told apart by their names.
Alike == Permutations(Posts) \cup Permutations(Panels)

\* The types of all the variables.
AirbossTypeOK ==
  /\ focus = "recovery" => TypeOK
  /\ focus = "targets" => TargetsTypeOK
  /\ focus = "decks" => DeckTypeOK
==================================================================================
