---------------------------- MODULE MCDashboardFiles ----------------------------
(***************************************************************************)
(* What the dashboard reads, lets somebody edit and writes back, in one    *)
(* instance: the server settings, the audit log of logins, the weather     *)
(* files, and Foothold's and the SRS server's configuration. They share no *)
(* state, so a behaviour follows one of them (focus) and leaves the others *)
(* alone, as in MCDashboardLive.                                           *)
(***************************************************************************)
EXTENDS ServerSettings

CONSTANTS
  Logins, MaxLogs, MaxEntries,   \* AuditLog
  Applies, MaxApplies,           \* WeatherSwap
  Forms, MaxValue, MaxEdits      \* FootholdConfig and SrsConfig

VARIABLES
  focus,                                                    \* what is followed
  log, login, clock, turns,                           \* AuditLog
  running, weather, dto, applies, apply, spoilt,            \* WeatherSwap
  campaign, campaignForm, save, campaignEdits,              \* FootholdConfig
  server, serverForm, serverPost, serverEdits               \* SrsConfig

loginVars == <<log, login, clock, turns>>
weatherVars == <<running, weather, dto, applies, apply, spoilt>>
campaignVars == <<campaign, campaignForm, save, campaignEdits>>
serverVars == <<server, serverForm, serverPost, serverEdits>>

Audit == INSTANCE AuditLog WITH Requests <- Logins, file <- log
Weather == INSTANCE WeatherSwap
  WITH Requests <- Applies, First <- "A", Queued <- TRUE,
       request <- apply, mishaps <- spoilt
Foothold == INSTANCE FootholdConfig
  WITH Pages <- Forms, file <- campaign, page <- campaignForm, edits <- campaignEdits
Srs == INSTANCE SrsConfig
  WITH Pages <- Forms, file <- server, form <- serverForm, post <- serverPost, edits <- serverEdits
ASSUME LogBounds == Audit!LimitAssumption
ASSUME WeatherBounds == Weather!AppliesAssumption
ASSUME FormsBounds == Foothold!BoundsAssumption /\ Srs!EditsAssumption

Others(followed) ==
  /\ followed # "settings" => UNCHANGED vars
  /\ followed # "logins" => UNCHANGED loginVars
  /\ followed # "weather" => UNCHANGED weatherVars
  /\ followed # "foothold" => UNCHANGED campaignVars
  /\ followed # "srs" => UNCHANGED serverVars

FilesInit ==
  /\ focus \in {"settings", "logins", "weather", "foothold", "srs"}
  /\ Init /\ Audit!Init /\ Weather!Init /\ Foothold!Init /\ Srs!Init

FilesNext ==
  /\ UNCHANGED focus
  /\ \/ focus = "settings" /\ Next
     \/ focus = "logins" /\ Audit!Next
     \/ focus = "weather" /\ Weather!Next
     \/ focus = "foothold" /\ Foothold!Next
     \/ focus = "srs" /\ Srs!Next
  /\ Others(focus)

FilesSpec ==
  FilesInit /\ [][FilesNext]_<<focus, vars, loginVars, weatherVars, campaignVars, serverVars>>

-----------------------------------------------------------------------------
(* The properties; each part is stated with its code in the module it      *)
(* comes from.                                                             *)

\* The types of the variables of what is followed.
FilesTypeOK ==
  /\ focus = "settings" => TypeOK
  /\ focus = "logins" => Audit!TypeOK
  /\ focus = "weather" => Weather!TypeOK
  /\ focus = "foothold" => Foothold!TypeOK
  /\ focus = "srs" => Srs!TypeOK

\* The log of logins implements LoginTrail: entries are added at the front, one
\* at a time, and none is lost; and none is there twice (append_audit).
LogIsKept == Audit!EntriesAreAppended /\ []Audit!NewestFirst

\* No weather generator writes the loaded mission file, and a successful apply
\* has made DCS load its weather (process_apply).
WeatherIsSafe == [][Weather!WritesInactive']_weatherVars /\ Weather!SuccessIsLoaded

\* A save of Foothold's form writes the fields that were edited and leaves the
\* rest of the file, and a field edited meanwhile stays unsaved; what the SRS
\* form saved is what it reads back (update_foothold_config, post_settings).
FormsAreSaved ==
  Foothold!SavesWhatWasEdited /\ Foothold!EditsOutliveTheSave /\ Srs!SavedIsReadBack
=================================================================================
