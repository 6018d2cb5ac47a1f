---------------------------- MODULE DashboardSession ----------------------------
(***************************************************************************)
(* Who is signed in, in a browser with several tabs of the dashboard       *)
(* (web-dashboard/src/lib/api.ts, components/AuthGate.tsx, app/login/      *)
(* page.tsx, the Logout and the polls of components/Sidebar.tsx). The      *)
(* token of the session lies in localStorage, which the tabs share; a      *)
(* request carries the token there is when it is sent, and an answer that  *)
(* refuses it removes the token there is when it is read. A tab knows of   *)
(* another tab's sign-in or sign-out by an event. Leaving a page by        *)
(* window.location drops its requests, the router does not.                *)
(***************************************************************************)
EXTENDS Naturals, FiniteSets

CONSTANTS
  Windows,    \* the tabs of the browser
  Calls,      \* requests that can be in flight at once
  MaxTokens   \* bound: sessions the server issues

ASSUME MaxTokensAssumption == MaxTokens \in Nat

VARIABLES
  token,   \* localStorage['dcs_token'], 0 when there is none
  issued,  \* tokens issued so far, by number
  valid,   \* tokens the server accepts: those that have not expired
  window,  \* per tab: where it is, and what AuthGate last read of the token
  call     \* per request: its tab, the token it carries and how far it is

sessionVars == <<token, issued, valid, window, call>>

NoToken == 0
Free == [tab |-> "none", sent |-> NoToken, at |-> "free"]
\* getSnapshot, and what a tab is after a document was loaded at a path.
Snapshot == IF token # NoToken THEN "in" ELSE "out"
Loaded(path) == [path |-> path, gate |-> "unknown"]

InFlightOf(t) == {c \in Calls : call[c].at # "free" /\ call[c].tab = t}
Dropped(t) == [c \in Calls |-> IF c \in InFlightOf(t) THEN Free ELSE call[c]]

\* AuthGate shows the login page to anybody and the others to who is in; the
\* sidebar is on all of them.
Mounted(t) == window[t].path = "login" \/ window[t].gate = "in"

SessionInit ==
  /\ token = NoToken /\ issued = 0 /\ valid = {}
  /\ window = [t \in Windows |-> Loaded("page")]
  /\ call = [c \in Calls |-> Free]

-----------------------------------------------------------------------------
(* The guard                                                               *)

\* The user opens a page by its address, or reloads it.
Reload(t) ==
  /\ window' = [window EXCEPT ![t] = Loaded("page")]
  /\ call' = Dropped(t)
  /\ UNCHANGED <<token, issued, valid>>

\* The first rendering in the browser, a storage event of another tab, focus.
SeesOtherGate(t) == window[t].gate # Snapshot
Notice(t) ==
  /\ SeesOtherGate(t)
  /\ window' = [window EXCEPT ![t].gate = Snapshot]
  /\ UNCHANGED <<token, issued, valid, call>>

\* router.replace('/login'), which renders the guard again.
Redirect(t) ==
  /\ window[t].gate = "out" /\ window[t].path # "login"
  /\ window' = [window EXCEPT ![t] = [path |-> "login", gate |-> Snapshot]]
  /\ UNCHANGED <<token, issued, valid, call>>

-----------------------------------------------------------------------------
(* Signing in and out                                                      *)

\* The form, or Discord, which comes back to a newly loaded login page.
SignIn(t, way) ==
  /\ window[t].path = "login" /\ issued < MaxTokens
  /\ issued' = issued + 1 /\ token' = issued + 1 /\ valid' = valid \cup {issued + 1}
  /\ window' = [window EXCEPT ![t] = [path |-> "page", gate |-> "in"]]
  /\ call' = IF way = "discord" THEN Dropped(t) ELSE call

\* The Logout of the sidebar: the token goes, the server is not asked.
Logout(t) ==
  /\ Mounted(t)
  /\ token' = NoToken
  /\ window' = [window EXCEPT ![t] = Loaded("login")]
  /\ call' = Dropped(t)
  /\ UNCHANGED <<issued, valid>>

\* The seven days of a token are over, or the secret was changed.
Expire(n) ==
  /\ n \in valid
  /\ valid' = valid \ {n}
  /\ UNCHANGED <<token, issued, window, call>>

-----------------------------------------------------------------------------
(* apiFetch                                                                *)

\* A timer of the sidebar or of the page: on the login page there is only the
\* sidebar, which asks when there is a token.
Ask(t, c) ==
  /\ Mounted(t) /\ call[c].at = "free"
  /\ window[t].path = "login" => token # NoToken
  /\ call' = [call EXCEPT ![c] = [tab |-> t, sent |-> token, at |-> "sent"]]
  /\ UNCHANGED <<token, issued, valid, window>>

Goes(c, at) ==
  /\ call' = [call EXCEPT ![c] = IF at = "free" THEN Free ELSE [@ EXCEPT !.at = at]]
  /\ UNCHANGED <<token, issued, valid, window>>

\* AuthUser: a 401 with a reason for a token that is missing or no longer
\* valid; for a valid one the answer of the handler, or any 401 of a proxy.
Refuse(c) == call[c].at = "sent" /\ call[c].sent \notin valid /\ Goes(c, "refused")
Serve(c) ==
  /\ call[c].at = "sent" /\ call[c].sent \in valid
  /\ \E at \in {"free", "other"} : Goes(c, at)
\* The request or its answer; a refusal has changed nothing at the server.
Lose(c) == call[c].at = "sent" /\ Goes(c, "free")

\* The token there is goes, and a page goes to the login.
SessionOver(c) ==
  /\ token' = NoToken
  /\ IF window[call[c].tab].path = "login"
     THEN window' = window /\ call' = [call EXCEPT ![c] = Free]
     ELSE /\ window' = [window EXCEPT ![call[c].tab] = Loaded("login")]
          /\ call' = Dropped(call[c].tab)
  /\ UNCHANGED <<issued, valid>>

\* isSessionRejected: where there is no token any 401 is a rejection.
SignedOut(c) == token = NoToken /\ call[c].at \in {"refused", "other"} /\ SessionOver(c)

\* Fault: every 401 is taken for a rejection.
RejectsAny(c) == TRUE
\* Fault: the reason is tested the wrong way round.
RejectsOthers(c) == call[c].at = "other"
\* Where there is one, the body's reason tells, once it is read.
Rejects(c) == call[c].at = "refused"
Judge(c) ==
  /\ call[c].at \in {"refused", "other"} /\ token # NoToken
  /\ Goes(c, IF Rejects(c) THEN "rejected" ELSE "free")

End(c) == call[c].at = "rejected" /\ SessionOver(c)

SessionNext ==
  \/ \E t \in Windows :
       \/ Reload(t) \/ Notice(t) \/ Redirect(t) \/ Logout(t)
       \/ \E way \in {"password", "discord"} : SignIn(t, way)
       \/ \E c \in Calls : Ask(t, c)
  \/ \E n \in valid : Expire(n)
  \/ \E c \in Calls : Refuse(c) \/ Serve(c) \/ Lose(c) \/ SignedOut(c) \/ Judge(c) \/ End(c)

\* Timers fire, answers come, the browser renders and delivers its events; in
\* the end users do not reload pages and the connection holds.
SessionFairness ==
  /\ \A t \in Windows : /\ WF_sessionVars(Notice(t)) /\ WF_sessionVars(Redirect(t))
                        /\ WF_sessionVars(\E c \in Calls : Ask(t, c))
  /\ \A c \in Calls : /\ WF_sessionVars(Refuse(c) \/ Serve(c))
                      /\ WF_sessionVars(SignedOut(c) \/ Judge(c)) /\ WF_sessionVars(End(c))
LeftOpen ==
  <>[][/\ \A t \in Windows : ~Reload(t)
       /\ \A c \in Calls : call[c].sent \notin valid => ~Lose(c)]_sessionVars

SessionSpec == SessionInit /\ [][SessionNext]_sessionVars
SessionFairSpec == SessionSpec /\ SessionFairness /\ LeftOpen

-----------------------------------------------------------------------------
(* Properties                                                              *)

Paths == {"login", "page"}
Gates == {"unknown", "in", "out"}
CallStates == {"free", "sent", "refused", "other", "rejected"}

SessionTypeOK ==
  /\ issued \in 0..MaxTokens /\ token \in 0..issued /\ valid \in SUBSET (1..issued)
  /\ window \in [Windows -> [path : Paths, gate : Gates]]
  /\ call \in [Calls -> [tab : Windows \cup {"none"}, sent : 0..issued, at : CallStates]]
  /\ \A c \in Calls : call[c].at # "free" => call[c].tab \in Windows

\* A session the server still accepts ends by a Logout, or by the refusal of
\* a request that carried another token: never because a request of its own
\* has failed (isSessionRejected). The second case is a flaw of its own, see
\* OnlyItsRejectionEndsASession.
SessionsEndForAReason ==
  [][token' = NoToken /\ token \in valid =>
       \/ \E t \in Windows : Logout(t)
       \/ \E c \in Calls : End(c) /\ call[c].sent # token]_sessionVars

\* "Only a rejection of the token itself should end the session" (api.ts): what
\* removes a token is a Logout or that the server does not accept this token.
OnlyItsRejectionEndsASession ==
  [][token # NoToken /\ token' = NoToken =>
       token \notin valid \/ \E t \in Windows : Logout(t)]_sessionVars

\* A token that has expired is found out and removed, unless somebody signs in
\* anew, and once there is none every open tab comes to the login page.
EndsEverywhere ==
  /\ (token # NoToken /\ token \notin valid) ~> (token = NoToken \/ token \in valid)
  /\ token = NoToken ~> (token # NoToken \/ \A t \in Windows : window[t].path = "login")
=================================================================================
