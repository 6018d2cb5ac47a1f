------------------------ MODULE MCDashboardHost_proofs ------------------------
(***************************************************************************)
(* What is proved of the modules that MCDashboardHost follows, for any     *)
(* tabs, requests, sessions, versions and bounds. What is proved of        *)
(* process control is in ProcessControl_proofs.                            *)
(***************************************************************************)
EXTENDS MCDashboardHost, ProcessControl_proofs, SequenceTheorems

-----------------------------------------------------------------------------
(* The session. A session the server accepts never ends because one of its *)
(* own requests has failed: a refused request carried a token that is not  *)
(* valid, and is never valid again.                                        *)

Window == [path : Paths, gate : Gates]
Call == [tab : Windows \cup {"none"}, sent : 0..issued, at : CallStates]

\* What a request was refused for is not, and will not be, a valid token.
RefusedAreInvalid ==
  \A c \in Calls : call[c].at \in {"refused", "rejected"} => call[c].sent \notin valid

SessionInv == SessionTypeOK /\ RefusedAreInvalid

-----------------------------------------------------------------------------
LEMMA FreeType == ASSUME SessionTypeOK PROVE Free \in Call /\ Free.at = "free"
BY DEF SessionTypeOK, Free, Call, CallStates, NoToken

LEMMA LoadedType ==
  ASSUME NEW path \in Paths PROVE Loaded(path) \in Window
BY DEF Loaded, Window, Gates

LEMMA SnapshotType == Snapshot \in Gates
BY DEF Snapshot, Gates

LEMMA CallType ==
  ASSUME SessionTypeOK, NEW c \in Calls
  PROVE  /\ call \in [Calls -> Call] /\ call[c] \in Call
         /\ call[c].at # "free" => call[c].tab \in Windows
BY DEF SessionTypeOK, Call

\* The calls are as they were, but for some that are free now.
LEMMA SomeFreed ==
  ASSUME SessionInv, call' \in [Calls -> Call],
         \A c \in Calls : call'[c] = call[c] \/ call'[c].at = "free",
         issued' = issued, valid' \subseteq valid
  PROVE  /\ call' \in [Calls -> Call'] /\ RefusedAreInvalid'
         /\ \A c \in Calls : call'[c].at # "free" => call'[c].tab \in Windows
<1>1. Call' = Call
  BY DEF Call
<1> QED BY <1>1 DEF SessionInv, SessionTypeOK, RefusedAreInvalid

LEMMA DroppedKeeps ==
  ASSUME SessionTypeOK, NEW t
  PROVE  /\ Dropped(t) \in [Calls -> Call]
         /\ \A c \in Calls : Dropped(t)[c] = call[c] \/ Dropped(t)[c].at = "free"
<1>1. \A c \in Calls : call[c] \in Call
  BY CallType
<1> QED BY <1>1, FreeType DEF Dropped

\* The window of one tab is another one.
LEMMA WindowType ==
  ASSUME SessionTypeOK, NEW t \in Windows, NEW w \in Window,
         window' = [window EXCEPT ![t] = w]
  PROVE  window' \in [Windows -> Window]
BY DEF SessionTypeOK, Window

\* All that is asked of a step, part by part.
LEMMA SessionParts ==
  ASSUME issued' \in 0..MaxTokens, token' \in 0..issued', valid' \in SUBSET (1..issued'),
         window' \in [Windows -> Window], call' \in [Calls -> Call'],
         \A c \in Calls : call'[c].at # "free" => call'[c].tab \in Windows,
         RefusedAreInvalid'
  PROVE  SessionInv'
BY DEF SessionInv, SessionTypeOK, Window, Call

-----------------------------------------------------------------------------
LEMMA SessionStart == SessionInit => SessionInv
<1> SUFFICES ASSUME SessionInit PROVE SessionInv
  OBVIOUS
<1>1. Loaded("page") \in [path : Paths, gate : Gates]
  BY LoadedType DEF Window, Paths
<1>2. Free \in [tab : Windows \cup {"none"}, sent : 0..0, at : CallStates] /\ Free.at = "free"
  BY DEF Free, CallStates, NoToken
<1>3. issued = 0 /\ token = 0 /\ valid = {} /\ 0 \in 0..MaxTokens
  BY MaxTokensAssumption DEF SessionInit, NoToken
<1>4. call = [c \in Calls |-> Free] /\ window = [t \in Windows |-> Loaded("page")]
  BY DEF SessionInit
<1> QED BY <1>1, <1>2, <1>3, <1>4 DEF SessionInv, SessionTypeOK, RefusedAreInvalid

\* A tab goes to another place and drops its requests; the token stays or goes.
LEMMA GoneKeeps ==
  ASSUME SessionInv, NEW t \in Windows, NEW w \in Window,
         window' = [window EXCEPT ![t] = w], call' = Dropped(t),
         token' \in {token, NoToken}, issued' = issued, valid' = valid
  PROVE  SessionInv'
<1>1. SessionTypeOK
  BY DEF SessionInv
<1>2. window' \in [Windows -> Window]
  BY <1>1, WindowType
<1>3. call' \in [Calls -> Call] /\ \A c \in Calls : call'[c] = call[c] \/ call'[c].at = "free"
  BY <1>1, DroppedKeeps
<1>4. /\ call' \in [Calls -> Call'] /\ RefusedAreInvalid'
      /\ \A c \in Calls : call'[c].at # "free" => call'[c].tab \in Windows
  BY <1>3, SomeFreed
<1>5. issued' \in 0..MaxTokens /\ token' \in 0..issued' /\ valid' \in SUBSET (1..issued')
  BY <1>1 DEF SessionTypeOK, NoToken
<1> QED BY <1>2, <1>4, <1>5, SessionParts

\* Only the window of one tab changes.
LEMMA SeenKeeps ==
  ASSUME SessionInv, NEW t \in Windows, NEW w \in Window,
         window' = [window EXCEPT ![t] = w], UNCHANGED <<token, issued, valid, call>>
  PROVE  SessionInv'
<1>1. window' \in [Windows -> Window]
  BY WindowType DEF SessionInv
<1>2. call' \in [Calls -> Call'] /\ RefusedAreInvalid'
  BY DEF SessionInv, SessionTypeOK, Call, RefusedAreInvalid
<1> QED BY <1>1, <1>2, SessionParts DEF SessionInv, SessionTypeOK

\* Only one request changes, and it is refused with a reason or not at all.
LEMMA OneCallKeeps ==
  ASSUME SessionInv, NEW c \in Calls, NEW r \in Call,
         r.at # "free" => r.tab \in Windows,
         r.at \in {"refused", "rejected"} => r.sent \notin valid,
         call' = [call EXCEPT ![c] = r], UNCHANGED <<token, issued, valid, window>>
  PROVE  SessionInv'
<1>1. call \in [Calls -> Call] /\ Call' = Call
  BY DEF SessionInv, SessionTypeOK, Call
<1>2. call' \in [Calls -> Call']
  BY <1>1
<1>3. /\ \A d \in Calls : call'[d].at # "free" => call'[d].tab \in Windows
      /\ RefusedAreInvalid'
  BY <1>1 DEF SessionInv, SessionTypeOK, RefusedAreInvalid
<1> QED BY <1>2, <1>3, SessionParts DEF SessionInv, SessionTypeOK, Window

LEMMA GoesKeeps ==
  ASSUME SessionInv, NEW c \in Calls, NEW at \in CallStates, Goes(c, at), call[c].at # "free",
         at \in {"refused", "rejected"} => call[c].sent \notin valid
  PROVE  SessionInv'
<1> DEFINE r == IF at = "free" THEN Free ELSE [call[c] EXCEPT !.at = at]
<1>1. call[c] \in Call /\ call[c].tab \in Windows /\ call \in [Calls -> Call]
  BY CallType DEF SessionInv
<1>2. Free \in Call /\ Free.at = "free"
  BY FreeType DEF SessionInv
<1>3. r \in Call
  BY <1>1, <1>2 DEF Call
<1>4. r.at # "free" => r.tab \in Windows
  BY <1>1, <1>2 DEF Call
<1>5. r.at \in {"refused", "rejected"} => r.sent \notin valid
  BY <1>1, <1>2 DEF Call
<1>6. call' = [call EXCEPT ![c] = r] /\ UNCHANGED <<token, issued, valid, window>>
  BY <1>1 DEF Goes
<1> HIDE DEF r
<1> QED BY <1>3, <1>4, <1>5, <1>6, OneCallKeeps

\* The token there is goes, with the page of the request or without.
LEMMA OverKeeps ==
  ASSUME SessionInv, NEW c \in Calls, call[c].at # "free", SessionOver(c)
  PROVE  SessionInv'
<1>1. SessionTypeOK /\ call[c].tab \in Windows
  BY CallType DEF SessionInv
<1>2. CASE window[call[c].tab].path # "login"
  <2>1. Loaded("login") \in Window
    BY LoadedType DEF Paths
  <2> QED BY <1>1, <1>2, <2>1, GoneKeeps DEF SessionOver
<1>3. CASE window[call[c].tab].path = "login"
  <2>1. call' = [call EXCEPT ![c] = Free] /\ window' = window
        /\ token' = NoToken /\ UNCHANGED <<issued, valid>>
    BY <1>3 DEF SessionOver
  <2>2. call \in [Calls -> Call] /\ Free \in Call /\ Free.at = "free"
    BY <1>1, CallType, FreeType
  <2>3. call' \in [Calls -> Call] /\ \A d \in Calls : call'[d] = call[d] \/ call'[d].at = "free"
    BY <2>1, <2>2
  <2>4. /\ call' \in [Calls -> Call'] /\ RefusedAreInvalid'
        /\ \A d \in Calls : call'[d].at # "free" => call'[d].tab \in Windows
    BY <2>1, <2>3, SomeFreed
  <2>5. /\ issued' \in 0..MaxTokens /\ token' \in 0..issued' /\ valid' \in SUBSET (1..issued')
        /\ window' \in [Windows -> Window]
    BY <1>1, <2>1 DEF SessionTypeOK, NoToken, Window
  <2> QED BY <2>4, <2>5, SessionParts
<1> QED BY <1>2, <1>3

-----------------------------------------------------------------------------
\* Somebody signs in: the new token is none that was ever sent.
LEMMA SignInKeeps ==
  ASSUME SessionInv, NEW t \in Windows, NEW way \in {"password", "discord"}, SignIn(t, way)
  PROVE  SessionInv'
<1>1. SessionTypeOK /\ issued' = issued + 1 /\ issued < MaxTokens
      /\ token' = issued + 1 /\ valid' = valid \cup {issued + 1}
  BY DEF SessionInv, SignIn
<1>2. issued' \in 0..MaxTokens /\ token' \in 0..issued' /\ valid' \in SUBSET (1..issued')
  BY <1>1, MaxTokensAssumption DEF SessionTypeOK
<1>3. window' \in [Windows -> Window]
  <2> DEFINE w == [path |-> "page", gate |-> "in"]
  <2>1. w \in Window /\ window' = [window EXCEPT ![t] = w]
    BY DEF SignIn, Window, Paths, Gates
  <2> HIDE DEF w
  <2> QED BY <1>1, <2>1, WindowType
<1>4. call' \in [Calls -> Call] /\ \A c \in Calls : call'[c] = call[c] \/ call'[c].at = "free"
  <2>1. call' = Dropped(t) \/ call' = call
    BY DEF SignIn
  <2>2. call \in [Calls -> Call]
    BY <1>1 DEF SessionTypeOK, Call
  <2> QED BY <1>1, <2>1, <2>2, DroppedKeeps
<1>5. \A x \in Call : x \in Call' /\ x.sent # issued + 1
  <2>1. issued \in Nat
    BY <1>1 DEF SessionTypeOK
  <2> QED BY <1>1, <2>1 DEF Call
<1>6. call' \in [Calls -> Call']
  BY <1>4, <1>5
<1>7. \A c \in Calls : call'[c].at # "free" => call'[c].tab \in Windows
  BY <1>1, <1>4 DEF SessionTypeOK
<1>8. \A c \in Calls : call'[c].at \in {"refused", "rejected"} => call'[c].sent \notin valid'
  <2> SUFFICES ASSUME NEW c \in Calls, call'[c].at \in {"refused", "rejected"}
               PROVE  call'[c].sent \notin valid'
    OBVIOUS
  <2>1. call'[c] = call[c] /\ call'[c] \in Call
    BY <1>4
  <2>2. call[c].sent \notin valid
    BY <2>1 DEF SessionInv, RefusedAreInvalid
  <2> QED BY <1>1, <1>5, <2>1, <2>2
<1> QED BY <1>2, <1>3, <1>6, <1>7, <1>8, SessionParts DEF RefusedAreInvalid

LEMMA AskKeeps ==
  ASSUME SessionInv, NEW t \in Windows, NEW c \in Calls, Ask(t, c)
  PROVE  SessionInv'
<1> DEFINE r == [tab |-> t, sent |-> token, at |-> "sent"]
<1>1. r \in Call /\ r.at = "sent" /\ r.tab \in Windows
  BY DEF SessionInv, SessionTypeOK, Call, CallStates
<1>2. call' = [call EXCEPT ![c] = r] /\ UNCHANGED <<token, issued, valid, window>>
  BY DEF Ask
<1> HIDE DEF r
<1> QED BY <1>1, <1>2, OneCallKeeps

LEMMA SessionStep == SessionInv /\ [SessionNext]_sessionVars => SessionInv'
<1> SUFFICES ASSUME SessionInv, [SessionNext]_sessionVars PROVE SessionInv'
  OBVIOUS
<1>1. ASSUME NEW t \in Windows, Reload(t) PROVE SessionInv'
  BY <1>1, LoadedType, GoneKeeps DEF Reload, Paths
<1>2. ASSUME NEW t \in Windows, Notice(t) PROVE SessionInv'
  <2> DEFINE w == [window[t] EXCEPT !.gate = Snapshot]
  <2>1. w \in Window /\ window' = [window EXCEPT ![t] = w]
    BY <1>2, SnapshotType DEF Notice, SessionInv, SessionTypeOK, Window
  <2> HIDE DEF w
  <2> QED BY <1>2, <2>1, SeenKeeps DEF Notice
<1>3. ASSUME NEW t \in Windows, Redirect(t) PROVE SessionInv'
  <2> DEFINE w == [path |-> "login", gate |-> Snapshot]
  <2>1. w \in Window /\ window' = [window EXCEPT ![t] = w]
    BY <1>3, SnapshotType DEF Redirect, Window, Paths
  <2> HIDE DEF w
  <2> QED BY <1>3, <2>1, SeenKeeps DEF Redirect
<1>4. ASSUME NEW t \in Windows, Logout(t) PROVE SessionInv'
  BY <1>4, LoadedType, GoneKeeps DEF Logout, Paths
<1>5. ASSUME NEW t \in Windows, NEW way \in {"password", "discord"}, SignIn(t, way) PROVE SessionInv'
  BY <1>5, SignInKeeps
<1>6. ASSUME NEW t \in Windows, NEW c \in Calls, Ask(t, c) PROVE SessionInv'
  BY <1>6, AskKeeps
<1>7. ASSUME NEW n \in valid, Expire(n) PROVE SessionInv'
  <2>1. UNCHANGED <<call, window, issued, token>> /\ valid' \subseteq valid
    BY <1>7 DEF Expire
  <2>2. call' \in [Calls -> Call]
    BY <2>1 DEF SessionInv, SessionTypeOK, Call
  <2>3. /\ call' \in [Calls -> Call'] /\ RefusedAreInvalid'
        /\ \A c \in Calls : call'[c].at # "free" => call'[c].tab \in Windows
    BY <2>1, <2>2, SomeFreed
  <2> QED BY <2>1, <2>3, SessionParts DEF SessionInv, SessionTypeOK, Window
<1>8. ASSUME NEW c \in Calls, Refuse(c) PROVE SessionInv'
  BY <1>8, GoesKeeps DEF Refuse, CallStates
<1>9. ASSUME NEW c \in Calls, Serve(c) PROVE SessionInv'
  BY <1>9, GoesKeeps DEF Serve, CallStates
<1>10. ASSUME NEW c \in Calls, Lose(c) PROVE SessionInv'
  BY <1>10, GoesKeeps DEF Lose, CallStates
<1>11. ASSUME NEW c \in Calls, SignedOut(c) PROVE SessionInv'
  BY <1>11, OverKeeps DEF SignedOut
<1>12. ASSUME NEW c \in Calls, Judge(c) PROVE SessionInv'
  <2>1. call[c].at = "refused" => call[c].sent \notin valid
    BY DEF SessionInv, RefusedAreInvalid
  <2>2. CASE Rejects(c)
    BY <1>12, <2>1, <2>2, GoesKeeps DEF Judge, Rejects, CallStates
  <2>3. CASE ~Rejects(c)
    BY <1>12, <2>3, GoesKeeps DEF Judge, CallStates
  <2> QED BY <2>2, <2>3
<1>13. ASSUME NEW c \in Calls, End(c) PROVE SessionInv'
  BY <1>13, OverKeeps DEF End
<1>14. CASE UNCHANGED sessionVars
  BY <1>14 DEF sessionVars, SessionInv, SessionTypeOK, RefusedAreInvalid
<1> QED BY <1>1, <1>2, <1>3, <1>4, <1>5, <1>6, <1>7, <1>8, <1>9, <1>10, <1>11, <1>12, <1>13, <1>14
        DEF SessionNext

\* Tabs, requests and tokens are what they should be: no request carries a
\* token that was never issued, and none is without its tab (api.ts).
THEOREM SessionTypeCorrect == SessionSpec => []SessionTypeOK
<1>1. SessionInv => SessionTypeOK
  BY DEF SessionInv
<1> QED BY <1>1, SessionStart, SessionStep, PTL DEF SessionSpec

-----------------------------------------------------------------------------
\* Which steps remove a token, and which of them may remove a valid one.
LEMMA StepHasReason ==
  SessionInv /\ [SessionNext]_sessionVars
    => [token' = NoToken /\ token \in valid =>
          \/ \E t \in Windows : Logout(t)
          \/ \E c \in Calls : End(c) /\ call[c].sent # token]_sessionVars
<1> SUFFICES ASSUME SessionInv, SessionNext, token' = NoToken, token \in valid,
                    ~ \E t \in Windows : Logout(t)
             PROVE  \E c \in Calls : End(c) /\ call[c].sent # token
  OBVIOUS
<1>1. token # NoToken /\ token' # token
  BY DEF SessionInv, SessionTypeOK, NoToken
<1>2. ASSUME NEW c \in Calls, End(c) PROVE call[c].sent # token
  BY <1>2 DEF End, SessionInv, RefusedAreInvalid
<1>3. ASSUME NEW t \in Windows, NEW way \in {"password", "discord"}, SignIn(t, way) PROVE FALSE
  BY <1>3 DEF SignIn, NoToken, SessionInv, SessionTypeOK
<1>4. ASSUME NEW t \in Windows, Reload(t) \/ Notice(t) \/ Redirect(t) PROVE FALSE
  BY <1>1, <1>4 DEF Reload, Notice, Redirect
<1>5. ASSUME NEW t \in Windows, NEW c \in Calls, Ask(t, c) PROVE FALSE
  BY <1>1, <1>5 DEF Ask
<1>6. ASSUME NEW n \in valid, Expire(n) PROVE FALSE
  BY <1>1, <1>6 DEF Expire
<1>7. ASSUME NEW c \in Calls, Refuse(c) \/ Serve(c) \/ Lose(c) \/ Judge(c) PROVE FALSE
  BY <1>1, <1>7 DEF Refuse, Serve, Lose, Judge, Goes
<1>8. ASSUME NEW c \in Calls, SignedOut(c) PROVE FALSE
  BY <1>1, <1>8 DEF SignedOut
<1>9. PICK c \in Calls : End(c)
  BY <1>3, <1>4, <1>5, <1>6, <1>7, <1>8 DEF SessionNext
<1> QED BY <1>2, <1>9

\* A session the server accepts ends by a Logout or by the refusal of another
\* token's request, never by a failure of its own (isSessionRejected).
THEOREM EndsForAReason == SessionSpec => SessionsEndForAReason
BY SessionStart, SessionStep, StepHasReason, PTL DEF SessionSpec, SessionsEndForAReason

-----------------------------------------------------------------------------
(* The pages. What the last action of a page left is shown, or on its way, *)
(* unless an answer failed or was overtaken: the page asks again after a   *)
(* success, and the host only goes on from there.                          *)
\* An action of a page on its way, as the code keeps it.
OnItsWay ==
  [does : {"start", "stop", "restart", "nothing"}, at : {"sent"} \cup Host!Outcomes, version : Nat]

\* What a page shows is a state and an error, and no action has left the host
\* in a version that is still to come.
HostShape ==
  /\ Host!TypeOK
  /\ host \in [version : Nat, state : Host!States]
  /\ shown \in [version : Nat, state : Host!States, error : {"yes", "no"}]
  /\ actions \in Seq(OnItsWay)
  /\ \A i \in DOMAIN actions :
       /\ actions[i].version <= host.version
       /\ actions[i].at = "sent" => actions[i].does # "nothing"

\* What the last action left and the page does not show is on its way to it.
OwnIsComing ==
  (spoilt = "no" /\ Host!Trait.again # {} /\ done > shown.version)
    => \E answer \in answers : answer.version >= done

PageInv == HostShape /\ OwnIsComing

\* A page that asks again after some outcome does so after a success.
LEMMA AsksAfterSuccess ==
  ASSUME page \in Host!Kinds, Host!Trait.again # {} PROVE "ok" \in Host!Trait.again
BY DEF Host!Kinds, Host!Traits, Host!Trait, Host!ProcessBox, Host!SrsBox, Host!SrsClients,
       Host!MissionStatus, Host!TaskTables, Host!WeatherPresets, Host!PlayerLists,
       Host!Campaign, Host!Leaderboard, Host!AccessLogs, Host!Recordings, Host!LuaConsole,
       Host!Outcomes

\* The failures of the pages are those that Fail tells apart.
LEMMA FailuresKnown ==
  ASSUME page \in Host!Kinds
  PROVE  Host!Trait.failure \subseteq {"keeps", "stops", "tells", "sticks", "empties"}
BY DEF Host!Kinds, Host!Traits, Host!Trait, Host!ProcessBox, Host!SrsBox, Host!SrsClients,
       Host!MissionStatus, Host!TaskTables, Host!WeatherPresets, Host!PlayerLists,
       Host!Campaign, Host!Leaderboard, Host!AccessLogs, Host!Recordings, Host!LuaConsole

\* The elements of a sequence, over its domain.
LEMMA InSeq ==
  ASSUME NEW S, NEW s \in Seq(S)
  PROVE  /\ Len(s) \in Nat /\ DOMAIN s = 1..Len(s)
         /\ \A i \in DOMAIN s : s[i] \in S
BY ElementOfSeq, LenProperties

LEMMA InActions ==
  ASSUME NEW s \in Seq(OnItsWay), NEW i \in DOMAIN s
  PROVE  /\ s[i] \in OnItsWay /\ s[i].version \in Nat
         /\ s[i].at \in {"sent"} \cup Host!Outcomes
<1>1. s[i] \in OnItsWay
  BY InSeq
<1> QED BY <1>1 DEF OnItsWay

\* Actions that were settled are removed; the others stay as they are.
LEMMA RemovedStays ==
  ASSUME NEW S, NEW s \in Seq(S), NEW i \in DOMAIN s
  PROVE  /\ Host!RemoveAt(s, i) \in Seq(S)
         /\ \A j \in DOMAIN Host!RemoveAt(s, i) :
              \E k \in DOMAIN s : Host!RemoveAt(s, i)[j] = s[k]
<1> DEFINE front == SubSeq(s, 1, i - 1)
           back == SubSeq(s, i + 1, Len(s))
<1>1. i \in 1..Len(s) /\ Len(s) \in Nat /\ DOMAIN s = 1..Len(s) /\ \A k \in 1..Len(s) : s[k] \in S
  BY ElementOfSeq, LenProperties
<1>2. /\ front \in Seq(S) /\ Len(front) = i - 1
      /\ \A j \in 1..(i - 1) : front[j] = s[j]
  <2>1. \A k \in 1..(i - 1) : s[k] \in S
    BY <1>1
  <2> QED BY <1>1, <2>1, SubSeqProperties
<1>3. /\ back \in Seq(S) /\ Len(back) = Len(s) - i
      /\ \A j \in 1..(Len(s) - i) : back[j] = s[i + j]
  <2>1. i + 1 \in Int /\ Len(s) \in Int /\ \A k \in (i + 1)..Len(s) : s[k] \in S
    BY <1>1
  <2>2. /\ back \in Seq(S)
        /\ Len(back) = IF i + 1 <= Len(s) THEN Len(s) - (i + 1) + 1 ELSE 0
        /\ \A j \in 1..(Len(s) - (i + 1) + 1) : back[j] = s[(i + 1) + j - 1]
    BY <2>1, SubSeqProperties
  <2>3. /\ i + 1 <= Len(s) => Len(s) - (i + 1) + 1 = Len(s) - i
        /\ ~(i + 1 <= Len(s)) => Len(s) - i = 0
        /\ Len(s) - (i + 1) + 1 = Len(s) - i
        /\ \A j \in 1..(Len(s) - i) : (i + 1) + j - 1 = i + j
    BY <1>1
  <2> HIDE DEF back
  <2> QED BY <2>2, <2>3
<1> HIDE DEF front, back
<1>4. /\ front \o back \in Seq(S) /\ Len(front \o back) = Len(front) + Len(back)
      /\ \A j \in 1..(Len(front) + Len(back)) :
           (front \o back)[j] = IF j <= Len(front) THEN front[j] ELSE back[j - Len(front)]
  BY <1>2, <1>3, ConcatProperties
<1>5. ASSUME NEW j \in DOMAIN (front \o back)
      PROVE  \E k \in DOMAIN s : (front \o back)[j] = s[k]
  <2>1. j \in 1..(Len(s) - 1)
    BY <1>1, <1>2, <1>3, <1>4, LenProperties
  <2>2. CASE j <= i - 1
    BY <1>1, <1>2, <1>3, <1>4, <2>1, <2>2
  <2>3. CASE j > i - 1
    <3>1. j - (i - 1) \in 1..(Len(s) - i) /\ i + (j - (i - 1)) = j + 1 /\ j + 1 \in 1..Len(s)
      BY <1>1, <2>1, <2>3
    <3>2. (front \o back)[j] = back[j - (i - 1)]
      BY <1>1, <1>2, <1>3, <1>4, <2>1, <2>3
    <3> QED BY <1>1, <1>3, <3>1, <3>2
  <2> QED BY <1>1, <2>1, <2>2, <2>3
<1> QED BY <1>4, <1>5 DEF Host!RemoveAt, front, back

LEMMA PageStart == Host!Init => PageInv
<1> SUFFICES ASSUME Host!Init PROVE PageInv
  OBVIOUS
<1>1. /\ host \in [version : Nat, state : Host!States] /\ host.version = 1
      /\ host.state \in Host!States /\ answers = {host}
      /\ shown = [version |-> 0, state |-> "down", error |-> "no"]
      /\ actions = <<>> /\ done = 0 /\ spoilt = "no" /\ told = "no" /\ busy \in {"yes", "no"}
      /\ page \in Host!Kinds
  BY DEF Host!Init, Host!NothingShown
<1>2. HostShape
  BY <1>1, HostBound DEF HostShape, Host!TypeOK, Host!BoundAssumption, Host!States
<1> QED BY <1>1, <1>2 DEF PageInv, OwnIsComing

LEMMA PageStep == PageInv /\ [Host!Next]_hostVars => PageInv'
<1> SUFFICES ASSUME PageInv, [Host!Next]_hostVars PROVE PageInv'
  OBVIOUS
<1> USE HostBound DEF Host!BoundAssumption
<1>0. /\ Host!TypeOK /\ HostShape /\ host.version \in Nat /\ shown.version \in Nat /\ done \in Nat
      /\ \A answer \in answers : answer.version \in Nat
  BY DEF PageInv, HostShape, Host!TypeOK
<1>i. /\ actions \in Seq(OnItsWay) /\ Len(actions) \in Nat /\ DOMAIN actions = 1..Len(actions)
      /\ \A i \in DOMAIN actions :
           /\ actions[i] \in OnItsWay /\ actions[i].version \in Nat
           /\ actions[i].at \in {"sent"} \cup Host!Outcomes
  <2>1. actions \in Seq(OnItsWay)
    BY <1>0 DEF HostShape
  <2> QED BY <2>1, InSeq, InActions
<1>1. ASSUME NEW s \in Host!States, Host!HostChanges(s) PROVE PageInv'
  <2>1. /\ host'.version = host.version + 1 /\ host'.state = s
        /\ host' \in [version : Nat, state : Host!States] /\ host.version < MaxVersion
        /\ UNCHANGED <<page, shown, answers, actions, busy, told, done, spoilt>>
    BY <1>0, <1>1 DEF Host!HostChanges
  <2>2. host'.version \in 1..MaxVersion
    BY <1>0, <2>1 DEF Host!TypeOK
  <2>3. \A v : v \in 1..host.version => v \in 1..host'.version
    BY <1>0, <2>1
  <2>4. Host!TypeOK'
    BY <1>0, <2>1, <2>2, <2>3 DEF Host!TypeOK
  <2>5. \A i \in DOMAIN actions' : /\ actions'[i].version <= host'.version
                                   /\ actions'[i].at = "sent" => actions'[i].does # "nothing"
    <3>1. \A i \in DOMAIN actions : actions[i].version \in Nat
      BY <1>i
    <3> QED BY <1>0, <2>1, <3>1 DEF HostShape
  <2> QED BY <1>0, <2>1, <2>4, <2>5 DEF PageInv, HostShape, OwnIsComing, Host!Trait
<1>2. CASE Host!Ask
  <2>1. /\ answers' = answers \cup {host}
        /\ UNCHANGED <<page, host, shown, actions, busy, told, done, spoilt>>
    BY <1>2 DEF Host!Ask
  <2>2. host \in [version : 1..host.version, state : Host!States]
    BY <1>0 DEF HostShape, Host!TypeOK
  <2>3. Host!TypeOK'
    BY <1>0, <2>1, <2>2 DEF Host!TypeOK
  <2> QED BY <1>0, <2>1, <2>3 DEF PageInv, HostShape, OwnIsComing, Host!Trait
<1>3. ASSUME NEW answer \in answers, Host!Show(answer) PROVE PageInv'
  <2>1. /\ answer.version \in 1..host.version /\ answer.state \in Host!States
        /\ shown.error \in {"yes", "no"}
    BY <1>0 DEF HostShape, Host!TypeOK
  <2>2. /\ shown' \in [version : Nat, state : Host!States, error : {"yes", "no"}]
        /\ shown'.version = answer.version /\ shown'.state = answer.state
        /\ answers' = answers \ {answer} /\ busy' \in {"yes", "no"} /\ told' \in {"yes", "no"}
        /\ spoilt' = (IF answer.version < shown.version THEN "yes" ELSE spoilt)
        /\ UNCHANGED <<page, host, actions, done>>
    BY <1>0, <1>3, <2>1 DEF Host!Show, Host!FreedByAnswer, Host!TypeOK
  <2>3. Host!TypeOK'
    BY <1>0, <2>1, <2>2 DEF Host!TypeOK
  <2>4. HostShape'
    BY <1>0, <2>2, <2>3 DEF HostShape
  <2>5. OwnIsComing'
    <3> SUFFICES ASSUME spoilt' = "no", Host!Trait.again # {}, done > answer.version
                 PROVE  \E a \in answers' : a.version >= done
      BY <2>2 DEF OwnIsComing, Host!Trait
    <3>1. spoilt = "no" /\ answer.version >= shown.version /\ done > shown.version
      BY <1>0, <2>1, <2>2
    <3>2. PICK a \in answers : a.version >= done
      BY <3>1 DEF PageInv, OwnIsComing
    <3>3. a # answer
      BY <1>0, <2>1, <3>2
    <3> QED BY <2>2, <3>2, <3>3
  <2> QED BY <2>4, <2>5 DEF PageInv
<1>4. ASSUME NEW answer \in answers, Host!Fail(answer) PROVE PageInv'
  <2>1. PICK failure \in Host!Trait.failure :
          shown' = CASE failure = "keeps" -> shown
                     [] failure \in {"tells", "sticks"} -> [shown EXCEPT !.error = "yes"]
                     [] failure = "empties" -> [Host!NothingShown EXCEPT !.error = "yes"]
                     [] failure = "stops" -> Host!NothingShown
    BY <1>4 DEF Host!Fail
  <2>2. /\ shown' \in [version : Nat, state : Host!States, error : {"yes", "no"}]
        /\ shown'.version \in {0, shown.version}
    <3>1. failure \in {"keeps", "stops", "tells", "sticks", "empties"}
      BY <1>0, FailuresKnown DEF Host!TypeOK
    <3>2. shown \in [version : Nat, state : Host!States, error : {"yes", "no"}]
      BY <1>0 DEF HostShape
    <3>3. /\ Host!NothingShown \in [version : Nat, state : Host!States, error : {"yes", "no"}]
          /\ Host!NothingShown.version = 0
      BY DEF Host!NothingShown, Host!States
    <3>4. CASE failure = "keeps"
      BY <2>1, <3>2, <3>4
    <3>5. CASE failure \in {"tells", "sticks"}
      BY <2>1, <3>2, <3>5
    <3>6. CASE failure = "empties"
      BY <2>1, <3>3, <3>6
    <3>7. CASE failure = "stops"
      BY <2>1, <3>3, <3>7
    <3> QED BY <3>1, <3>4, <3>5, <3>6, <3>7
  <2>3. /\ spoilt' = "yes" /\ answers' = answers \ {answer}
        /\ busy' \in {"yes", "no"} /\ told' \in {"yes", "no"}
        /\ UNCHANGED <<page, host, actions, done>>
    BY <1>0, <1>4 DEF Host!Fail, Host!FreedByAnswer, Host!TypeOK
  <2>4. Host!TypeOK'
    BY <1>0, <2>2, <2>3 DEF Host!TypeOK
  <2> QED BY <1>0, <2>2, <2>3, <2>4 DEF PageInv, HostShape, OwnIsComing
<1>5. ASSUME NEW a \in {"start", "stop", "restart"}, Host!Click(a) PROVE PageInv'
  <2> DEFINE new == [does |-> a, at |-> "sent", version |-> 0]
  <2>1. /\ actions' = Append(actions, new)
        /\ busy' \in {"yes", "no"} /\ told' = "no"
        /\ UNCHANGED <<page, host, shown, answers, done, spoilt>>
    BY <1>0, <1>5 DEF Host!Click, Host!TypeOK
  <2>2. new \in OnItsWay /\ new.version = 0 /\ new.does # "nothing" /\ actions \in Seq(OnItsWay)
    BY <1>0 DEF OnItsWay, HostShape
  <2> HIDE DEF new
  <2>3. /\ actions' \in Seq(OnItsWay) /\ Len(actions') = Len(actions) + 1
        /\ \A i \in 1..Len(actions) : actions'[i] = actions[i]
        /\ actions'[Len(actions) + 1] = new
    BY <2>1, <2>2, AppendProperties
  <2>4. \A i \in DOMAIN actions' : i \in DOMAIN actions \/ i = Len(actions) + 1
    BY <2>3, InSeq, <1>i
  <2>5. \A i \in DOMAIN actions' : /\ actions'[i].version <= host'.version
                                   /\ actions'[i].at = "sent" => actions'[i].does # "nothing"
    BY <1>0, <2>1, <2>2, <2>3, <2>4 DEF HostShape
  <2>6. \A i \in DOMAIN actions' : actions'[i].at \in {"sent"} \cup Host!Outcomes
    BY <2>3, InActions
  <2>7. Host!TypeOK'
    BY <1>0, <2>1, <2>6 DEF Host!TypeOK
  <2> QED BY <1>0, <2>1, <2>3, <2>5, <2>7 DEF PageInv, HostShape, OwnIsComing, Host!Trait
<1>6. ASSUME NEW i \in DOMAIN actions, NEW outcome \in Host!Outcomes, NEW reaches \in BOOLEAN,
             Host!Perform(i, outcome, reaches)
      PROVE  PageInv'
  <2> DEFINE performed ==
        [does |-> "nothing", at |-> outcome,
         version |-> IF outcome = "ok" THEN host'.version ELSE 0]
  <2>1. actions \in Seq(OnItsWay) /\ actions[i] \in OnItsWay /\ actions[i].at = "sent"
    BY <1>i, <1>6 DEF Host!Perform
  <2>2. /\ host' \in [version : Nat, state : Host!States]
        /\ host'.version >= host.version /\ host'.version \in 1..MaxVersion
    <3>1. CASE reaches
      <4>1. Host!Effect(actions[i].does) \in Host!States
        <5>1. actions[i].does \in {"start", "stop", "restart"}
          BY <1>0, <1>i, <2>1 DEF HostShape, OnItsWay
        <5> QED BY <5>1 DEF Host!Effect, Host!States
      <4>2. host' = [version |-> host.version + 1, state |-> Host!Effect(actions[i].does)]
            /\ host.version < MaxVersion
        BY <1>6, <3>1 DEF Host!Perform
      <4>3. host.version + 1 \in 1..MaxVersion /\ host.version + 1 >= host.version
        BY <1>0, <4>2
      <4> QED BY <4>1, <4>2, <4>3
    <3>2. CASE ~reaches
      BY <1>0, <1>6, <3>2 DEF Host!Perform, Host!TypeOK, HostShape
    <3> QED BY <3>1, <3>2
  <2>3. /\ actions' = [actions EXCEPT ![i] = performed]
        /\ UNCHANGED <<page, shown, answers, busy, told, done, spoilt>>
    BY <1>6 DEF Host!Perform
  <2>4. /\ performed \in OnItsWay /\ performed.version <= host'.version
        /\ performed.at # "sent" /\ performed.at \in Host!Outcomes
    BY <1>0, <2>2 DEF OnItsWay, Host!Outcomes
  <2> HIDE DEF performed
  <2>5. /\ actions' \in Seq(OnItsWay) /\ DOMAIN actions' = DOMAIN actions
        /\ \A j \in DOMAIN actions : actions'[j] = IF j = i THEN performed ELSE actions[j]
    BY <2>1, <2>3, <2>4, ExceptSeq, LenProperties
  <2>6. \A j \in DOMAIN actions' : /\ actions'[j].version <= host'.version
                                   /\ actions'[j].at = "sent" => actions'[j].does # "nothing"
    <3> SUFFICES ASSUME NEW j \in DOMAIN actions
                 PROVE  /\ actions'[j].version <= host'.version
                        /\ actions'[j].at = "sent" => actions'[j].does # "nothing"
      BY <2>5
    <3>1. CASE j = i
      BY <2>4, <2>5, <3>1
    <3>2. CASE j # i
      <4>1. actions'[j] = actions[j] /\ actions[j].version \in Nat
            /\ actions[j].version <= host.version
        BY <1>0, <1>i, <2>5, <3>2 DEF HostShape
      <4> QED BY <1>0, <2>2, <4>1 DEF HostShape
    <3> QED BY <3>1, <3>2
  <2>7. \A j \in DOMAIN actions' : actions'[j].at \in {"sent"} \cup Host!Outcomes
    BY <2>5, InActions
  <2>8. \A v : v \in 1..host.version => v \in 1..host'.version
    BY <1>0, <2>2
  <2>9. Host!TypeOK'
    BY <1>0, <2>2, <2>3, <2>7, <2>8 DEF Host!TypeOK
  <2> QED BY <1>0, <2>2, <2>3, <2>5, <2>6, <2>9 DEF PageInv, HostShape, OwnIsComing, Host!Trait
<1>7. ASSUME NEW i \in DOMAIN actions, Host!Settle(i) PROVE PageInv'
  <2>1. actions \in Seq(OnItsWay) /\ actions[i] \in OnItsWay /\ actions[i].version <= host.version
    BY <1>0, <1>i DEF HostShape
  <2>2. /\ actions[i].at \in Host!Outcomes
        /\ actions' = Host!RemoveAt(actions, i)
        /\ answers' = (IF Host!AsksAgain(actions[i].at) THEN answers \cup {host} ELSE answers)
        /\ busy' \in {"yes", "no"} /\ told' \in {"yes", "no"}
        /\ done' = (IF actions[i].at = "ok" THEN actions[i].version ELSE done)
        /\ UNCHANGED <<page, host, shown, spoilt>>
    BY <1>0, <1>7, <2>1 DEF Host!Settle, Host!FreedBySettling, Host!TypeOK, OnItsWay
  <2>3. /\ actions' \in Seq(OnItsWay)
        /\ \A j \in DOMAIN actions' : \E k \in DOMAIN actions : actions'[j] = actions[k]
    BY <2>1, <2>2, RemovedStays
  <2>4. /\ host \in [version : 1..host.version, state : Host!States]
        /\ done' \in 0..host.version
    BY <1>0, <2>1, <2>2 DEF HostShape, Host!TypeOK, OnItsWay
  <2>5. \A j \in DOMAIN actions' : actions'[j].at \in {"sent"} \cup Host!Outcomes
    BY <1>i, <2>3
  <2>6. Host!TypeOK'
    BY <1>0, <2>2, <2>4, <2>5 DEF Host!TypeOK
  <2>7. \A j \in DOMAIN actions' : /\ actions'[j].version <= host'.version
                                   /\ actions'[j].at = "sent" => actions'[j].does # "nothing"
    BY <1>0, <2>2, <2>3 DEF HostShape
  <2>8. OwnIsComing'
    <3> SUFFICES ASSUME spoilt = "no", Host!Trait.again # {}, done' > shown.version
                 PROVE  \E answer \in answers' : answer.version >= done'
      BY <2>2 DEF OwnIsComing, Host!Trait
    <3>1. CASE actions[i].at = "ok"
      <4>1. Host!AsksAgain(actions[i].at)
        BY <1>0, <3>1, AsksAfterSuccess DEF Host!AsksAgain, Host!TypeOK
      <4> QED BY <2>1, <2>2, <3>1, <4>1, <1>0 DEF OnItsWay
    <3>2. CASE actions[i].at # "ok"
      BY <2>2, <3>2 DEF PageInv, OwnIsComing
    <3> QED BY <3>1, <3>2
  <2> QED BY <1>0, <2>2, <2>3, <2>6, <2>7, <2>8 DEF PageInv, HostShape
<1>8. CASE UNCHANGED hostVars
  BY <1>8 DEF hostVars, PageInv, HostShape, OwnIsComing, Host!TypeOK, Host!Trait
<1> QED BY <1>1, <1>2, <1>3, <1>4, <1>5, <1>6, <1>7, <1>8 DEF Host!Next
-----------------------------------------------------------------------------
(* The feed. An answer continues what a page lists, or is the log of a new *)
(* mission; and a page that is alone has everything behind its cursor, since *)
(* no log grows that it has not installed itself.                          *)
PageOfFeed ==
  [at : {"idle", "probe", "install", "answer"}, attempt : 1..2, cursor : Nat,
   items : Seq(Feed!Message), reply : Feed!Reply]

\* A log of messages: the last ones shown in a mission, under consecutive ids.
IsLog(seq, next, m) ==
  /\ seq \in Seq(Feed!Message) /\ next \in Nat \ {0} /\ m \in Nat
  /\ Len(seq) < next
  /\ \A i \in DOMAIN seq : seq[i].mission = m /\ seq[i].id + Len(seq) + 1 = next + i

\* The log is that of the running mission, and requests are of open pages.
LogInv ==
  /\ Feed!TypeOK
  /\ IsLog(buffer, nextId, mission)
  /\ module = "absent" => buffer = <<>> /\ nextId = 1
  /\ \A p \in Feeds : feed[p].at # "idle" => p \in open

InOrder(seq) == \A i, j \in DOMAIN seq : i < j => Feed!Earlier(seq[i], seq[j])

\* What a page lists is in order, of no later mission, and behind its cursor.
Listed(w, m) ==
  /\ InOrder(w.items)
  /\ \A i \in DOMAIN w.items : w.items[i].mission <= m /\ w.items[i].id <= w.cursor

\* What is on its way to a page is in order and comes after what it lists; it
\* comes after the cursor, too, unless it is the log of a restarted mission.
OnTheWay(w, m) ==
  w.at = "answer" =>
    /\ InOrder(w.reply.messages)
    /\ \A j \in DOMAIN w.reply.messages :
         /\ w.reply.messages[j].mission <= m
         /\ w.reply.messages[j].id <= w.reply.last
         /\ w.reply.last >= w.cursor => w.reply.messages[j].id > w.cursor
         /\ \A i \in DOMAIN w.items : w.items[i].mission <= w.reply.messages[j].mission

\* Whatever is in the log of the installed module and not after the last id of
\* an answer is in the answer, or listed already.
Replies(w, mod, seq, next) ==
  /\ mod # "absent" => w.reply.last < next
  /\ \A i \in DOMAIN seq : seq[i].id <= w.reply.last =>
       \/ Feed!Contains(w.reply.messages, seq[i])
       \/ w.reply.last >= w.cursor /\ Feed!Contains(w.items, seq[i])

\* Whatever is not after the cursor is listed.
Behind(w, seq) ==
  \A i \in DOMAIN seq : seq[i].id <= w.cursor => Feed!Contains(w.items, seq[i])

\* ... and the cursor is not ahead of the log of the installed module.
Caught(w, mod, seq, next) == Behind(w, seq) /\ (mod # "absent" => w.cursor < next)

NotSkipped(p) ==
  Feed!Alone(p) => IF feed[p].at = "answer"
                   THEN Replies(feed[p], module, buffer, nextId)
                   ELSE Caught(feed[p], module, buffer, nextId)

FeedInv ==
  /\ LogInv
  /\ \A p \in Feeds : Listed(feed[p], mission) /\ OnTheWay(feed[p], mission) /\ NotSkipped(p)

\* The end of a log that M.since answers with: what is after the cursor.
LEMMA SinceIs ==
  ASSUME NEW seq, NEW next, NEW m, IsLog(seq, next, m), NEW cursor \in Nat,
         NEW from, from = IF cursor > next - 1 THEN 0 ELSE cursor
  PROVE  /\ Feed!Since(seq, next, cursor) \in Feed!Reply
         /\ Feed!Since(seq, next, cursor).last = next - 1
         /\ \E d \in 0..Len(seq) :
              /\ Len(Feed!Since(seq, next, cursor).messages) = Len(seq) - d
              /\ \A j \in 1..(Len(seq) - d) :
                   Feed!Since(seq, next, cursor).messages[j] = seq[d + j]
              /\ \A i \in DOMAIN seq : seq[i].id > from <=> i > d
<1> DEFINE base == next - 1 - Len(seq)
           k == Feed!First(seq, from)
           Splits(h) == \A i \in DOMAIN seq : Feed!IsAfter(seq[i], from) <=> i >= h
<1>1. /\ Len(seq) \in Nat /\ DOMAIN seq = 1..Len(seq) /\ next \in Nat /\ from \in Nat
      /\ \A i \in DOMAIN seq : seq[i] \in Feed!Message /\ seq[i].id \in Nat
    <2>1. seq \in Seq(Feed!Message) /\ next \in Nat \ {0}
      BY DEF IsLog
    <2>2. Len(seq) \in Nat /\ DOMAIN seq = 1..Len(seq) /\ \A i \in DOMAIN seq : seq[i] \in Feed!Message
      BY <2>1, InSeq
    <2> QED BY <2>1, <2>2 DEF Feed!Message
<1>2. base \in Nat /\ \A i \in DOMAIN seq : seq[i].id = base + i
  <2>1. Len(seq) < next
    BY DEF IsLog
  <2>2. ASSUME NEW i \in DOMAIN seq PROVE seq[i].id = base + i
    <3>1. seq[i].id + Len(seq) + 1 = next + i
      BY DEF IsLog
    <3>2. seq[i].id \in Nat /\ i \in Nat
      BY <1>1
    <3> QED BY ONLY <1>1, <2>1, <3>1, <3>2 DEF base
  <2> QED BY <1>1, <2>1, <2>2
<1>3. \E h \in 1..(Len(seq) + 1) : Splits(h)
  <2>1. CASE from <= base
    <3>1. Splits(1)
      BY <1>1, <1>2, <2>1 DEF Feed!IsAfter
    <3> HIDE DEF Splits
    <3> QED BY <1>1, <3>1
  <2>2. CASE from > base /\ from - base <= Len(seq)
    <3>1. Splits(from - base + 1) /\ from - base + 1 \in 1..(Len(seq) + 1)
      BY <1>1, <1>2, <2>2 DEF Feed!IsAfter
    <3> HIDE DEF Splits
    <3> QED BY <3>1
  <2>3. CASE from - base > Len(seq)
    <3>1. Splits(Len(seq) + 1)
      BY <1>1, <1>2, <2>3 DEF Feed!IsAfter
    <3> HIDE DEF Splits
    <3> QED BY <1>1, <3>1
  <2> QED BY <1>1, <1>2, <2>1, <2>2, <2>3
<1>4. k \in 1..(Len(seq) + 1) /\ Splits(k)
  <2>1. k = CHOOSE h \in 1..(Len(seq) + 1) : Splits(h)
    BY DEF Feed!First
  <2> HIDE DEF Splits, k
  <2> QED BY <1>3, <2>1
<1>5. Feed!Since(seq, next, cursor) = [messages |-> SubSeq(seq, k, Len(seq)), last |-> next - 1]
  BY DEF Feed!Since
<1> HIDE DEF k
<1>6. /\ SubSeq(seq, k, Len(seq)) \in Seq(Feed!Message)
      /\ Len(SubSeq(seq, k, Len(seq))) = IF k <= Len(seq) THEN Len(seq) - k + 1 ELSE 0
      /\ \A j \in 1..(Len(seq) - k + 1) : SubSeq(seq, k, Len(seq))[j] = seq[k + j - 1]
  <2>1. k \in Int /\ Len(seq) \in Int /\ \A i \in k..Len(seq) : seq[i] \in Feed!Message
    BY <1>1, <1>4
  <2> QED BY <2>1, SubSeqProperties
<1> DEFINE d == k - 1
           sub == SubSeq(seq, k, Len(seq))
<1>7. /\ d \in 0..Len(seq) /\ Len(sub) = Len(seq) - d
      /\ \A j \in 1..(Len(seq) - d) : k + j - 1 = d + j /\ j \in 1..(Len(seq) - k + 1)
  BY <1>1, <1>4, <1>6
<1>8. \A i \in DOMAIN seq : seq[i].id > from <=> i > d
  BY <1>1, <1>4 DEF Feed!IsAfter
<1>9. \A j \in 1..(Len(seq) - d) : sub[j] = seq[d + j]
  BY <1>6, <1>7
<1>10. Feed!Since(seq, next, cursor) \in Feed!Reply
  BY <1>1, <1>5, <1>6, <1>2 DEF Feed!Reply, IsLog
<1> DEFINE r == Feed!Since(seq, next, cursor)
<1>11. r.messages = sub /\ r.last = next - 1
  <2>1. r = [messages |-> sub, last |-> next - 1]
    BY <1>5
  <2> HIDE DEF r, sub
  <2> QED BY <2>1
<1> HIDE DEF d, sub, r
<1>12. \E e \in 0..Len(seq) :
         /\ Len(r.messages) = Len(seq) - e
         /\ \A j \in 1..(Len(seq) - e) : r.messages[j] = seq[e + j]
         /\ \A i \in DOMAIN seq : seq[i].id > from <=> i > e
  BY <1>7, <1>8, <1>9, <1>11
<1> QED BY <1>10, <1>11, <1>12 DEF r

LEMMA InLog ==
  ASSUME NEW seq, NEW next, NEW m, IsLog(seq, next, m), NEW i \in DOMAIN seq
  PROVE  /\ seq \in Seq(Feed!Message) /\ Len(seq) \in Nat /\ i \in 1..Len(seq)
         /\ DOMAIN seq = 1..Len(seq)
         /\ seq[i] \in Feed!Message /\ seq[i].id \in Nat \ {0} /\ seq[i].mission = m
         /\ seq[i].id < next /\ next \in Nat /\ m \in Nat
         /\ seq[i].id = next - 1 - Len(seq) + i
<1>1. /\ seq \in Seq(Feed!Message) /\ Len(seq) \in Nat /\ i \in 1..Len(seq)
      /\ DOMAIN seq = 1..Len(seq) /\ seq[i] \in Feed!Message
  BY InSeq DEF IsLog
<1>2. /\ seq[i].id \in Nat /\ seq[i].mission = m /\ next \in Nat /\ m \in Nat
      /\ Len(seq) < next /\ seq[i].id + Len(seq) + 1 = next + i
  BY <1>1 DEF IsLog, Feed!Message
<1>3. seq[i].id \in Nat \ {0} /\ seq[i].id < next /\ seq[i].id = next - 1 - Len(seq) + i
  <2> DEFINE id == seq[i].id
  <2> HIDE DEF id
  <2>1. id \in Nat /\ id + Len(seq) + 1 = next + i
    BY <1>2 DEF id
  <2>2. id \in Nat \ {0} /\ id < next /\ id = next - 1 - Len(seq) + i
    BY ONLY <1>1, <1>2, <2>1
  <2> QED BY <2>2 DEF id
<1> QED BY <1>1, <1>2, <1>3

LEMMA Joined ==
  ASSUME NEW S, NEW s \in Seq(S), NEW t \in Seq(S)
  PROVE  /\ s \o t \in Seq(S)
         /\ \A e : Feed!Contains(s, e) \/ Feed!Contains(t, e) => Feed!Contains(s \o t, e)
<1> DEFINE st == s \o t
<1>1. /\ st \in Seq(S) /\ Len(st) = Len(s) + Len(t) /\ Len(s) \in Nat /\ Len(t) \in Nat
      /\ \A i \in 1..(Len(s) + Len(t)) : st[i] = IF i <= Len(s) THEN s[i] ELSE t[i - Len(s)]
  BY ConcatProperties, LenProperties
<1> HIDE DEF st
<1>2. ASSUME NEW e, Feed!Contains(s, e) PROVE Feed!Contains(st, e)
  BY <1>1, <1>2 DEF Feed!Contains
<1>3. ASSUME NEW e, Feed!Contains(t, e) PROVE Feed!Contains(st, e)
  <2>1. PICK i \in 1..Len(t) : t[i] = e
    BY <1>3 DEF Feed!Contains
  <2>2. Len(s) + i \in 1..Len(st) /\ ~(Len(s) + i <= Len(s)) /\ (Len(s) + i) - Len(s) = i
    BY <1>1
  <2>3. st[Len(s) + i] = e
    BY <1>1, <2>1, <2>2
  <2> QED BY <2>2, <2>3 DEF Feed!Contains
<1> QED BY <1>1, <1>2, <1>3 DEF st

\* A log answers a page with what comes after what it lists.
LEMMA ReplyRight ==
  ASSUME NEW seq, NEW next, NEW m, IsLog(seq, next, m),
         NEW v \in PageOfFeed, Listed(v, m),
         NEW w, w.at = "answer", w.cursor = v.cursor, w.items = v.items,
         w.reply = Feed!Since(seq, next, v.cursor)
  PROVE  /\ w.reply \in Feed!Reply
         /\ Listed(w, m) /\ OnTheWay(w, m)
         /\ \A mod : Behind(v, seq) => Replies(w, mod, seq, next)
<1> DEFINE c == v.cursor
           r == Feed!Since(seq, next, c)
<1>1. c \in Nat /\ next \in Nat /\ v.items \in Seq(Feed!Message)
  BY DEF PageOfFeed, IsLog
<1>2. PICK from : from = IF c > next - 1 THEN 0 ELSE c
  OBVIOUS
<1>3. r \in Feed!Reply /\ r.last = next - 1
  BY <1>1, <1>2, SinceIs
<1>4. PICK d \in 0..Len(seq) : /\ Len(r.messages) = Len(seq) - d
                               /\ \A j \in 1..(Len(seq) - d) : r.messages[j] = seq[d + j]
                               /\ \A i \in DOMAIN seq : seq[i].id > from <=> i > d
  <2> HIDE DEF r, c
  <2>1. IsLog(seq, next, m) /\ c \in Nat /\ from = IF c > next - 1 THEN 0 ELSE c
    BY <1>1, <1>2
  <2>2. \E d \in 0..Len(seq) :
          /\ Len(Feed!Since(seq, next, c).messages) = Len(seq) - d
          /\ \A j \in 1..(Len(seq) - d) : Feed!Since(seq, next, c).messages[j] = seq[d + j]
          /\ \A i \in DOMAIN seq : seq[i].id > from <=> i > d
    BY ONLY <2>1, SinceIs
  <2>3. r = Feed!Since(seq, next, c)
    BY DEF r
  <2> QED BY ONLY <2>2, <2>3
<1> HIDE DEF r, c
<1>5. r.messages \in Seq(Feed!Message) /\ DOMAIN r.messages = 1..(Len(seq) - d)
  BY <1>3, <1>4, InSeq DEF Feed!Reply
<1>6. Len(seq) \in Nat /\ DOMAIN seq = 1..Len(seq) /\ d \in Nat
  <2>1. seq \in Seq(Feed!Message)
    BY DEF IsLog
  <2> QED BY <2>1, InSeq
<1>7. ASSUME NEW j \in DOMAIN r.messages
      PROVE  /\ d + j \in DOMAIN seq /\ r.messages[j] = seq[d + j]
             /\ seq[d + j].mission = m /\ seq[d + j].id < next /\ seq[d + j].id > from
             /\ seq[d + j].id \in Nat /\ seq[d + j].id = next - 1 - Len(seq) + (d + j)
  <2>1. d + j \in DOMAIN seq /\ d + j > d /\ j \in 1..(Len(seq) - d)
    BY <1>5, <1>6
  <2>2. r.messages[j] = seq[d + j] /\ seq[d + j].id > from
    BY <1>4, <2>1
  <2>3. /\ seq[d + j].mission = m /\ seq[d + j].id < next /\ seq[d + j].id \in Nat
        /\ seq[d + j].id = next - 1 - Len(seq) + (d + j)
    BY <2>1, InLog
  <2> QED BY ONLY <2>1, <2>2, <2>3
<1>8. InOrder(r.messages)
  <2> SUFFICES ASSUME NEW i \in DOMAIN r.messages, NEW j \in DOMAIN r.messages, i < j
               PROVE  Feed!Earlier(r.messages[i], r.messages[j])
    BY DEF InOrder
  <2>1. i \in Nat /\ j \in Nat
    BY <1>5
  <2>2. seq[d + i].id < seq[d + j].id
    <3>1. /\ seq[d + i].id = next - 1 - Len(seq) + (d + i)
          /\ seq[d + j].id = next - 1 - Len(seq) + (d + j)
      BY <1>7
    <3>2. next \in Nat /\ Len(seq) \in Nat /\ d \in Nat
      BY <1>6, <1>1, InLog DEF IsLog
    <3> QED BY ONLY <2>1, <3>1, <3>2, i < j
  <2> QED BY <1>7, <2>2 DEF Feed!Earlier
<1>9. ASSUME NEW j \in DOMAIN r.messages
      PROVE  /\ r.messages[j].mission <= m
             /\ r.messages[j].id <= r.last
             /\ r.last >= c => r.messages[j].id > c
             /\ \A i \in DOMAIN v.items : v.items[i].mission <= r.messages[j].mission
  <2>1. m \in Nat
    BY DEF IsLog
  <2>2. seq[d + j].id <= next - 1
    BY <1>1, <1>7
  <2>3. r.last >= c => from = c
    BY <1>1, <1>2, <1>3
  <2>4. \A i \in DOMAIN v.items : v.items[i].mission <= m
    BY DEF Listed
  <2> QED BY <1>3, <1>7, <2>1, <2>2, <2>3, <2>4
<1>10. OnTheWay(w, m) /\ Listed(w, m)
  BY <1>8, <1>9 DEF OnTheWay, Listed, r, c
<1>11. ASSUME NEW mod, Behind(v, seq) PROVE Replies(w, mod, seq, next)
  <2>1. r.last < next
    BY <1>1, <1>3
  <2>2. ASSUME NEW i \in DOMAIN seq
        PROVE  Feed!Contains(r.messages, seq[i]) \/ (r.last >= c /\ Feed!Contains(v.items, seq[i]))
    <3>1. seq[i].id \in Nat \ {0} /\ i \in Nat
      BY <1>6, InLog
    <3>2. CASE i > d
      <4>1. i - d \in 1..(Len(seq) - d) /\ d + (i - d) = i
        BY <1>6, <3>1, <3>2
      <4>2. r.messages[i - d] = seq[i]
        BY <1>4, <4>1
      <4> QED BY <1>4, <4>1, <4>2 DEF Feed!Contains
    <3>3. CASE ~(i > d)
      <4>1. ~(seq[i].id > from)
        BY <1>4, <3>3
      <4>2. from = c /\ c <= next - 1 /\ seq[i].id <= c
        BY <1>1, <1>2, <3>1, <4>1
      <4> QED BY <1>1, <1>3, <1>11, <4>2 DEF Behind, c
    <3> QED BY <3>2, <3>3
  <2> QED BY <2>1, <2>2 DEF Replies, r, c
<1> QED BY <1>3, <1>10, <1>11 DEF r, c

\* An answer that is received leaves the page in order, and caught up.
LEMMA ReceiveRight ==
  ASSUME NEW m, NEW v \in PageOfFeed, v.at = "answer", Listed(v, m), OnTheWay(v, m),
         m \in Nat, NEW w, w.at # "answer",
         NEW restarted \in BOOLEAN, restarted <=> v.reply.last < v.cursor,
         w.cursor = IF restarted /\ v.reply.messages = <<>> THEN 0 ELSE v.reply.last,
         w.items = (IF restarted THEN <<>> ELSE v.items) \o v.reply.messages
  PROVE  /\ w.items \in Seq(Feed!Message) /\ w.cursor \in Nat
         /\ Listed(w, m) /\ OnTheWay(w, m)
         /\ \A seq, next, n, mod : IsLog(seq, next, n) /\ Replies(v, mod, seq, next)
                                     => Caught(w, mod, seq, next)
<1> DEFINE old == IF restarted THEN <<>> ELSE v.items
           new == v.reply.messages
           last == v.reply.last
<1>1. /\ v.items \in Seq(Feed!Message) /\ new \in Seq(Feed!Message) /\ last \in Nat
      /\ v.cursor \in Nat /\ old \in Seq(Feed!Message) /\ w.items = old \o new
  BY DEF PageOfFeed, Feed!Reply
<1>2. w.cursor \in Nat /\ (new # <<>> => w.cursor = last) /\ (~restarted => w.cursor = last)
  BY <1>1
<1>3. /\ InOrder(old) /\ InOrder(new)
      /\ \A i \in DOMAIN old : /\ old[i] \in Feed!Message /\ ~restarted
                               /\ old[i].mission <= m /\ old[i].id <= v.cursor
      /\ \A j \in DOMAIN new : /\ new[j] \in Feed!Message
                               /\ new[j].mission <= m /\ new[j].id <= last
                               /\ ~restarted => new[j].id > v.cursor
      /\ \A i \in DOMAIN old, j \in DOMAIN new : old[i].mission <= new[j].mission
  <2>1. InOrder(v.items) /\ InOrder(new) /\ InOrder(<<>>)
    BY DEF Listed, OnTheWay, InOrder
  <2>2. InOrder(old)
    BY <2>1
  <2>3. ASSUME NEW i \in DOMAIN old
        PROVE  /\ ~restarted /\ i \in DOMAIN v.items /\ old[i] = v.items[i]
               /\ old[i] \in Feed!Message
               /\ old[i].mission <= m /\ old[i].id <= v.cursor
    <3>1. ~restarted
      OBVIOUS
    <3>2. v.items[i] \in Feed!Message
      BY <1>1, <3>1, InSeq
    <3> QED BY <3>1, <3>2 DEF Listed
  <2>4. ASSUME NEW j \in DOMAIN new
        PROVE  /\ new[j] \in Feed!Message /\ new[j].mission <= m /\ new[j].id <= last
               /\ ~restarted => new[j].id > v.cursor
               /\ \A i \in DOMAIN v.items : v.items[i].mission <= new[j].mission
    <3>1. new[j] \in Feed!Message
      BY <1>1, InSeq
    <3>2. ~restarted => last >= v.cursor
      BY <1>1
    <3> QED BY <3>1, <3>2 DEF OnTheWay
  <2> HIDE DEF old, new
  <2> QED BY <2>1, <2>2, <2>3, <2>4
<1> HIDE DEF old, new, last
<1>4. /\ old \o new \in Seq(Feed!Message) /\ Len(old) \in Nat /\ Len(new) \in Nat
      /\ DOMAIN old = 1..Len(old) /\ DOMAIN new = 1..Len(new)
      /\ DOMAIN (old \o new) = 1..(Len(old) + Len(new))
      /\ \A i \in 1..(Len(old) + Len(new)) :
           (old \o new)[i] = IF i <= Len(old) THEN old[i] ELSE new[i - Len(old)]
  BY <1>1, ConcatProperties, InSeq
<1> DEFINE all == old \o new
<1> HIDE DEF all
<1>5. ASSUME NEW i \in DOMAIN all
      PROVE  \/ i \in DOMAIN old /\ all[i] = old[i]
             \/ i - Len(old) \in DOMAIN new /\ i > Len(old) /\ all[i] = new[i - Len(old)]
  BY <1>4 DEF all
<1>6. InOrder(all)
  <2> SUFFICES ASSUME NEW i \in DOMAIN all, NEW j \in DOMAIN all, i < j
               PROVE  Feed!Earlier(all[i], all[j])
    BY DEF InOrder
  <2>0. i \in Nat /\ j \in Nat /\ Len(old) \in Nat
    BY <1>4 DEF all
  <2>1. CASE j \in DOMAIN old /\ all[j] = old[j]
    <3>1. i \in DOMAIN old /\ all[i] = old[i]
      BY <1>4, <1>5, <2>0, <2>1
    <3> QED BY <1>3, <2>1, <3>1 DEF InOrder
  <2>2. CASE j - Len(old) \in DOMAIN new /\ j > Len(old) /\ all[j] = new[j - Len(old)]
    <3>1. CASE i \in DOMAIN old /\ all[i] = old[i]
      <4>1. old[i].mission <= new[j - Len(old)].mission /\ ~restarted
        BY <1>3, <2>2, <3>1
      <4>2. old[i].id <= v.cursor /\ new[j - Len(old)].id > v.cursor
        BY <1>3, <2>2, <3>1, <4>1
      <4>3. /\ old[i].mission \in Nat /\ new[j - Len(old)].mission \in Nat
            /\ old[i].id \in Nat /\ new[j - Len(old)].id \in Nat
        BY <1>3, <2>2, <3>1 DEF Feed!Message
      <4> QED BY <1>1, <2>2, <3>1, <4>1, <4>2, <4>3 DEF Feed!Earlier
    <3>2. CASE i - Len(old) \in DOMAIN new /\ i > Len(old) /\ all[i] = new[i - Len(old)]
      <4>1. i - Len(old) < j - Len(old)
        BY <2>0
      <4> QED BY <1>3, <2>2, <3>2, <4>1 DEF InOrder
    <3> QED BY <1>5, <3>1, <3>2
  <2> QED BY <1>5, <2>1, <2>2
<1>7. ASSUME NEW i \in DOMAIN all PROVE all[i].mission <= m /\ all[i].id <= w.cursor
  <2>1. CASE i \in DOMAIN old /\ all[i] = old[i]
    <3>1. ~restarted /\ old[i].id <= v.cursor /\ old[i].id \in Nat /\ old[i].mission <= m
      BY <1>3, <2>1 DEF Feed!Message
    <3>2. v.cursor <= w.cursor
      BY <1>1, <1>2, <3>1 DEF last
    <3> QED BY <1>1, <1>2, <2>1, <3>1, <3>2
  <2>2. CASE i - Len(old) \in DOMAIN new /\ all[i] = new[i - Len(old)]
    <3>1. new # <<>>
      BY <1>4, <2>2
    <3> QED BY <1>2, <1>3, <2>2, <3>1
  <2> QED BY <1>5, <2>1, <2>2
<1>8. Listed(w, m) /\ OnTheWay(w, m)
  BY <1>1, <1>6, <1>7 DEF Listed, OnTheWay, all
<1>9. ASSUME NEW seq, NEW next, NEW n, NEW mod, IsLog(seq, next, n), Replies(v, mod, seq, next)
      PROVE  Caught(w, mod, seq, next)
  <2>1. next \in Nat \ {0} /\ (mod # "absent" => last < next)
    BY <1>9 DEF IsLog, Replies, last
  <2>2. w.cursor \in {0, last}
    BY DEF last
  <2>3. ASSUME NEW i \in DOMAIN seq, seq[i].id <= w.cursor
        PROVE  Feed!Contains(w.items, seq[i])
    <3>1. seq[i].id \in Nat \ {0}
      BY <1>9, InLog
    <3>2. w.cursor = last /\ seq[i].id <= last
      BY <2>2, <2>3, <3>1
    <3>3. Feed!Contains(new, seq[i]) \/ (last >= v.cursor /\ Feed!Contains(v.items, seq[i]))
      BY <1>9, <3>2 DEF Replies, new, last
    <3>4. last >= v.cursor => old = v.items
      BY <1>1 DEF old, last
    <3>5. \A e : Feed!Contains(old, e) \/ Feed!Contains(new, e) => Feed!Contains(old \o new, e)
      BY <1>1, Joined
    <3> QED BY <1>1, <3>3, <3>4, <3>5
  <2> QED BY <2>1, <2>2, <2>3 DEF Caught, Behind
<1> QED BY <1>1, <1>2, <1>4, <1>8, <1>9

\* One page changes, and it is open: the others are not alone.
LEMMA OnePage ==
  ASSUME FeedInv, NEW p \in open, \A q \in Feeds : q # p => feed'[q] = feed[q],
         mission' = mission, open' = open, lost \subseteq lost', LogInv',
         Listed(feed'[p], mission), OnTheWay(feed'[p], mission), NotSkipped(p)'
  PROVE  FeedInv'
<1>1. ASSUME NEW q \in Feeds PROVE Listed(feed'[q], mission') /\ OnTheWay(feed'[q], mission')
  BY DEF FeedInv
<1>2. ASSUME NEW q \in Feeds PROVE NotSkipped(q)'
  BY DEF NotSkipped, Feed!Alone
<1> QED BY <1>1, <1>2 DEF FeedInv

LEMMA PageType ==
  ASSUME FeedInv, NEW p \in Feeds
  PROVE  /\ feed \in [Feeds -> PageOfFeed] /\ feed[p] \in PageOfFeed
         /\ Listed(feed[p], mission) /\ OnTheWay(feed[p], mission) /\ NotSkipped(p)
         /\ feed[p].at # "idle" => p \in open
         /\ IsLog(buffer, nextId, mission) /\ mission \in Nat /\ Feed!TypeOK
BY DEF FeedInv, LogInv, Feed!TypeOK, PageOfFeed

\* The log may change, or not; one page is another one, of the right kind.
LEMMA TypeStep ==
  ASSUME FeedInv, NEW p \in open, NEW w \in PageOfFeed, feed' = [feed EXCEPT ![p] = w],
         mission' = mission, open' = open, lost' \in {lost, lost \cup {p}},
         module' \in {module, "current"}, IsLog(buffer', nextId', mission),
         Len(buffer') <= MaxBuffer, module' = "absent" => buffer' = <<>> /\ nextId' = 1
  PROVE  LogInv' /\ feed'[p] = w /\ \A q \in Feeds : q # p => feed'[q] = feed[q]
<1>1. /\ feed \in [Feeds -> PageOfFeed] /\ open \subseteq Feeds /\ lost \subseteq open
      /\ mission \in Nat /\ module \in {"absent", "outdated", "current"}
      /\ \A q \in Feeds : feed[q].at # "idle" => q \in open
  BY DEF FeedInv, LogInv, Feed!TypeOK, PageOfFeed
<1>2. feed' \in [Feeds -> PageOfFeed] /\ feed'[p] = w /\ \A q \in Feeds : q # p => feed'[q] = feed[q]
  BY <1>1
<1>3. buffer' \in Seq(Feed!Message) /\ nextId' \in Nat \ {0}
  BY DEF IsLog
<1>4. Feed!TypeOK'
  BY <1>1, <1>2, <1>3 DEF Feed!TypeOK, PageOfFeed
<1>5. \A q \in Feeds : feed'[q].at # "idle" => q \in open
  BY <1>1, <1>2
<1> QED BY <1>2, <1>4, <1>5 DEF LogInv

\* The module answers a page that asks it.
LEMMA AnswerKeeps ==
  ASSUME FeedInv, NEW p \in Feeds, feed[p].at \in {"probe", "install"},
         mission' = mission, open' = open, lost' = lost, module' = "current",
         buffer' \in {buffer, <<>>}, IsLog(buffer', nextId', mission), Len(buffer') <= MaxBuffer,
         Feed!Answered(p, Feed!Since(buffer', nextId', feed[p].cursor))
  PROVE  FeedInv'
<1> DEFINE r == Feed!Since(buffer', nextId', feed[p].cursor)
<1>1. /\ feed \in [Feeds -> PageOfFeed] /\ feed[p] \in PageOfFeed /\ p \in open
      /\ Listed(feed[p], mission) /\ NotSkipped(p)
  BY PageType
<1>2. feed' = [feed EXCEPT ![p].at = "answer", ![p].reply = r]
  BY DEF Feed!Answered
<1> HIDE DEF r
<1>3. PICK w : w = [feed[p] EXCEPT !.at = "answer", !.reply = r]
  OBVIOUS
<1>4. w.at = "answer" /\ w.cursor = feed[p].cursor /\ w.items = feed[p].items /\ w.reply = r
      /\ w.attempt = feed[p].attempt
  BY <1>1, <1>3 DEF PageOfFeed
<1>5. /\ r \in Feed!Reply /\ Listed(w, mission) /\ OnTheWay(w, mission)
      /\ \A mod : Behind(feed[p], buffer') => Replies(w, mod, buffer', nextId')
  <2>1. w.reply = Feed!Since(buffer', nextId', feed[p].cursor)
    BY <1>4 DEF r
  <2>2. IsLog(buffer', nextId', mission)
    OBVIOUS
  <2>3. feed[p] \in PageOfFeed /\ Listed(feed[p], mission)
    BY <1>1
  <2>4. w.at = "answer" /\ w.cursor = feed[p].cursor /\ w.items = feed[p].items
    BY <1>4
  <2>5. /\ w.reply \in Feed!Reply /\ Listed(w, mission) /\ OnTheWay(w, mission)
        /\ \A mod : Behind(feed[p], buffer') => Replies(w, mod, buffer', nextId')
    BY ONLY <2>1, <2>2, <2>3, <2>4, ReplyRight
  <2> QED BY <1>4, <2>5
<1>6. w \in PageOfFeed
  BY <1>1, <1>3, <1>5 DEF PageOfFeed
<1>7. feed' = [feed EXCEPT ![p] = w]
  BY <1>1, <1>2, <1>3
<1>8. LogInv' /\ feed'[p] = w /\ \A q \in Feeds : q # p => feed'[q] = feed[q]
  BY <1>1, <1>6, <1>7, TypeStep
<1>9. NotSkipped(p)'
  <2>1. Feed!Alone(p)' => Feed!Alone(p)
    BY DEF Feed!Alone
  <2>2. Feed!Alone(p) => Behind(feed[p], buffer)
    BY <1>1 DEF NotSkipped, Caught
  <2>3. Behind(feed[p], buffer) => Behind(feed[p], buffer')
    BY DEF Behind
  <2> QED BY <1>4, <1>5, <1>8, <2>1, <2>2, <2>3 DEF NotSkipped
<1> QED BY <1>1, <1>5, <1>8, <1>9, OnePage

LEMMA FeedStart == Feed!Init => FeedInv
<1> SUFFICES ASSUME Feed!Init PROVE FeedInv
  OBVIOUS
<1> USE DEF Feed!Init
<1>1. <<>> \in Seq(Feed!Message) /\ Len(<<>>) = 0 /\ DOMAIN <<>> = {}
  OBVIOUS
<1>2. \A p \in Feeds : feed[p] \in PageOfFeed /\ feed[p].at = "idle"
                       /\ feed[p].items = <<>> /\ feed[p].cursor = 0
  BY <1>1 DEF PageOfFeed, Feed!NoReply, Feed!Reply
<1>3. feed \in [Feeds -> PageOfFeed]
  BY <1>2
<1>4. Feed!TypeOK
  BY <1>1, <1>3, FeedBounds DEF Feed!TypeOK, PageOfFeed, Feed!BoundsAssumption
<1>5. LogInv
  BY <1>1, <1>2, <1>4 DEF LogInv, IsLog
<1>6. ASSUME NEW p \in Feeds
      PROVE  Listed(feed[p], mission) /\ OnTheWay(feed[p], mission) /\ NotSkipped(p)
  BY <1>1, <1>2 DEF Listed, OnTheWay, NotSkipped, InOrder, Caught, Behind
<1> QED BY <1>5, <1>6 DEF FeedInv

\* A log that a message is added to, and the first dropped from if need be.
LEMMA LogGrows ==
  ASSUME NEW seq, NEW next, NEW m, IsLog(seq, next, m), Len(seq) <= MaxBuffer,
         NEW x, x = [mission |-> m, id |-> next],
         NEW grown, grown = Feed!Trimmed(Append(seq, x))
  PROVE  /\ IsLog(grown, next + 1, m) /\ Len(grown) <= MaxBuffer
         /\ \A i \in DOMAIN grown :
              grown[i].id = next \/ \E k \in DOMAIN seq : grown[i] = seq[k]
<1> DEFINE app == Append(seq, x)
<1>1. /\ MaxBuffer \in Nat \ {0} /\ next \in Nat \ {0} /\ m \in Nat /\ x \in Feed!Message
      /\ x.id = next /\ x.mission = m /\ Len(seq) < next
      /\ seq \in Seq(Feed!Message) /\ Len(seq) \in Nat /\ DOMAIN seq = 1..Len(seq)
  <2>1. seq \in Seq(Feed!Message) /\ next \in Nat \ {0} /\ m \in Nat /\ Len(seq) < next
    BY DEF IsLog
  <2> QED BY <2>1, InSeq, FeedBounds DEF Feed!BoundsAssumption, Feed!Message
<1>2. /\ app \in Seq(Feed!Message) /\ app # <<>> /\ Len(app) = Len(seq) + 1
      /\ \A i \in 1..Len(seq) : app[i] = seq[i]
      /\ app[Len(seq) + 1] = x
  BY <1>1, AppendProperties
<1> HIDE DEF app
<1>3. ASSUME NEW i \in 1..(Len(seq) + 1)
      PROVE  /\ app[i].mission = m /\ app[i].id = next - 1 - Len(seq) + i
             /\ app[i].id = next \/ \E k \in DOMAIN seq : app[i] = seq[k]
  <2>1. CASE i \in 1..Len(seq)
    BY <1>1, <1>2, <2>1, InLog
  <2>2. CASE i = Len(seq) + 1
    BY <1>1, <1>2, <2>2
  <2> QED BY <1>1, <2>1, <2>2
<1>4. CASE Len(app) > MaxBuffer
  <2>1. grown = Tail(app) /\ Len(seq) = MaxBuffer
    BY <1>1, <1>2, <1>4 DEF Feed!Trimmed, app
  <2>2. /\ grown \in Seq(Feed!Message) /\ Len(grown) = Len(seq)
        /\ \A i \in 1..Len(grown) : grown[i] = app[i + 1]
    <3>1. /\ Tail(app) \in Seq(Feed!Message) /\ Len(Tail(app)) = Len(app) - 1
          /\ \A i \in 1..Len(Tail(app)) : Tail(app)[i] = app[i + 1]
      BY <1>2, HeadTailProperties
    <3>2. Len(app) - 1 = Len(seq)
      BY <1>1, <1>2
    <3> QED BY <2>1, <3>1, <3>2
  <2>3. DOMAIN grown = 1..Len(seq)
    BY <2>2, InSeq
  <2>4. ASSUME NEW i \in DOMAIN grown
        PROVE  /\ grown[i].mission = m /\ grown[i].id + Len(grown) + 1 = (next + 1) + i
               /\ grown[i].id = next \/ \E k \in DOMAIN seq : grown[i] = seq[k]
    <3>1. i + 1 \in 1..(Len(seq) + 1) /\ i \in Nat
      BY <1>1, <2>3
    <3>2. grown[i] = app[i + 1] /\ app[i + 1].id = next - 1 - Len(seq) + (i + 1)
      BY <1>3, <2>2, <2>3, <3>1
    <3>3. next - 1 - Len(seq) + (i + 1) + Len(seq) + 1 = (next + 1) + i
      BY <1>1, <3>1
    <3> QED BY <1>3, <2>2, <3>1, <3>2, <3>3
  <2> QED BY <1>1, <2>1, <2>2, <2>4 DEF IsLog
<1>5. CASE ~(Len(app) > MaxBuffer)
  <2>1. grown = app /\ Len(grown) <= MaxBuffer
    BY <1>1, <1>2, <1>5 DEF Feed!Trimmed, app
  <2>2. DOMAIN grown = 1..(Len(seq) + 1) /\ Len(grown) = Len(seq) + 1
    BY <1>2, <2>1, InSeq
  <2>3. ASSUME NEW i \in DOMAIN grown
        PROVE  grown[i].mission = m /\ grown[i].id + Len(grown) + 1 = (next + 1) + i
    <3>0. next \in Nat /\ Len(seq) \in Nat
      BY <1>1
    <3>1. i \in Nat /\ next - 1 - Len(seq) + i + (Len(seq) + 1) + 1 = (next + 1) + i
      BY ONLY <2>2, <3>0, i \in DOMAIN grown
    <3>2. app[i].mission = m /\ app[i].id = next - 1 - Len(seq) + i
      BY <1>3, <2>2
    <3>3. grown[i] = app[i] /\ Len(grown) = Len(seq) + 1
      BY ONLY <2>1, <2>2
    <3> QED BY ONLY <3>0, <3>1, <3>2, <3>3
  <2>4. IsLog(grown, next + 1, m)
    BY <1>1, <1>2, <2>1, <2>2, <2>3 DEF IsLog
  <2>5. ASSUME NEW i \in DOMAIN grown
        PROVE  grown[i].id = next \/ \E k \in DOMAIN seq : grown[i] = seq[k]
    BY ONLY <1>3, <2>1, <2>2, <2>5
  <2> QED BY ONLY <2>1, <2>4, <2>5
<1> QED BY <1>4, <1>5

LEMMA ShowKeeps == ASSUME FeedInv, Feed!Show PROVE FeedInv'
<1> DEFINE x == [mission |-> mission, id |-> nextId]
<1>1. /\ module # "absent" /\ buffer' = Feed!Trimmed(Append(buffer, x))
      /\ nextId' = nextId + 1 /\ UNCHANGED <<mission, module, feed, open, lost>>
  BY DEF Feed!Show
<1>2. /\ IsLog(buffer, nextId, mission) /\ Len(buffer) <= MaxBuffer /\ nextId \in Nat \ {0}
      /\ mission \in Nat
  BY DEF FeedInv, LogInv, Feed!TypeOK
<1>3. /\ IsLog(buffer', nextId', mission) /\ Len(buffer') <= MaxBuffer
      /\ \A i \in DOMAIN buffer' :
           buffer'[i].id = nextId \/ \E k \in DOMAIN buffer : buffer'[i] = buffer[k]
  <2>1. x = [mission |-> mission, id |-> nextId]
    OBVIOUS
  <2> HIDE DEF x
  <2> QED BY <1>1, <1>2, <2>1, LogGrows
<1>4. LogInv'
  <2>1. buffer' \in Seq(Feed!Message) /\ nextId' \in Nat \ {0}
    BY <1>3 DEF IsLog
  <2> QED BY <1>1, <1>3, <2>1 DEF FeedInv, LogInv, Feed!TypeOK
<1>5. ASSUME NEW p \in Feeds
      PROVE  Listed(feed[p], mission)' /\ OnTheWay(feed[p], mission)' /\ NotSkipped(p)'
  <2>1. feed[p] \in PageOfFeed /\ Listed(feed[p], mission) /\ OnTheWay(feed[p], mission)
    BY PageType
  <2>2. /\ feed[p].cursor \in Nat /\ feed[p].reply.last \in Nat
    BY <2>1 DEF PageOfFeed, Feed!Reply
  <2>3. Feed!Alone(p)' => Feed!Alone(p)
    BY <1>1 DEF Feed!Alone
  <2>4. Replies(feed[p], module, buffer, nextId) => Replies(feed[p], module, buffer', nextId')
    BY <1>1, <1>2, <1>3, <2>2 DEF Replies
  <2>5. Caught(feed[p], module, buffer, nextId) => Caught(feed[p], module, buffer', nextId')
    BY <1>1, <1>2, <1>3, <2>2 DEF Caught, Behind
  <2>6. NotSkipped(p)'
    BY <1>1, <2>3, <2>4, <2>5 DEF FeedInv, NotSkipped
  <2> QED BY <1>1, <2>1, <2>6
<1> QED BY <1>4, <1>5 DEF FeedInv

\* A page asks, or gives up: its cursor and what it lists stay.
LEMMA AskingKeeps ==
  ASSUME FeedInv, NEW p \in open, NEW at \in {"idle", "probe", "install"},
         NEW attempt \in {1, feed[p].attempt}, NEW r \in Feed!Reply,
         feed' = [feed EXCEPT ![p].at = at, ![p].attempt = attempt, ![p].reply = r],
         UNCHANGED <<mission, module, nextId, buffer, open>>,
         lost' = IF feed[p].at = "answer" THEN lost \cup {p} ELSE lost
  PROVE  FeedInv'
<1>1. /\ p \in Feeds /\ feed \in [Feeds -> PageOfFeed] /\ feed[p] \in PageOfFeed
      /\ Listed(feed[p], mission) /\ NotSkipped(p)
      /\ IsLog(buffer, nextId, mission) /\ Len(buffer) <= MaxBuffer
      /\ module = "absent" => buffer = <<>> /\ nextId = 1
  <2>1. p \in Feeds
    BY DEF FeedInv, LogInv, Feed!TypeOK
  <2> QED BY <2>1, PageType DEF FeedInv, LogInv, Feed!TypeOK
<1>2. PICK w : w = [feed[p] EXCEPT !.at = at, !.attempt = attempt, !.reply = r]
  OBVIOUS
<1>3. /\ w \in PageOfFeed /\ w.at = at /\ w.items = feed[p].items /\ w.cursor = feed[p].cursor
  <2>1. /\ DOMAIN w = DOMAIN feed[p] /\ w.at = at /\ w.attempt = attempt /\ w.reply = r
        /\ w.items = feed[p].items /\ w.cursor = feed[p].cursor
    BY <1>1, <1>2 DEF PageOfFeed
  <2>2. /\ at \in {"idle", "probe", "install", "answer"} /\ attempt \in 1..2
    BY <1>1 DEF PageOfFeed
  <2>3. w \in PageOfFeed
    BY <1>1, <1>2, <2>2 DEF PageOfFeed
  <2> QED BY <2>1, <2>3
<1>4. feed' = [feed EXCEPT ![p] = w]
  BY <1>1, <1>2
<1>5. LogInv' /\ feed'[p] = w /\ \A q \in Feeds : q # p => feed'[q] = feed[q]
  BY <1>1, <1>3, <1>4, TypeStep
<1>6. Listed(w, mission) /\ OnTheWay(w, mission)
  BY <1>1, <1>3 DEF Listed, OnTheWay
<1>7. NotSkipped(p)'
  <2>1. Feed!Alone(p)' => Feed!Alone(p) /\ feed[p].at # "answer"
    BY DEF Feed!Alone
  <2> QED BY <1>1, <1>3, <1>5, <2>1 DEF NotSkipped, Caught, Behind
<1> QED BY <1>5, <1>6, <1>7, OnePage

LEMMA ReceiveKeeps == ASSUME FeedInv, NEW p \in Feeds, Feed!Receive(p) PROVE FeedInv'
<1> DEFINE v == feed[p]
           was == v.reply.last < v.cursor
           cursor == IF was /\ v.reply.messages = <<>> THEN 0 ELSE v.reply.last
           again == was /\ cursor = 0 /\ v.attempt = 1
           items == (IF was THEN <<>> ELSE v.items) \o v.reply.messages
<1>1. /\ feed \in [Feeds -> PageOfFeed] /\ v \in PageOfFeed /\ v.at = "answer" /\ p \in open
      /\ Listed(v, mission) /\ OnTheWay(v, mission) /\ NotSkipped(p) /\ mission \in Nat
      /\ IsLog(buffer, nextId, mission) /\ Len(buffer) <= MaxBuffer
      /\ module = "absent" => buffer = <<>> /\ nextId = 1
  <2>1. v.at = "answer"
    BY DEF Feed!Receive
  <2> QED BY <2>1, PageType DEF FeedInv, LogInv, Feed!TypeOK
<1>2. PICK w : w = [at |-> IF again THEN "probe" ELSE "idle",
                    attempt |-> IF again THEN 2 ELSE 1,
                    cursor |-> cursor, items |-> items, reply |-> Feed!NoReply]
  OBVIOUS
<1>3. /\ feed' = [feed EXCEPT ![p] = w]
      /\ UNCHANGED <<mission, module, nextId, buffer, open, lost>>
  BY <1>2 DEF Feed!Receive
<1>4. /\ w.at \in {"idle", "probe"} /\ w.attempt \in 1..2 /\ w.cursor = cursor
      /\ w.items = items /\ w.reply = Feed!NoReply
  <2> HIDE DEF cursor, again, items
  <2> QED BY <1>2
<1>5. PICK restarted \in BOOLEAN : restarted <=> was
  OBVIOUS
<1>6. /\ w.items \in Seq(Feed!Message) /\ w.cursor \in Nat
      /\ Listed(w, mission) /\ OnTheWay(w, mission)
      /\ \A seq, next, n, mod : IsLog(seq, next, n) /\ Replies(v, mod, seq, next)
                                  => Caught(w, mod, seq, next)
  <2>1. /\ w.cursor = IF restarted /\ v.reply.messages = <<>> THEN 0 ELSE v.reply.last
        /\ w.items = (IF restarted THEN <<>> ELSE v.items) \o v.reply.messages
        /\ restarted <=> v.reply.last < v.cursor
        /\ w.at # "answer"
    BY <1>4, <1>5
  <2> HIDE DEF v, cursor, again, items, was
  <2> QED BY ONLY <1>1, <1>5, <2>1, ReceiveRight
<1>7. w \in PageOfFeed
  <2>1. Feed!NoReply \in Feed!Reply
    BY DEF Feed!NoReply, Feed!Reply
  <2> HIDE DEF cursor, items, again
  <2> QED BY <1>2, <1>4, <1>6, <2>1 DEF PageOfFeed
<1> HIDE DEF cursor, items, again, was
<1>8. LogInv' /\ feed'[p] = w /\ \A q \in Feeds : q # p => feed'[q] = feed[q]
  BY <1>1, <1>3, <1>7, TypeStep
<1>9. NotSkipped(p)'
  <2>1. Feed!Alone(p)' => Feed!Alone(p)
    BY <1>3 DEF Feed!Alone
  <2>2. Feed!Alone(p) => Caught(w, module, buffer, nextId)
    BY <1>1, <1>6 DEF NotSkipped
  <2> QED BY <1>3, <1>4, <1>8, <2>1, <2>2 DEF NotSkipped
<1> QED BY <1>1, <1>3, <1>6, <1>8, <1>9, OnePage

\* The mission or the dashboard is another one.
LEMMA RestartKeeps == ASSUME FeedInv, Feed!MissionRestart \/ Feed!DashboardUpgrade PROVE FeedInv'
<1>1. UNCHANGED <<feed, open, lost>>
  BY DEF Feed!MissionRestart, Feed!DashboardUpgrade
<1>2. CASE Feed!MissionRestart
  <2>1. mission' = mission + 1 /\ module' = "absent" /\ nextId' = 1 /\ buffer' = <<>>
    BY <1>2 DEF Feed!MissionRestart
  <2>2. mission \in Nat /\ mission' \in Nat
    BY <2>1 DEF FeedInv, LogInv, Feed!TypeOK
  <2>3. IsLog(buffer', nextId', mission')
    BY <2>1, <2>2 DEF IsLog
  <2>4. Feed!TypeOK'
    BY <1>1, <2>1, <2>2, FeedBounds DEF FeedInv, LogInv, Feed!TypeOK, Feed!BoundsAssumption
  <2>5. LogInv'
    BY <1>1, <2>1, <2>3, <2>4 DEF FeedInv, LogInv
  <2>6. ASSUME NEW p \in Feeds
        PROVE  Listed(feed[p], mission)' /\ OnTheWay(feed[p], mission)' /\ NotSkipped(p)'
    <3>1. feed[p] \in PageOfFeed /\ Listed(feed[p], mission) /\ OnTheWay(feed[p], mission)
      BY PageType
    <3>2. Listed(feed[p], mission')
      <4>1. ASSUME NEW i \in DOMAIN feed[p].items PROVE feed[p].items[i].mission <= mission'
        <5>1. feed[p].items[i] \in Feed!Message
          BY <3>1, InSeq DEF PageOfFeed
        <5>2. feed[p].items[i].mission \in Nat /\ feed[p].items[i].mission <= mission
          BY <3>1, <5>1 DEF Feed!Message, Listed
        <5> QED BY <2>1, <2>2, <5>2
      <4> QED BY <3>1, <4>1 DEF Listed
    <3>3. OnTheWay(feed[p], mission')
      <4>1. ASSUME feed[p].at = "answer", NEW j \in DOMAIN feed[p].reply.messages
            PROVE  feed[p].reply.messages[j].mission <= mission'
        <5>1. feed[p].reply.messages \in Seq(Feed!Message)
          BY <3>1 DEF PageOfFeed, Feed!Reply
        <5>2. feed[p].reply.messages[j] \in Feed!Message
          BY <5>1, InSeq
        <5>3. /\ feed[p].reply.messages[j].mission \in Nat
              /\ feed[p].reply.messages[j].mission <= mission
          BY <3>1, <4>1, <5>2 DEF Feed!Message, OnTheWay
        <5> QED BY <2>1, <2>2, <5>3
      <4> QED BY <3>1, <4>1 DEF OnTheWay
    <3>4. NotSkipped(p)'
      BY <2>1 DEF NotSkipped, Replies, Caught, Behind
    <3> QED BY <1>1, <3>2, <3>3, <3>4
  <2> QED BY <2>5, <2>6 DEF FeedInv
<1>3. CASE Feed!DashboardUpgrade
  <2>1. /\ module = "current" /\ module' = "outdated"
        /\ UNCHANGED <<mission, nextId, buffer, feed, open, lost>>
    BY <1>3 DEF Feed!DashboardUpgrade
  <2>2. LogInv'
    BY <2>1 DEF FeedInv, LogInv, Feed!TypeOK
  <2>3. ASSUME NEW p \in Feeds
        PROVE  Listed(feed[p], mission)' /\ OnTheWay(feed[p], mission)' /\ NotSkipped(p)'
    BY <2>1 DEF FeedInv, NotSkipped, Feed!Alone, Replies, Caught, Behind
  <2> QED BY <2>2, <2>3 DEF FeedInv
<1> QED BY <1>2, <1>3

LEMMA FeedStep == FeedInv /\ [Feed!Next]_feedVars => FeedInv'
<1> SUFFICES ASSUME FeedInv, [Feed!Next]_feedVars PROVE FeedInv'
  OBVIOUS
<1>1. CASE Feed!Show
  BY <1>1, ShowKeeps
<1>2. ASSUME NEW p \in Feeds, Feed!Poll(p) PROVE FeedInv'
  <2>1. /\ p \in open /\ feed[p].at = "idle" /\ lost' = lost
        /\ feed' = [feed EXCEPT ![p].at = "probe", ![p].attempt = 1]
        /\ UNCHANGED <<mission, module, nextId, buffer, open>>
    BY <1>2 DEF Feed!Poll
  <2>2. feed \in [Feeds -> PageOfFeed] /\ feed[p].reply \in Feed!Reply
    BY PageType DEF PageOfFeed
  <2>3. feed' = [feed EXCEPT ![p].at = "probe", ![p].attempt = 1, ![p].reply = feed[p].reply]
    BY <2>1, <2>2 DEF PageOfFeed
  <2> QED BY <2>1, <2>2, <2>3, AskingKeeps
<1>3. ASSUME NEW p \in Feeds, Feed!Probe(p) PROVE FeedInv'
  <2>1. /\ feed[p].at = "probe" /\ UNCHANGED <<mission, module, nextId, buffer, open, lost>>
        /\ Len(buffer) <= MaxBuffer
    BY <1>3 DEF Feed!Probe, FeedInv, LogInv, Feed!TypeOK
  <2>2. feed \in [Feeds -> PageOfFeed] /\ feed[p] \in PageOfFeed /\ p \in open
    BY <2>1, PageType
  <2>3. CASE module = "current"
    <3>1. Feed!Answered(p, Feed!Since(buffer', nextId', feed[p].cursor))
      BY <1>3, <2>1, <2>3 DEF Feed!Probe
    <3>2. IsLog(buffer', nextId', mission)
      BY <2>1, PageType
    <3> QED BY <2>1, <2>3, <3>1, <3>2, AnswerKeeps
  <2>4. CASE module # "current"
    <3>1. feed' = [feed EXCEPT ![p].at = "install"]
      BY <1>3, <2>4 DEF Feed!Probe
    <3>2. feed' = [feed EXCEPT ![p].at = "install", ![p].attempt = feed[p].attempt,
                               ![p].reply = feed[p].reply]
      BY <2>2, <3>1 DEF PageOfFeed
    <3>3. feed[p].reply \in Feed!Reply
      BY <2>2 DEF PageOfFeed
    <3> QED BY <2>1, <2>2, <3>2, <3>3, AskingKeeps
  <2> QED BY <2>3, <2>4
<1>4. ASSUME NEW p \in Feeds, Feed!Install(p) PROVE FeedInv'
  <2>1. /\ feed[p].at = "install" /\ module' = "current"
        /\ buffer' = (IF module = "absent" THEN <<>> ELSE buffer)
        /\ nextId' = (IF module = "absent" THEN 1 ELSE nextId)
        /\ Feed!Answered(p, Feed!Since(buffer', nextId', feed[p].cursor))
        /\ UNCHANGED <<mission, open, lost>>
    BY <1>4 DEF Feed!Install
  <2>2. /\ IsLog(buffer, nextId, mission) /\ Len(buffer) <= MaxBuffer
        /\ module = "absent" => buffer = <<>> /\ nextId = 1
    BY DEF FeedInv, LogInv, Feed!TypeOK
  <2>3. buffer' = buffer /\ nextId' = nextId
    BY <2>1, <2>2
  <2>4. IsLog(buffer', nextId', mission) /\ Len(buffer') <= MaxBuffer
    BY <2>2, <2>3
  <2> QED BY <2>1, <2>3, <2>4, AnswerKeeps
<1>5. ASSUME NEW p \in Feeds, Feed!Receive(p) PROVE FeedInv'
  BY <1>5, ReceiveKeeps
<1>6. ASSUME NEW p \in Feeds, Feed!Fail(p) PROVE FeedInv'
  <2>1. /\ feed[p].at # "idle"
        /\ lost' = IF feed[p].at = "answer" THEN lost \cup {p} ELSE lost
        /\ feed' = [feed EXCEPT ![p].at = "idle", ![p].attempt = 1, ![p].reply = Feed!NoReply]
        /\ UNCHANGED <<mission, module, nextId, buffer, open>>
    BY <1>6 DEF Feed!Fail
  <2>2. p \in open /\ Feed!NoReply \in Feed!Reply
    BY <2>1, PageType DEF Feed!NoReply, Feed!Reply
  <2> QED BY <2>1, <2>2, AskingKeeps
<1>7. CASE Feed!MissionRestart \/ Feed!DashboardUpgrade
  BY <1>7, RestartKeeps
<1>8. CASE UNCHANGED feedVars
  BY <1>8 DEF feedVars, FeedInv, LogInv, Feed!TypeOK, NotSkipped, Feed!Alone
<1> QED BY <1>1, <1>2, <1>3, <1>4, <1>5, <1>6, <1>7, <1>8 DEF Feed!Next

\* What the two properties of the feed ask for is part of the invariant.
LEMMA FeedShows == FeedInv => Feed!ShownInOrder /\ Feed!AloneNothingSkipped /\ Feed!TypeOK
<1> SUFFICES ASSUME FeedInv PROVE Feed!ShownInOrder /\ Feed!AloneNothingSkipped /\ Feed!TypeOK
  OBVIOUS
<1>1. Feed!ShownInOrder
  BY DEF FeedInv, Listed, InOrder, Feed!ShownInOrder
<1>2. Feed!AloneNothingSkipped
  BY DEF FeedInv, NotSkipped, Caught, Behind, Feed!AloneNothingSkipped, Feed!Complete
<1> QED BY <1>1, <1>2 DEF FeedInv, LogInv

-----------------------------------------------------------------------------
(* All of them                                                             *)

\* A behaviour of the instance is one of each of its modules.
LEMMA EachFollows ==
  MCSpec => /\ ProcessSpec /\ SessionSpec
            /\ Host!Init /\ [][Host!Next]_hostVars
            /\ Feed!Init /\ [][Feed!Next]_feedVars
<1>1. MCInit => ProcessInit /\ SessionInit /\ Host!Init /\ Feed!Init
  BY DEF MCInit
<1>2. [MCNext]_<<focus, processVars, sessionVars, hostVars, feedVars>>
        => /\ [ProcessNext]_processVars /\ [SessionNext]_sessionVars
           /\ [Host!Next]_hostVars /\ [Feed!Next]_feedVars
  BY DEF MCNext
<1> QED BY <1>1, <1>2, PTL DEF MCSpec, ProcessSpec, SessionSpec

\* Once the answers of a page are in, it shows the host as its last successful
\* action left it or as it was later, unless an answer failed or was overtaken:
\* for any number of actions, answers and changes of the host (onAction).
THEOREM OwnActionsShown == MCSpec => []OwnActionsAreShown
<1>1. PageInv => OwnActionsAreShown
  <2> SUFFICES ASSUME PageInv, answers = {}, spoilt = "no", done > 0, Host!Trait.again # {}
               PROVE  shown.version >= done
    BY DEF OwnActionsAreShown, Host!OwnActionsAreShown
  <2>1. ~(done > shown.version)
    BY DEF PageInv, OwnIsComing
  <2>2. done \in Nat /\ shown.version \in Nat
    BY DEF PageInv, HostShape, Host!TypeOK
  <2> QED BY <2>1, <2>2
<1> QED BY <1>1, EachFollows, PageStart, PageStep, PTL

\* A page of the feed lists messages in the order they were shown and none
\* twice, and one that is alone skips none, for any number of pages, missions
\* and messages, any size of the log, and installs, upgrades, restarts and
\* failures at any moment (M.since, eval_installable, useCursorFeed).
THEOREM FeedFaithful == MCSpec => []FeedIsFaithful
<1>1. FeedInv => FeedIsFaithful
  BY FeedShows DEF FeedIsFaithful
<1> QED BY <1>1, EachFollows, FeedStart, FeedStep, PTL

\* The types of all the variables, for any sets and bounds.
THEOREM HostTypeCorrect == MCSpec => []HostTypeOK
<1>1. PageInv => Host!TypeOK
  BY DEF PageInv, HostShape
<1>2. FeedInv => Feed!TypeOK
  BY FeedShows
<1>3. ProcessTypeOK /\ SessionTypeOK /\ Host!TypeOK /\ Feed!TypeOK => HostTypeOK
  BY DEF HostTypeOK
<1> QED BY <1>1, <1>2, <1>3, EachFollows, TypeCorrect, SessionTypeCorrect,
           PageStart, PageStep, FeedStart, FeedStep, PTL
===============================================================================
