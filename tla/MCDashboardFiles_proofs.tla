------------------------ MODULE MCDashboardFiles_proofs ------------------------
(***************************************************************************)
(* What is proved of the files in MCDashboardFiles beside the settings     *)
(* file, for any set of requests.                                          *)
(***************************************************************************)
EXTENDS MCDashboardFiles, ServerSettings_proofs,
        WellFoundedInduction, FiniteSetTheorems, NaturalsInduction

filesVars == <<focus, vars, loginVars, weatherVars, campaignVars, serverVars>>

-----------------------------------------------------------------------------
(* The audit log. Entries are numbered by time, so a log is newest first   *)
(* when it descends. With logins recorded one at a time the one that is    *)
(* being recorded is the newest of all, what it is about to write is the   *)
(* log of now with its entry in front, and the file is blank while it is   *)
(* filled; and whatever interleaves, an entry that is not in the log yet   *)
(* is in no list that is about to be written.                              *)

Entries == {logs \in Seq(Nat) : Len(logs) <= MaxLogs}
LoginJob == [at : {"idle", "discord", "entry", "writing", "filling", "verdict"},
             entry : Nat, status : {"none", "SUCCESS", "REJECTED"}, logs : Entries]

LogShape ==
  /\ log \in {Audit!Blank, Audit!Torn} \cup {Audit!Whole(logs) : logs \in Entries}
  /\ login \in [Logins -> LoginJob]
  /\ clock \in Nat /\ turns \in {"taken", "mixed up"}

OnceEach(logs) == \A i, j \in DOMAIN logs : i # j => logs[i] # logs[j]
Descends(logs) == \A i, j \in DOMAIN logs : i < j => logs[i] > logs[j]
NoneOf(entry, logs) == \A i \in DOMAIN logs : logs[i] # entry
Before(logs, entry) == \A i \in DOMAIN logs : logs[i] < entry
UpTo(logs, time) == \A i \in DOMAIN logs : logs[i] <= time

Sound(logs) == OnceEach(logs) /\ UpTo(logs, clock)
Fresh(r) ==
  /\ login[r].entry <= clock /\ NoneOf(login[r].entry, Audit!Parsed)
  /\ \A s \in Logins : NoneOf(login[r].entry, login[s].logs)
  /\ \A s \in Logins \ {r} : login[s].at = "entry" => login[s].entry # login[r].entry
EntriesOnceEach ==
  /\ Sound(Audit!Parsed) /\ \A r \in Logins : Sound(login[r].logs)
  /\ \A r \in Logins : login[r].at = "entry" => Fresh(r)

Newest(r) ==
  /\ login[r].at \in {"entry", "writing"} => Before(Audit!Parsed, login[r].entry)
  /\ login[r].at = "writing" => login[r].logs = Audit!Inserted(Audit!Parsed, login[r].entry)
  /\ login[r].at = "filling" => log = Audit!Blank /\ Descends(login[r].logs)
InTurn ==
  /\ \A r, s \in Logins : Audit!Recording(r) /\ Audit!Recording(s) => r = s
  /\ Descends(Audit!Parsed) /\ \A r \in Logins : Newest(r)

LogInv == LogShape /\ EntriesOnceEach /\ (turns = "taken" => InTurn)

LEMMA Prefix ==
  ASSUME NEW S, NEW s \in Seq(S), NEW n \in 0..Len(s)
  PROVE  /\ SubSeq(s, 1, n) \in Seq(S) /\ Len(SubSeq(s, 1, n)) = n
         /\ \A i \in 1..n : SubSeq(s, 1, n)[i] = s[i]
<1>1. Len(s) \in Nat /\ DOMAIN s = 1..Len(s) /\ n \in Int /\ 1 \in Int
  BY LenProperties
<1>2. \A i \in 1..n : s[i] \in S
  BY <1>1, ElementOfSeq
<1> DEFINE front == SubSeq(s, 1, n)
<1>3. /\ front \in Seq(S) /\ Len(front) = IF 1 <= n THEN n - 1 + 1 ELSE 0
      /\ \A i \in 1..(n - 1 + 1) : front[i] = s[1 + i - 1]
  BY ONLY <1>1, <1>2, SubSeqProperties
<1> HIDE DEF front
<1>4. Len(front) = n
  BY <1>1, <1>3
<1>5. ASSUME NEW i \in 1..n PROVE front[i] = s[i]
  <2>1. i \in 1..(n - 1 + 1) /\ 1 + i - 1 = i
    BY <1>1
  <2> QED BY <1>3, <2>1
<1> QED BY <1>3, <1>4, <1>5 DEF front

LEMMA LogFiles ==
  /\ \A text : Audit!Whole(text).is = "whole" /\ Audit!Whole(text).text = text
  /\ Audit!Blank.is = "blank" /\ Audit!Torn.is = "torn" /\ Audit!Blank # Audit!Torn
BY DEF Audit!Whole, Audit!Blank, Audit!Torn

LEMMA ParsedEntries == ASSUME LogShape PROVE Audit!Parsed \in Entries
<1>1. MaxLogs \in Nat /\ <<>> \in Entries
  BY LogBounds DEF Audit!LimitAssumption, Entries
<1>2. CASE log \in {Audit!Blank, Audit!Torn}
  BY <1>1, <1>2, LogFiles DEF Audit!Parsed, Audit!IsWhole
<1>3. CASE log \in {Audit!Whole(logs) : logs \in Entries}
  BY <1>3, LogFiles DEF Audit!Parsed, Audit!IsWhole
<1> QED BY <1>2, <1>3 DEF LogShape

\* append_audit puts the entry in front and cuts the oldest ones off.
LEMMA InsertedEntries ==
  ASSUME NEW logs \in Entries, NEW entry \in Nat
  PROVE  LET new == Audit!Inserted(logs, entry)
             kept == IF Len(logs) < MaxLogs THEN Len(logs) ELSE MaxLogs - 1
         IN /\ new \in Entries /\ Len(new) = kept + 1 /\ kept \in Nat /\ kept <= Len(logs)
            /\ new[1] = entry /\ \A i \in 1..kept : new[i + 1] = logs[i]
            /\ DOMAIN new = 1..(kept + 1) /\ DOMAIN logs = 1..Len(logs)
            /\ \A i \in DOMAIN new : i # 1 => i - 1 \in DOMAIN logs /\ new[i] = logs[i - 1]
<1> DEFINE kept == IF Len(logs) < MaxLogs THEN Len(logs) ELSE MaxLogs - 1
           long == <<entry>> \o logs
           new == Audit!Inserted(logs, entry)
<1>1. MaxLogs \in Nat /\ MaxLogs >= 1 /\ Len(logs) \in Nat /\ Len(logs) <= MaxLogs
      /\ logs \in Seq(Nat) /\ DOMAIN logs = 1..Len(logs)
  BY LogBounds, LenProperties DEF Audit!LimitAssumption, Entries
<1>2. <<entry>> \in Seq(Nat) /\ Len(<<entry>>) = 1 /\ <<entry>>[1] = entry
  OBVIOUS
<1>3. /\ long \in Seq(Nat) /\ Len(long) = Len(logs) + 1 /\ DOMAIN long = 1..(Len(logs) + 1)
      /\ long[1] = entry /\ \A i \in 1..Len(logs) : long[i + 1] = logs[i]
  <2>1. long \in Seq(Nat) /\ Len(long) = Len(logs) + 1
    BY <1>1, <1>2, ConcatProperties
  <2>2. long[1] = entry
    BY <1>1, <1>2, <2>1, ConcatProperties
  <2>3. \A i \in 1..Len(logs) : long[i + 1] = logs[i]
    <3> TAKE i \in 1..Len(logs)
    <3>1. i + 1 \in 1..(Len(<<entry>>) + Len(logs)) /\ i + 1 > Len(<<entry>>)
      BY <1>1, <1>2
    <3>2. long[i + 1] = logs[i + 1 - Len(<<entry>>)]
      BY <1>1, <1>2, <3>1, ConcatProperties
    <3> QED BY <1>1, <1>2, <3>2
  <2>4. DOMAIN long = 1..(Len(logs) + 1)
    BY <2>1, LenProperties
  <2> QED BY <2>1, <2>2, <2>3, <2>4
<1>4. kept \in Nat /\ kept <= Len(logs) /\ kept + 1 <= MaxLogs
  BY <1>1
<1>5. ASSUME Len(logs) < MaxLogs
      PROVE  /\ new \in Seq(Nat) /\ Len(new) = kept + 1 /\ kept \in Nat /\ new[1] = entry
             /\ \A i \in 1..kept : new[i + 1] = logs[i]
  <2>1. new = long /\ kept = Len(logs)
    BY <1>1, <1>3, <1>5 DEF Audit!Inserted, Audit!Capped
  <2>2. Len(logs) \in Nat /\ entry \in Nat
    BY <1>1
  <2> HIDE DEF new, kept
  <2> QED BY ONLY <1>3, <2>1, <2>2
<1>6. ASSUME Len(logs) = MaxLogs
      PROVE  /\ new \in Seq(Nat) /\ Len(new) = kept + 1 /\ kept \in Nat /\ new[1] = entry
             /\ \A i \in 1..kept : new[i + 1] = logs[i]
  <2>1. new = SubSeq(long, 1, MaxLogs) /\ kept = MaxLogs - 1
    BY <1>1, <1>3, <1>6 DEF Audit!Inserted, Audit!Capped
  <2>2. MaxLogs \in 0..Len(long)
    BY <1>1, <1>3, <1>6
  <2>3. /\ new \in Seq(Nat) /\ Len(new) = MaxLogs
        /\ \A i \in 1..MaxLogs : new[i] = long[i]
    <3>1. PICK cut : cut = SubSeq(long, 1, MaxLogs)
      OBVIOUS
    <3>2. cut \in Seq(Nat) /\ Len(cut) = MaxLogs /\ \A i \in 1..MaxLogs : cut[i] = long[i]
      BY ONLY <1>3, <2>2, <3>1, Prefix
    <3> QED BY ONLY <2>1, <3>1, <3>2
  <2> HIDE DEF new, kept
  <2>4. kept \in Nat /\ kept + 1 = MaxLogs
    BY <1>1, <2>1
  <2> QED BY <1>1, <1>3, <1>6, <2>3, <2>4
<1> HIDE DEF new, kept
<1>7. /\ new \in Seq(Nat) /\ Len(new) = kept + 1 /\ kept \in Nat /\ new[1] = entry
      /\ \A i \in 1..kept : new[i + 1] = logs[i]
  <2>1. Len(logs) < MaxLogs \/ Len(logs) = MaxLogs
    <3>1. \A m, n \in Nat : m <= n => m < n \/ m = n
      OBVIOUS
    <3> QED BY <1>1, <3>1
  <2> QED BY ONLY <1>5, <1>6, <2>1
<1>8. new \in Entries /\ DOMAIN new = 1..(kept + 1)
  BY <1>1, <1>4, <1>7, LenProperties DEF Entries
<1>9. ASSUME NEW i \in DOMAIN new, i # 1 PROVE i - 1 \in DOMAIN logs /\ new[i] = logs[i - 1]
  <2>1. i - 1 \in 1..kept /\ (i - 1) + 1 = i /\ i - 1 \in DOMAIN logs
    BY <1>1, <1>4, <1>8, <1>9
  <2> QED BY <1>7, <2>1
<1> QED BY <1>1, <1>4, <1>7, <1>8, <1>9 DEF new, kept

\* So a new entry is there once ...
LEMMA InsertedIsSound ==
  ASSUME NEW logs \in Entries, NEW entry \in Nat, NEW time \in Nat,
         OnceEach(logs), UpTo(logs, time), entry <= time, NoneOf(entry, logs)
  PROVE  LET new == Audit!Inserted(logs, entry)
         IN /\ OnceEach(new) /\ UpTo(new, time)
            /\ \A other : other # entry /\ NoneOf(other, logs) => NoneOf(other, new)
<1> DEFINE new == Audit!Inserted(logs, entry)
<1>1. /\ new[1] = entry /\ DOMAIN new \subseteq Nat
      /\ \A i \in DOMAIN new : i # 1 => i - 1 \in DOMAIN logs /\ new[i] = logs[i - 1]
  <2> DEFINE kept == IF Len(logs) < MaxLogs THEN Len(logs) ELSE MaxLogs - 1
  <2>1. /\ new[1] = entry /\ DOMAIN new = 1..(kept + 1) /\ kept \in Nat
        /\ \A i \in DOMAIN new : i # 1 => i - 1 \in DOMAIN logs /\ new[i] = logs[i - 1]
    BY InsertedEntries
  <2> HIDE DEF new, kept
  <2> QED BY <2>1
<1> HIDE DEF new
<1>2. OnceEach(new)
  <2> SUFFICES ASSUME NEW i \in DOMAIN new, NEW j \in DOMAIN new, i # j PROVE new[i] # new[j]
    BY DEF OnceEach
  <2>1. i \in Int /\ j \in Int
    BY <1>1
  <2> QED BY <1>1, <2>1 DEF OnceEach, NoneOf
<1>3. UpTo(new, time)
  BY <1>1 DEF UpTo
<1>4. ASSUME NEW other, other # entry, NoneOf(other, logs) PROVE NoneOf(other, new)
  BY <1>1, <1>4 DEF NoneOf
<1> QED BY <1>2, <1>3, <1>4 DEF new

\* ... and in front of a list it is newer than all of it keeps the list newest
\* first.
LEMMA InsertedDescends ==
  ASSUME NEW logs \in Entries, NEW entry \in Nat, Before(logs, entry), Descends(logs)
  PROVE  Descends(Audit!Inserted(logs, entry))
<1> DEFINE new == Audit!Inserted(logs, entry)
<1>1. /\ new[1] = entry /\ DOMAIN new = 1..Len(new) /\ Len(new) \in Nat
      /\ \A i \in DOMAIN new : i # 1 => i - 1 \in DOMAIN logs /\ new[i] = logs[i - 1]
      /\ \A i \in DOMAIN logs : logs[i] \in Nat
  BY InsertedEntries, LenProperties, ElementOfSeq DEF Entries
<1> HIDE DEF new
<1> SUFFICES ASSUME NEW i \in DOMAIN new, NEW j \in DOMAIN new, i < j PROVE new[i] > new[j]
  BY DEF Descends, new
<1>2. i \in Int /\ j \in Int /\ j # 1 /\ i >= 1
  BY <1>1
<1>3. new[j] = logs[j - 1] /\ j - 1 \in DOMAIN logs
  BY <1>1, <1>2
<1>4. CASE i = 1
  BY <1>1, <1>3, <1>4 DEF Before
<1>5. CASE i # 1
  <2>1. new[i] = logs[i - 1] /\ i - 1 \in DOMAIN logs
    BY <1>1, <1>5
  <2> QED BY <1>2, <1>3, <2>1 DEF Descends
<1> QED BY <1>4, <1>5

LEMMA LogInit == Audit!Init => LogInv
<1> SUFFICES ASSUME Audit!Init PROVE LogInv
  OBVIOUS
<1>1. MaxLogs \in Nat /\ <<>> \in Entries /\ DOMAIN <<>> = {}
  BY LogBounds DEF Audit!LimitAssumption, Entries
<1>2. Audit!Parsed = <<>> /\ \A r \in Logins : login[r] = Audit!Idle
  BY LogFiles DEF Audit!Init, Audit!Parsed, Audit!IsWhole
<1>3. /\ Audit!Idle \in LoginJob /\ Audit!Idle.logs = <<>>
      /\ Audit!Idle.at \notin {"entry", "writing", "filling"}
  BY <1>1 DEF LoginJob, Audit!Idle
<1>4. LogShape
  BY <1>1, <1>3 DEF Audit!Init, LogShape
<1> QED BY <1>1, <1>2, <1>3, <1>4 DEF LogInv, EntriesOnceEach, InTurn, Sound, OnceEach, UpTo, Fresh,
           NoneOf, Newest, Audit!Recording, Descends

LEMMA LoginTypes ==
  ASSUME LogShape, NEW r \in Logins
  PROVE  /\ login[r] \in LoginJob /\ login[r].entry \in Nat /\ login[r].logs \in Entries
         /\ login[r].logs \in Seq(Nat) /\ Audit!Idle \in LoginJob
<1>1. <<>> \in Entries
  BY LogBounds DEF Audit!LimitAssumption, Entries
<1> QED BY <1>1 DEF LogShape, LoginJob, Entries, Audit!Idle

\* Requests that stop recording disturb nothing.
LEMMA LeavingKeeps ==
  ASSUME LogInv, LogShape', UNCHANGED <<log, clock, turns>>,
         \A s \in Logins :
           \/ login'[s] = login[s]
           \/ /\ login'[s].at \notin {"entry", "writing", "filling"}
              /\ login'[s].logs \in {<<>>, login[s].logs}
  PROVE  LogInv'
<1>1. Audit!Parsed' = Audit!Parsed
  BY DEF Audit!Parsed, Audit!IsWhole
<1>2. \A time : OnceEach(<<>>) /\ UpTo(<<>>, time)
  BY DEF OnceEach, UpTo
<1>3. \A entry : NoneOf(entry, <<>>)
  BY DEF NoneOf
<1>4. \A s \in Logins : Sound(login[s].logs)'
  BY <1>2 DEF LogInv, EntriesOnceEach, Sound
<1>5. ASSUME NEW s \in Logins, login'[s].at = "entry" PROVE Fresh(s)'
  <2>1. login'[s] = login[s] /\ Fresh(s)
    BY <1>5 DEF LogInv, EntriesOnceEach
  <2>2. \A q \in Logins : NoneOf(login[s].entry, login'[q].logs)
    BY <1>3, <2>1 DEF Fresh
  <2> QED BY <1>1, <2>1, <2>2 DEF Fresh
<1>6. ASSUME turns = "taken" PROVE InTurn'
  BY <1>1, <1>6 DEF LogInv, InTurn, Newest, Audit!Recording
<1> QED BY <1>1, <1>4, <1>5, <1>6 DEF LogInv, EntriesOnceEach, Sound

LEMMA LeavingActions ==
  ASSUME LogInv,
         \/ \E r \in Logins : \/ Audit!Callback(r) \/ Audit!DiscordFails(r) \/ Audit!Respond(r)
                              \/ Audit!RecordFails(r) \/ Audit!Dropped(r)
         \/ Audit!Crash
  PROVE  LogInv'
<1>1. \A s \in Logins : login[s] \in LoginJob /\ Audit!Idle \in LoginJob
  BY LoginTypes DEF LogInv
<1>2. Audit!Idle.at = "idle" /\ Audit!Idle.logs = <<>>
  BY DEF Audit!Idle
<1>3. /\ [Audit!Idle EXCEPT !.at = "discord"] \in LoginJob
      /\ [Audit!Idle EXCEPT !.at = "discord"].at = "discord"
      /\ [Audit!Idle EXCEPT !.at = "discord"].logs = <<>>
  <2>1. <<>> \in Entries
    BY LogBounds DEF Audit!LimitAssumption, Entries
  <2> QED BY <2>1 DEF Audit!Idle, LoginJob
<1>4. CASE \E r \in Logins : \/ Audit!Callback(r) \/ Audit!DiscordFails(r) \/ Audit!Respond(r)
                             \/ Audit!RecordFails(r) \/ Audit!Dropped(r)
  <2>1. PICK r \in Logins : \/ Audit!Callback(r) \/ Audit!DiscordFails(r) \/ Audit!Respond(r)
                            \/ Audit!RecordFails(r) \/ Audit!Dropped(r)
    BY <1>4
  <2> DEFINE verdict == [login[r] EXCEPT !.at = "verdict"]
             fresh == [Audit!Idle EXCEPT !.at = "discord"]
  <2>2. verdict \in LoginJob /\ verdict.at = "verdict" /\ verdict.logs = login[r].logs
    BY <1>1 DEF LoginJob
  <2>3. /\ \E new \in {Audit!Idle, fresh, verdict} : login' = [login EXCEPT ![r] = new]
        /\ UNCHANGED <<log, clock, turns>>
    BY <2>1 DEF Audit!Callback, Audit!DiscordFails, Audit!Respond, Audit!RecordFails, Audit!Dropped
  <2> HIDE DEF verdict, fresh
  <2>4. PICK new \in {Audit!Idle, fresh, verdict} : login' = [login EXCEPT ![r] = new]
    BY <2>3
  <2>5. new \in LoginJob /\ new.at \notin {"entry", "writing", "filling"}
        /\ new.logs \in {<<>>, login[r].logs}
    BY <1>1, <1>2, <1>3, <2>2 DEF fresh
  <2>6. LogShape'
    BY <2>3, <2>4, <2>5 DEF LogInv, LogShape
  <2>7. \A s \in Logins : login'[s] = IF s = r THEN new ELSE login[s]
    BY <2>4 DEF LogInv, LogShape
  <2> QED BY <2>3, <2>5, <2>6, <2>7, LeavingKeeps
<1>5. CASE Audit!Crash
  <2>1. /\ \A s \in Logins : login'[s] = Audit!Idle
        /\ login' \in [Logins -> LoginJob] /\ UNCHANGED <<log, clock, turns>>
    BY <1>1, <1>5 DEF Audit!Crash
  <2>2. LogShape'
    BY <2>1 DEF LogInv, LogShape
  <2> QED BY <1>2, <2>1, <2>2, LeavingKeeps
<1> QED BY <1>4, <1>5

LEMMA VerifyKeeps ==
  ASSUME LogInv, NEW r \in Logins, NEW status \in {"SUCCESS", "REJECTED"}, Audit!Verify(r, status)
  PROVE  LogInv'
<1> DEFINE new == [Audit!Idle EXCEPT !.at = "entry", !.entry = clock + 1, !.status = status]
<1>1. clock \in Nat /\ clock + 1 \in Nat /\ login \in [Logins -> LoginJob] /\ <<>> \in Entries
  <2>1. clock \in Nat /\ login \in [Logins -> LoginJob]
    BY DEF LogInv, LogShape
  <2>2. <<>> \in Entries
    BY LogBounds DEF Audit!LimitAssumption, Entries
  <2> QED BY <2>1, <2>2
<1>2. new \in LoginJob /\ new.at = "entry" /\ new.entry = clock + 1 /\ new.logs = <<>>
  <2> DEFINE time == clock + 1
  <2>1. time \in Nat
    BY <1>1
  <2> HIDE DEF time
  <2>2. LET verified == [Audit!Idle EXCEPT !.at = "entry", !.entry = time, !.status = status]
        IN  /\ verified \in LoginJob /\ verified.at = "entry"
            /\ verified.entry = time /\ verified.logs = <<>>
    BY <1>1, <2>1 DEF Audit!Idle, LoginJob
  <2> QED BY <2>2 DEF time
<1>3. /\ login' = [login EXCEPT ![r] = new] /\ clock' = clock + 1 /\ log' = log
      /\ turns' = IF \E s \in Logins : Audit!Recording(s) THEN "mixed up" ELSE turns
  BY DEF Audit!Verify
<1> HIDE DEF new
<1>4. \A s \in Logins : login'[s] = IF s = r THEN new ELSE login[s]
  BY <1>1, <1>3
<1>5. Audit!Parsed' = Audit!Parsed /\ Audit!Parsed \in Entries
  BY <1>3, ParsedEntries DEF Audit!Parsed, Audit!IsWhole, LogInv
<1>6. \A logs \in Entries : UpTo(logs, clock) =>
        UpTo(logs, clock + 1) /\ NoneOf(clock + 1, logs) /\ Before(logs, clock + 1)
  <2> TAKE logs \in Entries
  <2>1. \A i \in DOMAIN logs : logs[i] \in Nat
    BY LenProperties, ElementOfSeq DEF Entries
  <2> QED BY <1>1, <2>1 DEF UpTo, NoneOf, Before
<1>7. OnceEach(<<>>) /\ UpTo(<<>>, clock + 1) /\ \A entry : NoneOf(entry, <<>>)
  BY DEF OnceEach, UpTo, NoneOf
<1>8. \A s \in Logins : login[s].logs \in Entries /\ login[s].entry \in Nat
  BY LoginTypes DEF LogInv
<1>9. LogShape'
  BY <1>1, <1>2, <1>3 DEF LogInv, LogShape
<1>10. Sound(Audit!Parsed)'
  BY <1>3, <1>5, <1>6 DEF LogInv, EntriesOnceEach, Sound
<1>11. \A s \in Logins : Sound(login[s].logs)'
  BY <1>2, <1>3, <1>4, <1>6, <1>7, <1>8 DEF LogInv, EntriesOnceEach, Sound
<1>12. ASSUME NEW s \in Logins, login'[s].at = "entry" PROVE Fresh(s)'
  <2>1. CASE s = r
    <3>1. login'[s].entry = clock + 1 /\ clock + 1 <= clock'
      <4>1. login'[s].entry = clock + 1
        BY ONLY <1>2, <1>4, <2>1, s \in Logins
      <4>2. clock + 1 <= clock'
        <5>1. \A n \in Nat : n <= n
          OBVIOUS
        <5> QED BY <1>1, <1>3, <5>1
      <4> QED BY <4>1, <4>2
    <3>2. NoneOf(clock + 1, Audit!Parsed)
      BY <1>5, <1>6 DEF LogInv, EntriesOnceEach, Sound
    <3>3. \A q \in Logins : NoneOf(clock + 1, login'[q].logs)
      BY <1>2, <1>4, <1>6, <1>7, <1>8 DEF LogInv, EntriesOnceEach, Sound
    <3>4. \A q \in Logins \ {s} : login'[q].at = "entry" => login'[q].entry # clock + 1
      BY <1>1, <1>4, <1>8, <2>1 DEF LogInv, EntriesOnceEach, Fresh
    <3> QED BY <1>5, <3>1, <3>2, <3>3, <3>4 DEF Fresh
  <2>2. CASE s # r
    <3>1. login'[s] = login[s] /\ Fresh(s) /\ login[s].entry <= clock
      BY <1>4, <1>12, <2>2 DEF LogInv, EntriesOnceEach, Fresh
    <3>2. login[s].entry <= clock' /\ login[s].entry # clock + 1
      <4>1. login[s].entry \in Nat
        BY <1>8
      <4>2. \A n \in Nat : n <= clock => n <= clock + 1 /\ n # clock + 1
        BY <1>1
      <4> QED BY <1>3, <3>1, <4>1, <4>2
    <3>3. \A q \in Logins : NoneOf(login[s].entry, login'[q].logs)
      BY <1>2, <1>4, <1>7, <3>1 DEF Fresh
    <3> QED BY <1>2, <1>4, <1>5, <3>1, <3>2, <3>3 DEF Fresh
  <2> QED BY <2>1, <2>2
<1>13. ASSUME turns' = "taken" PROVE InTurn'
  <2>1. turns = "taken" /\ \A s \in Logins : ~Audit!Recording(s)
    BY <1>3, <1>13
  <2>2. \A s \in Logins \ {r} : login'[s].at \notin {"entry", "writing", "filling"}
    BY <1>4, <2>1 DEF Audit!Recording
  <2>3. Before(Audit!Parsed, clock + 1)
    BY <1>5, <1>6 DEF LogInv, EntriesOnceEach, Sound
  <2>4. \A s \in Logins : Newest(s)'
    BY <1>2, <1>4, <1>5, <2>2, <2>3 DEF Newest
  <2> QED BY <1>5, <2>1, <2>2, <2>4 DEF LogInv, InTurn, Audit!Recording
<1> QED BY <1>9, <1>10, <1>11, <1>12, <1>13 DEF LogInv, EntriesOnceEach

LEMMA ReadKeeps == ASSUME LogInv, NEW r \in Logins, Audit!Read(r) PROVE LogInv'
<1> DEFINE logs == Audit!Inserted(Audit!Parsed, login[r].entry)
           new == [login[r] EXCEPT !.at = "writing", !.logs = logs]
<1>1. /\ clock \in Nat /\ login \in [Logins -> LoginJob] /\ Audit!Parsed \in Entries
      /\ login[r] \in LoginJob /\ login[r].entry \in Nat /\ login[r].at = "entry"
  BY LoginTypes, ParsedEntries DEF LogInv, LogShape, Audit!Read
<1>2. Sound(Audit!Parsed) /\ Fresh(r)
  BY <1>1 DEF LogInv, EntriesOnceEach
<1>3. /\ logs \in Entries /\ OnceEach(logs) /\ UpTo(logs, clock)
      /\ \A other : other # login[r].entry /\ NoneOf(other, Audit!Parsed) => NoneOf(other, logs)
  BY <1>1, <1>2, InsertedEntries, InsertedIsSound DEF Sound, Fresh
<1>4. login' = [login EXCEPT ![r] = new] /\ UNCHANGED <<log, clock, turns>>
  BY DEF Audit!Read
<1> HIDE DEF logs
<1>5. new \in LoginJob /\ new.at = "writing" /\ new.entry = login[r].entry /\ new.logs = logs
  BY <1>1, <1>3 DEF LoginJob
<1> HIDE DEF new
<1>6. \A s \in Logins : login'[s] = IF s = r THEN new ELSE login[s]
  BY <1>1, <1>4
<1>7. Audit!Parsed' = Audit!Parsed
  BY <1>4 DEF Audit!Parsed, Audit!IsWhole
<1>8. LogShape'
  BY <1>1, <1>4, <1>5 DEF LogInv, LogShape
<1>9. \A s \in Logins : Sound(login[s].logs)'
  BY <1>3, <1>4, <1>5, <1>6 DEF LogInv, EntriesOnceEach, Sound
<1>10. ASSUME NEW s \in Logins, login'[s].at = "entry" PROVE Fresh(s)'
  <2>1. s # r /\ login'[s] = login[s] /\ Fresh(s)
    BY <1>5, <1>6, <1>10 DEF LogInv, EntriesOnceEach
  <2>2. NoneOf(login[s].entry, logs)
    BY <1>1, <1>3, <2>1 DEF Fresh
  <2>3. \A q \in Logins : NoneOf(login[s].entry, login'[q].logs)
    BY <1>5, <1>6, <2>1, <2>2 DEF Fresh
  <2> QED BY <1>4, <1>5, <1>6, <1>7, <2>1, <2>3 DEF Fresh
<1>11. ASSUME turns = "taken" PROVE InTurn'
  <2>1. InTurn /\ Audit!Recording(r) /\ Newest(r)
    BY <1>1, <1>11 DEF LogInv, InTurn, Audit!Recording
  <2>2. \A s \in Logins : Audit!Recording(s)' => Audit!Recording(s)
    BY <1>6, <2>1 DEF Audit!Recording
  <2>3. Newest(r)'
    BY <1>1, <1>5, <1>6, <1>7, <2>1 DEF Newest, logs
  <2>4. \A s \in Logins \ {r} : Newest(s)'
    BY <1>4, <1>6, <1>7, <2>1 DEF InTurn, Newest
  <2> QED BY <1>7, <2>1, <2>2, <2>3, <2>4 DEF InTurn
<1> QED BY <1>2, <1>4, <1>7, <1>8, <1>9, <1>10, <1>11 DEF LogInv, EntriesOnceEach, Sound

LEMMA TruncateLogKeeps == ASSUME LogInv, NEW r \in Logins, Audit!Truncate(r) PROVE LogInv'
<1> DEFINE new == [login[r] EXCEPT !.at = "filling"]
<1>1. /\ clock \in Nat /\ login \in [Logins -> LoginJob] /\ Audit!Parsed \in Entries
      /\ login[r] \in LoginJob /\ login[r].entry \in Nat /\ login[r].at = "writing"
  BY LoginTypes, ParsedEntries DEF LogInv, LogShape, Audit!Truncate
<1>2. login' = [login EXCEPT ![r] = new] /\ log' = Audit!Blank /\ UNCHANGED <<clock, turns>>
  BY DEF Audit!Truncate
<1>3. new \in LoginJob /\ new.at = "filling" /\ new.entry = login[r].entry
      /\ new.logs = login[r].logs
  BY <1>1 DEF LoginJob
<1> HIDE DEF new
<1>4. \A s \in Logins : login'[s] = IF s = r THEN new ELSE login[s]
  BY <1>1, <1>2
<1>5. Audit!Parsed' = <<>>
  BY <1>2, LogFiles DEF Audit!Parsed, Audit!IsWhole
<1>6. /\ OnceEach(<<>>) /\ UpTo(<<>>, clock) /\ Descends(<<>>)
      /\ \A entry : NoneOf(entry, <<>>) /\ Before(<<>>, entry)
  BY DEF OnceEach, UpTo, NoneOf, Before, Descends
<1>7. LogShape'
  BY <1>1, <1>2, <1>3 DEF LogInv, LogShape
<1>8. Sound(Audit!Parsed)' /\ \A s \in Logins : Sound(login[s].logs)'
  BY <1>2, <1>3, <1>4, <1>5, <1>6 DEF LogInv, EntriesOnceEach, Sound
<1>9. ASSUME NEW s \in Logins, login'[s].at = "entry" PROVE Fresh(s)'
  <2>1. s # r /\ login'[s] = login[s] /\ Fresh(s)
    BY <1>3, <1>4, <1>9 DEF LogInv, EntriesOnceEach
  <2> QED BY <1>2, <1>3, <1>4, <1>5, <1>6, <2>1 DEF Fresh
<1>10. ASSUME turns = "taken" PROVE InTurn'
  <2>1. InTurn /\ Audit!Recording(r) /\ Newest(r)
    BY <1>1, <1>10 DEF LogInv, InTurn, Audit!Recording
  <2>2. \A s \in Logins : Audit!Recording(s)' => s = r
    BY <1>4, <2>1 DEF Audit!Recording, InTurn
  <2>3. Descends(login[r].logs)
    <3>1. /\ login[r].logs = Audit!Inserted(Audit!Parsed, login[r].entry)
          /\ Before(Audit!Parsed, login[r].entry) /\ Descends(Audit!Parsed)
      BY <1>1, <2>1 DEF Newest, InTurn
    <3> QED BY <1>1, <3>1, InsertedDescends
  <2>4. \A s \in Logins : Newest(s)'
    BY <1>2, <1>3, <1>4, <2>2, <2>3 DEF Newest, Audit!Recording
  <2> QED BY <1>5, <1>6, <2>2, <2>4 DEF InTurn
<1> QED BY <1>2, <1>7, <1>8, <1>9, <1>10 DEF LogInv, EntriesOnceEach

\* Filling a blank file leaves nothing of another text in it.
LEMMA FilledLog ==
  ASSUME LogInv, NEW r \in Logins, Audit!Fill(r)
  PROVE  /\ log' \in {Audit!Whole(login[r].logs), Audit!Torn}
         /\ turns = "taken" => log = Audit!Blank /\ log' = Audit!Whole(login[r].logs)
         /\ Audit!Parsed' \in {<<>>, login[r].logs}
         /\ turns = "taken" => Audit!Parsed' = login[r].logs
<1>1. log' \in Audit!Overwritten(log, Audit!Whole(login[r].logs)) /\ login[r].at = "filling"
  BY DEF Audit!Fill
<1>2. log' \in {Audit!Whole(login[r].logs), Audit!Torn}
  BY <1>1 DEF Audit!Overwritten
<1>3. turns = "taken" => log = Audit!Blank /\ log' = Audit!Whole(login[r].logs)
  BY <1>1 DEF Audit!Overwritten, LogInv, InTurn, Newest
<1> QED BY <1>2, <1>3, LogFiles DEF Audit!Parsed, Audit!IsWhole

LEMMA FillLogKeeps == ASSUME LogInv, NEW r \in Logins, Audit!Fill(r) PROVE LogInv'
<1> DEFINE new == [login[r] EXCEPT !.at = "verdict"]
<1>1. /\ clock \in Nat /\ login \in [Logins -> LoginJob]
      /\ login[r] \in LoginJob /\ login[r].logs \in Entries /\ login[r].at = "filling"
  BY LoginTypes DEF LogInv, LogShape, Audit!Fill
<1>2. login' = [login EXCEPT ![r] = new] /\ UNCHANGED <<clock, turns>>
  BY DEF Audit!Fill
<1>3. new \in LoginJob /\ new.at = "verdict" /\ new.entry = login[r].entry
      /\ new.logs = login[r].logs
  BY <1>1 DEF LoginJob
<1> HIDE DEF new
<1>4. \A s \in Logins : login'[s] = IF s = r THEN new ELSE login[s]
  BY <1>1, <1>2
<1>5. /\ OnceEach(<<>>) /\ UpTo(<<>>, clock) /\ Descends(<<>>) /\ \A entry : NoneOf(entry, <<>>)
  BY DEF OnceEach, UpTo, NoneOf, Descends
<1>6. LogShape'
  BY <1>1, <1>2, <1>3, FilledLog DEF LogInv, LogShape
<1>7. Sound(Audit!Parsed)' /\ \A s \in Logins : Sound(login[s].logs)'
  BY <1>2, <1>3, <1>4, <1>5, FilledLog DEF LogInv, EntriesOnceEach, Sound
<1>8. ASSUME NEW s \in Logins, login'[s].at = "entry" PROVE Fresh(s)'
  <2>1. s # r /\ login'[s] = login[s] /\ Fresh(s)
    BY <1>3, <1>4, <1>8 DEF LogInv, EntriesOnceEach
  <2>2. NoneOf(login[s].entry, Audit!Parsed')
    BY <1>5, <2>1, FilledLog DEF Fresh
  <2> QED BY <1>2, <1>3, <1>4, <1>5, <2>1, <2>2 DEF Fresh
<1>9. ASSUME turns = "taken" PROVE InTurn'
  <2>1. InTurn /\ Audit!Recording(r) /\ Newest(r)
    BY <1>1, <1>9 DEF LogInv, InTurn, Audit!Recording
  <2>2. \A s \in Logins : ~Audit!Recording(s)'
    BY <1>3, <1>4, <2>1 DEF Audit!Recording, InTurn
  <2>3. Descends(Audit!Parsed')
    BY <1>1, <1>9, <2>1, FilledLog DEF Newest
  <2> QED BY <2>2, <2>3 DEF InTurn, Newest, Audit!Recording
<1> QED BY <1>2, <1>6, <1>7, <1>8, <1>9 DEF LogInv, EntriesOnceEach

LEMMA LogStep == LogInv /\ [Audit!Next]_loginVars => LogInv'
<1> SUFFICES ASSUME LogInv, [Audit!Next]_loginVars PROVE LogInv'
  OBVIOUS
<1>1. CASE UNCHANGED loginVars
  BY <1>1 DEF loginVars, LogInv, LogShape, EntriesOnceEach, InTurn, Sound, Fresh, Newest,
     Audit!Recording, Audit!Parsed, Audit!IsWhole
<1>2. CASE Audit!Next
  BY <1>2, LeavingActions, VerifyKeeps, ReadKeeps, TruncateLogKeeps, FillLogKeeps DEF Audit!Next
<1> QED BY <1>1, <1>2

-----------------------------------------------------------------------------
(* The log is LoginTrail's.                                                *)

\* What LoginTrail sees as the trail, spelled out.
Writer == CHOOSE r \in Audit!Filling : TRUE
Seen == IF Audit!Filling = {} THEN Audit!Parsed ELSE login[Writer].logs

LEMMA NobodyFills ==
  ASSUME LogInv, turns = "taken", NEW r \in Logins, Audit!Recording(r)
  PROVE  Audit!Filling = IF login[r].at = "filling" THEN {r} ELSE {}
BY DEF LogInv, InTurn, Audit!Filling, Audit!Recording

\* What neither touches the file nor a request that fills it shows nothing.
LEMMA SeenAsBefore ==
  ASSUME LogShape, log' = log, Audit!Filling' = Audit!Filling,
         \A r \in Audit!Filling : login'[r].logs = login[r].logs
  PROVE  UNCHANGED <<Seen, Audit!Filling>>
<1>1. Audit!Parsed' = Audit!Parsed
  BY DEF Audit!Parsed, Audit!IsWhole
<1>2. Writer' = Writer
  BY DEF Writer
<1>3. Audit!Filling # {} => Writer \in Audit!Filling
  BY DEF Writer
<1> QED BY <1>1, <1>2, <1>3 DEF Seen

\* Truncating records the entry of the request.
LEMMA TruncateRecords ==
  ASSUME LogInv, turns = "taken", NEW r \in Logins, Audit!Truncate(r)
  PROVE  /\ Audit!Filling = {} /\ Audit!Filling' = {r} /\ UNCHANGED turns
         /\ Seen' = Audit!Inserted(Seen, login[r].entry) /\ Before(Seen, login[r].entry)
         /\ Seen \in Entries /\ login[r].entry \in Nat
<1>1. /\ login[r].at = "writing" /\ login' = [login EXCEPT ![r].at = "filling"]
      /\ UNCHANGED turns /\ login \in [Logins -> LoginJob]
  BY DEF Audit!Truncate, LogInv, LogShape
<1>2. Audit!Filling = {}
  BY <1>1, NobodyFills DEF Audit!Recording
<1>3. /\ login'[r].at = "filling" /\ login'[r].logs = login[r].logs
      /\ \A s \in Logins \ {r} : login'[s] = login[s]
  BY <1>1 DEF LoginJob
<1>4. Audit!Filling' = {r}
  BY <1>2, <1>3 DEF Audit!Filling
<1>5. Writer' = r
  BY <1>4 DEF Writer
<1>6. Newest(r) /\ Audit!Parsed \in Entries /\ login[r].entry \in Nat
  BY LoginTypes, ParsedEntries DEF LogInv, InTurn
<1> QED BY <1>1, <1>2, <1>3, <1>4, <1>5, <1>6 DEF Newest, Seen

\* LoginTrail's Record, said with indexes.
LEMMA RecordedTrail ==
  ASSUME NEW logs \in Entries, NEW entry \in Nat
  PROVE  LET new == Audit!Inserted(logs, entry)
         IN /\ new # <<>> /\ Head(new) = entry
            /\ Tail(new) = IF Len(logs) < MaxLogs THEN logs ELSE SubSeq(logs, 1, MaxLogs - 1)
<1> DEFINE new == Audit!Inserted(logs, entry)
           kept == IF Len(logs) < MaxLogs THEN Len(logs) ELSE MaxLogs - 1
           cut == IF Len(logs) < MaxLogs THEN logs ELSE SubSeq(logs, 1, MaxLogs - 1)
<1>1. /\ MaxLogs \in Nat /\ MaxLogs >= 1 /\ logs \in Seq(Nat)
      /\ Len(logs) \in Nat /\ Len(logs) <= MaxLogs
  BY LogBounds, LenProperties DEF Audit!LimitAssumption, Entries
<1>2. /\ new \in Seq(Nat) /\ Len(new) = kept + 1 /\ kept \in Nat /\ kept <= Len(logs)
      /\ new[1] = entry /\ \A i \in 1..kept : new[i + 1] = logs[i]
  BY InsertedEntries DEF Entries
<1>3. cut \in Seq(Nat) /\ Len(cut) = kept /\ \A i \in 1..kept : cut[i] = logs[i]
  <2>1. CASE Len(logs) < MaxLogs
    BY <1>1, <2>1
  <2>2. CASE ~(Len(logs) < MaxLogs)
    <3>1. MaxLogs - 1 \in 0..Len(logs)
      BY <1>1, <2>2
    <3> QED BY <1>1, <2>2, <3>1, Prefix
  <2> QED BY <2>1, <2>2
<1> HIDE DEF new, kept, cut
<1>4. new # <<>> /\ Head(new) = entry
  BY <1>2
<1>5. Tail(new) \in Seq(Nat) /\ Len(Tail(new)) = kept
      /\ \A i \in 1..kept : Tail(new)[i] = new[i + 1]
  <2>1. Len(new) - 1 = kept
    BY <1>2
  <2> QED BY <1>2, <1>4, <2>1, HeadTailProperties
<1>6. Tail(new) = cut
  BY <1>2, <1>3, <1>5, SeqEqual
<1> QED BY <1>4, <1>6 DEF new, cut

\* What is not about to be filled and will not be shows nothing.
LEMMA QuietSteps ==
  ASSUME LogInv, log' = log, NEW r \in Logins, login[r].at # "filling", login'[r].at # "filling",
         \A s \in Logins \ {r} : login'[s] = login[s]
  PROVE  UNCHANGED <<Seen, Audit!Filling>>
<1>1. Audit!Filling' = Audit!Filling /\ \A s \in Audit!Filling : login'[s] = login[s]
  BY DEF Audit!Filling
<1> QED BY <1>1, SeenAsBefore DEF LogInv

LEMMA QuietActions ==
  ASSUME LogInv, NEW r \in Logins,
         \/ Audit!Callback(r) \/ Audit!DiscordFails(r) \/ Audit!Respond(r) \/ Audit!Read(r)
         \/ Audit!RecordFails(r) \/ Audit!Dropped(r)
         \/ \E status \in {"SUCCESS", "REJECTED"} : Audit!Verify(r, status)
  PROVE  /\ UNCHANGED <<Seen, Audit!Filling>>
         /\ turns' = turns \/ turns' = "mixed up"
<1>1. /\ login \in [Logins -> LoginJob] /\ Audit!Idle.at = "idle" /\ log' = log
      /\ login[r].at # "filling" /\ (turns' = turns \/ turns' = "mixed up")
  BY DEF Audit!Idle, LogInv, LogShape, Audit!Callback, Audit!DiscordFails, Audit!Respond, Audit!Read,
     Audit!RecordFails, Audit!Dropped, Audit!Verify
<1>2. \A s \in Logins \ {r} : login'[s] = login[s]
  BY <1>1 DEF Audit!Callback, Audit!DiscordFails, Audit!Respond, Audit!Read, Audit!RecordFails,
     Audit!Dropped, Audit!Verify
<1>3. login'[r].at # "filling"
  <2>1. login[r] \in LoginJob /\ Audit!Idle \in LoginJob
    BY LoginTypes DEF LogInv
  <2>2. CASE Audit!Callback(r)
    BY <1>1, <2>2 DEF Audit!Idle, Audit!Callback
  <2>3. CASE Audit!DiscordFails(r) \/ Audit!Respond(r)
    BY <1>1, <2>3 DEF Audit!DiscordFails, Audit!Respond
  <2>4. CASE Audit!Dropped(r)
    BY <1>1, <2>4 DEF Audit!Dropped
  <2>5. CASE Audit!Read(r)
    BY <1>1, <2>1, <2>5 DEF LoginJob, Audit!Read
  <2>6. CASE Audit!RecordFails(r)
    BY <1>1, <2>1, <2>6 DEF LoginJob, Audit!RecordFails
  <2>7. CASE \E status \in {"SUCCESS", "REJECTED"} : Audit!Verify(r, status)
    BY <1>1, <2>7 DEF Audit!Idle, Audit!Verify
  <2> QED BY <2>2, <2>3, <2>4, <2>5, <2>6, <2>7
<1> QED BY <1>1, <1>2, <1>3, QuietSteps

LEMMA FillWrites ==
  ASSUME LogInv, turns = "taken", NEW r \in Logins, Audit!Fill(r)
  PROVE  Audit!Filling # {} /\ Audit!Filling' = {} /\ UNCHANGED <<Seen, turns>>
<1>1. /\ login[r].at = "filling" /\ login' = [login EXCEPT ![r].at = "verdict"]
      /\ UNCHANGED turns /\ login \in [Logins -> LoginJob]
  BY DEF Audit!Fill, LogInv, LogShape
<1>2. Audit!Filling = {r} /\ Writer = r
  BY <1>1, NobodyFills DEF Audit!Recording, Writer
<1>3. login'[r].at = "verdict" /\ \A s \in Logins \ {r} : login'[s] = login[s]
  BY <1>1 DEF LoginJob
<1>4. Audit!Filling' = {}
  BY <1>2, <1>3 DEF Audit!Filling
<1> QED BY <1>1, <1>2, <1>4, FilledLog DEF Seen

LEMMA CrashLoses ==
  ASSUME LogInv, turns = "taken", Audit!Crash
  PROVE  /\ Audit!Filling' = {} /\ UNCHANGED turns
         /\ IF Audit!Filling = {} THEN UNCHANGED Seen ELSE Seen' = <<>>
<1>1. Audit!Idle.at = "idle" /\ \A r \in Logins : login'[r] = Audit!Idle
  BY DEF Audit!Idle, Audit!Crash
<1>2. Audit!Filling' = {} /\ Audit!Parsed' = Audit!Parsed /\ UNCHANGED turns
  BY <1>1 DEF Audit!Filling, Audit!Crash, Audit!Parsed, Audit!IsWhole
<1>3. ASSUME Audit!Filling # {} PROVE Audit!Parsed = <<>>
  BY <1>3, LogFiles DEF Audit!Filling, LogInv, InTurn, Newest, Audit!Parsed, Audit!IsWhole
<1> QED BY <1>2, <1>3 DEF Seen

LEMMA TrailInit == Audit!Init => Audit!Trail!Init
<1> SUFFICES ASSUME Audit!Init PROVE Audit!Trail!Init
  OBVIOUS
<1>1. Audit!Parsed = <<>> /\ Audit!Filling = {}
  BY LogFiles DEF Audit!Init, Audit!Parsed, Audit!IsWhole, Audit!Filling, Audit!Idle
<1> QED BY <1>1 DEF Audit!Init, Audit!Trail!Init

LEMMA TrailStep ==
  ASSUME LogInv, [Audit!Next]_loginVars
  PROVE  [Audit!Trail!Next]_(Audit!Trail!trailVars)
<1>1. CASE UNCHANGED loginVars
  <2>1. Audit!Filling' = Audit!Filling /\ log' = log /\ login' = login /\ turns' = turns
    BY <1>1 DEF loginVars, Audit!Filling
  <2> QED BY <2>1, SeenAsBefore DEF LogInv, Seen, Writer, Audit!Trail!trailVars
<1>2. CASE turns = "mixed up" /\ Audit!Next
  <2>1. turns' = turns
    BY <1>2 DEF Audit!Next, Audit!Callback, Audit!DiscordFails, Audit!Respond, Audit!Read,
       Audit!RecordFails, Audit!Dropped, Audit!Verify, Audit!Truncate, Audit!Fill, Audit!Crash
  <2> QED BY <1>2, <2>1 DEF Audit!Trail!Next, Audit!Trail!Unpromised
<1>3. CASE turns = "taken" /\ Audit!Next
  <2>1. ASSUME NEW r \in Logins,
               \/ Audit!Callback(r) \/ Audit!DiscordFails(r) \/ Audit!Respond(r) \/ Audit!Read(r)
               \/ Audit!RecordFails(r) \/ Audit!Dropped(r)
               \/ \E status \in {"SUCCESS", "REJECTED"} : Audit!Verify(r, status)
        PROVE  [Audit!Trail!Next]_(Audit!Trail!trailVars)
    BY <1>3, <2>1, QuietActions DEF Seen, Writer, Audit!Trail!trailVars, Audit!Trail!Next,
       Audit!Trail!MixUp
  <2>2. ASSUME NEW r \in Logins, Audit!Truncate(r) PROVE Audit!Trail!Next
    <3>1. /\ Audit!Filling = {} /\ Audit!Filling' = {r} /\ UNCHANGED turns
          /\ Seen' = Audit!Inserted(Seen, login[r].entry) /\ Before(Seen, login[r].entry)
          /\ Seen \in Entries /\ login[r].entry \in Nat
      BY <1>3, <2>2, TruncateRecords
    <3>2. /\ Seen' # <<>> /\ Head(Seen') = login[r].entry
          /\ Tail(Seen') = IF Len(Seen) < MaxLogs THEN Seen ELSE SubSeq(Seen, 1, MaxLogs - 1)
      BY <3>1, RecordedTrail
    <3> QED BY <1>3, <3>1, <3>2 DEF Audit!Trail!Next, Audit!Trail!Record, Before, Seen, Writer
  <2>3. ASSUME NEW r \in Logins, Audit!Fill(r) PROVE Audit!Trail!Next
    BY <1>3, <2>3, FillWrites DEF Audit!Trail!Next, Audit!Trail!Written, Seen, Writer
  <2>4. ASSUME Audit!Crash PROVE [Audit!Trail!Next]_(Audit!Trail!trailVars)
    BY <1>3, <2>4, CrashLoses DEF Audit!Trail!Next, Audit!Trail!Lose, Audit!Trail!trailVars,
       Seen, Writer
  <2> QED BY <1>3, <2>1, <2>2, <2>3, <2>4 DEF Audit!Next
<1> QED BY <1>1, <1>2, <1>3 DEF LogInv, LogShape

LEMMA NewestComeFirst == LogInv => Audit!NewestFirst
<1> SUFFICES ASSUME LogInv, NEW i \in DOMAIN Audit!Parsed, NEW j \in DOMAIN Audit!Parsed, i < j
             PROVE  IF turns = "taken" THEN Audit!Parsed[i] > Audit!Parsed[j]
                    ELSE Audit!Parsed[i] # Audit!Parsed[j]
  BY DEF Audit!NewestFirst
<1>1. i # j
  BY ParsedEntries, LenProperties DEF LogInv, Entries
<1> QED BY <1>1 DEF LogInv, InTurn, Descends, EntriesOnceEach, Sound, OnceEach

\* For any number of logins at a time and any limit of the log: the audit log
\* implements LoginTrail's list of the newest entries, over failed, dropped and
\* killed requests, and holds no entry twice (append_audit in auth.rs).
THEOREM LogImplementsTrail == FilesSpec => LogIsKept
<1>1. FilesInit => LogInv /\ Audit!Trail!Init
  BY LogInit, TrailInit DEF FilesInit
<1>2. [FilesNext]_filesVars => [Audit!Next]_loginVars
  BY DEF FilesNext, Others, filesVars
<1>3. LogInv /\ [FilesNext]_filesVars => LogInv'
  BY <1>2, LogStep
<1>4. LogInv /\ [FilesNext]_filesVars => [Audit!Trail!Next]_(Audit!Trail!trailVars)
  BY <1>2, TrailStep
<1>5. FilesSpec => []LogInv
  BY <1>1, <1>3, PTL DEF FilesSpec, filesVars
<1>6. FilesSpec => Audit!EntriesAreAppended
  BY <1>1, <1>4, <1>5, PTL DEF FilesSpec, filesVars, Audit!EntriesAreAppended, Audit!Trail!Spec
<1>7. FilesSpec => []Audit!NewestFirst
  BY <1>5, NewestComeFirst, PTL
<1> QED BY <1>6, <1>7 DEF LogIsKept

-----------------------------------------------------------------------------
(* The weather. As long as applies do not overlap there is one at a time,  *)
(* so a generated file stays as generated until it is loaded; and as long  *)
(* as nothing else spoils the swap DCS runs one of the two files and the   *)
(* apply has the other one.                                                *)

Generation ==
  [at : {"idle", "resolved", "generating", "orphan", "generated", "success"},
   target : Weather!Slots \cup {"none"}, apply : Nat]
Swappable == {"A", "B"}

WeatherShape ==
  /\ running \in [slot : Weather!Slots \cup {"none"}, weather : Nat]
  /\ weather \in [Weather!Slots -> Nat]
  /\ dto \in Weather!Slots \cup {"none"}
  /\ applies \in 0 .. MaxApplies
  /\ apply \in [Applies -> Generation]
  /\ \A r \in Applies :
       IF apply[r].at = "idle" THEN apply[r] = Weather!Idle ELSE apply[r].target \in Weather!Slots
  /\ spoilt \subseteq {"overlap", "unreachable", "switch"}

OneApply == \A r, s \in Applies : apply[r].at # "idle" /\ apply[s].at # "idle" => r = s
GeneratedIsThere ==
  \A r \in Applies : apply[r].at = "generated" => weather[apply[r].target] = apply[r].apply
InactiveTarget ==
  /\ running.slot \in Swappable
  /\ \A r \in Applies : apply[r].at \notin {"idle", "success"} =>
       apply[r].target \in Swappable \ {running.slot}

WeatherInv ==
  /\ WeatherShape
  /\ "overlap" \notin spoilt => OneApply /\ GeneratedIsThere
  /\ spoilt = {} => InactiveTarget

LEMMA IdleApply == Weather!Idle \in Generation /\ Weather!Idle.at = "idle"
BY DEF Weather!Idle, Generation

LEMMA SwappedSlot ==
  /\ \A slot \in Weather!Slots : Weather!Swapped(slot) \in Weather!Slots
  /\ \A slot \in Swappable : Weather!Swapped(slot) \in Swappable \ {slot}
  /\ Swappable \subseteq Weather!Slots
BY DEF Weather!Swapped, Weather!Slots, Swappable

LEMMA WeatherInit == Weather!Init => WeatherInv
<1> SUFFICES ASSUME Weather!Init PROVE WeatherInv
  OBVIOUS
<1>1. WeatherShape
  BY IdleApply, WeatherBounds DEF Weather!Init, WeatherShape, Weather!Slots, Weather!AppliesAssumption
<1> QED BY <1>1, IdleApply DEF Weather!Init, WeatherInv, OneApply, GeneratedIsThere, InactiveTarget,
           Swappable

LEMMA MovedApply ==
  ASSUME WeatherShape, NEW r \in Applies, apply[r].at # "idle",
         NEW to \in {"resolved", "generating", "orphan", "generated", "success"},
         apply' = [apply EXCEPT ![r].at = to]
  PROVE  /\ apply' \in [Applies -> Generation]
         /\ apply'[r].at = to /\ apply'[r].target = apply[r].target /\ apply'[r].apply = apply[r].apply
         /\ \A s \in Applies \ {r} : apply'[s] = apply[s]
         /\ \A s \in Applies : IF apply'[s].at = "idle" THEN apply'[s] = Weather!Idle
                               ELSE apply'[s].target \in Weather!Slots
<1> DEFINE new == [apply[r] EXCEPT !.at = to]
<1>1. apply \in [Applies -> Generation] /\ apply[r] \in Generation
  BY DEF WeatherShape
<1>2. new \in Generation /\ new.at = to /\ new.target = apply[r].target /\ new.apply = apply[r].apply
  BY <1>1 DEF Generation
<1>3. apply' = [apply EXCEPT ![r] = new]
  OBVIOUS
<1> HIDE DEF new
<1>4. apply'[r] = new /\ \A s \in Applies \ {r} : apply'[s] = apply[s]
  BY <1>1, <1>3
<1> QED BY <1>1, <1>2, <1>3, <1>4 DEF WeatherShape

LEMMA MovedKeeps ==
  ASSUME WeatherInv, NEW r \in Applies,
         Weather!StartGenerator(r) \/ Weather!Timeout(r)
  PROVE  WeatherInv'
<1>1. PICK to \in {"generating", "orphan"} :
        /\ apply[r].at \in {"resolved", "generating"} /\ apply' = [apply EXCEPT ![r].at = to]
        /\ UNCHANGED <<running, weather, dto, applies, spoilt>>
  BY DEF Weather!StartGenerator, Weather!Timeout
<1>2. WeatherShape'
  BY <1>1, MovedApply DEF WeatherInv, WeatherShape
<1> QED BY <1>1, <1>2, MovedApply DEF WeatherInv, OneApply, GeneratedIsThere, InactiveTarget

\* A request that ends leaves the others.
LEMMA EndedKeeps ==
  ASSUME WeatherInv, NEW r \in Applies,
         Weather!LoadFails(r) \/ Weather!Respond(r) \/ Weather!GeneratorFails(r)
  PROVE  WeatherInv'
<1>1. /\ apply' = [apply EXCEPT ![r] = Weather!Idle] /\ apply \in [Applies -> Generation]
      /\ UNCHANGED <<running, weather, dto, applies, spoilt>>
  BY DEF Weather!LoadFails, Weather!Respond, Weather!GeneratorFails, WeatherInv, WeatherShape
<1>2. /\ apply' \in [Applies -> Generation] /\ apply'[r] = Weather!Idle
      /\ \A s \in Applies \ {r} : apply'[s] = apply[s]
  BY <1>1, IdleApply
<1>3. WeatherShape'
  BY <1>1, <1>2, IdleApply DEF WeatherInv, WeatherShape
<1> QED BY <1>1, <1>2, <1>3, IdleApply DEF WeatherInv, OneApply, GeneratedIsThere, InactiveTarget

LEMMA ResolveKeeps == ASSUME WeatherInv, NEW r \in Applies, Weather!Resolve(r) PROVE WeatherInv'
<1>1. /\ applies < MaxApplies /\ applies' = applies + 1 /\ apply[r] = Weather!Idle
      /\ UNCHANGED <<running, weather, dto>>
  BY DEF Weather!Resolve
<1>2. PICK reachable \in BOOLEAN :
        /\ apply' = [apply EXCEPT ![r] = [at |-> "resolved",
                       target |-> Weather!Swapped(Weather!Current(reachable)), apply |-> applies + 1]]
        /\ spoilt' = spoilt
             \cup (IF \E q \in Applies : apply[q] # Weather!Idle THEN {"overlap"} ELSE {})
             \cup (IF reachable THEN {} ELSE {"unreachable"})
  BY DEF Weather!Resolve
<1> DEFINE target == Weather!Swapped(Weather!Current(reachable))
           new == [at |-> "resolved", target |-> target, apply |-> applies + 1]
<1>3. applies \in Nat /\ applies + 1 \in 0..MaxApplies /\ applies + 1 \in Nat
  BY <1>1, WeatherBounds DEF WeatherInv, WeatherShape, Weather!AppliesAssumption
<1>4. target \in Weather!Slots
  <2>1. Weather!Current(reachable) \in Weather!Slots
    BY DEF Weather!Current, WeatherInv, WeatherShape, Weather!Slots
  <2> QED BY <2>1, SwappedSlot
<1>5. ASSUME spoilt' = {} PROVE target \in Swappable \ {running.slot}
  <2>1. reachable /\ running.slot \in Swappable
    BY <1>2, <1>5 DEF WeatherInv, InactiveTarget
  <2>2. Weather!Current(reachable) = running.slot
    BY <2>1 DEF Weather!Current, Swappable
  <2> QED BY <2>1, <2>2, SwappedSlot
<1> HIDE DEF target
<1>6. new \in Generation /\ new.at = "resolved" /\ new.target = target
  BY <1>3, <1>4 DEF Generation
<1>7. apply' = [apply EXCEPT ![r] = new] /\ apply \in [Applies -> Generation]
  BY <1>2 DEF target, WeatherInv, WeatherShape
<1> HIDE DEF new
<1>8. /\ apply' \in [Applies -> Generation] /\ apply'[r] = new
      /\ \A s \in Applies \ {r} : apply'[s] = apply[s]
  BY <1>6, <1>7
<1>9. spoilt \subseteq spoilt' /\ spoilt' \subseteq {"overlap", "unreachable", "switch"}
  BY <1>2 DEF WeatherInv, WeatherShape
<1>10. WeatherShape'
  BY <1>1, <1>3, <1>4, <1>6, <1>8, <1>9 DEF WeatherInv, WeatherShape
<1>11. ASSUME "overlap" \notin spoilt' PROVE OneApply' /\ GeneratedIsThere'
  <2>1. \A s \in Applies : apply[s] = Weather!Idle
    BY <1>2, <1>11
  <2> QED BY <1>6, <1>8, <2>1, IdleApply DEF OneApply, GeneratedIsThere
<1>12. ASSUME spoilt' = {} PROVE InactiveTarget'
  BY <1>1, <1>5, <1>6, <1>8, <1>9, <1>12 DEF WeatherInv, InactiveTarget
<1> QED BY <1>10, <1>11, <1>12 DEF WeatherInv

LEMMA WeatherLoadKeeps == ASSUME WeatherInv, NEW r \in Applies, Weather!Load(r) PROVE WeatherInv'
<1>1. /\ apply[r].at = "generated" /\ apply' = [apply EXCEPT ![r].at = "success"]
      /\ running' = [slot |-> apply[r].target, weather |-> weather[apply[r].target]]
      /\ UNCHANGED <<weather, dto, applies, spoilt>>
  BY DEF Weather!Load, Weather!Loaded
<1>2. apply[r].target \in Weather!Slots
  BY <1>1 DEF WeatherInv, WeatherShape
<1>3. running' \in [slot : Weather!Slots \cup {"none"}, weather : Nat]
      /\ running'.slot = apply[r].target
  BY <1>1, <1>2 DEF WeatherInv, WeatherShape
<1>4. WeatherShape'
  BY <1>1, <1>3, MovedApply DEF WeatherInv, WeatherShape
<1>5. ASSUME "overlap" \notin spoilt PROVE OneApply' /\ GeneratedIsThere'
  BY <1>1, <1>5, MovedApply DEF WeatherInv, OneApply, GeneratedIsThere
<1>6. ASSUME spoilt = {} PROVE InactiveTarget'
  <2>1. \A s \in Applies \ {r} : apply'[s].at = "idle"
    BY <1>1, <1>6, MovedApply DEF WeatherInv, OneApply
  <2>2. apply[r].target \in Swappable
    BY <1>1, <1>6 DEF WeatherInv, InactiveTarget
  <2>3. apply'[r].at = "success"
    BY <1>1, MovedApply DEF WeatherInv
  <2> QED BY <1>3, <2>1, <2>2, <2>3 DEF InactiveTarget
<1> QED BY <1>1, <1>4, <1>5, <1>6 DEF WeatherInv

LEMMA GeneratorWritesKeeps ==
  ASSUME WeatherInv, NEW r \in Applies, Weather!GeneratorWrites(r)
  PROVE  WeatherInv'
<1>1. /\ apply[r].at \in {"generating", "orphan"}
      /\ weather' = [weather EXCEPT ![apply[r].target] = apply[r].apply]
      /\ dto' = apply[r].target /\ UNCHANGED <<running, applies, spoilt>>
      /\ apply' = [apply EXCEPT ![r] = IF apply[r].at = "orphan" THEN Weather!Idle
                                       ELSE [@ EXCEPT !.at = "generated"]]
  BY DEF Weather!GeneratorWrites, Weather!IsWriting
<1>2. apply[r].target \in Weather!Slots /\ apply[r] \in Generation
      /\ apply \in [Applies -> Generation] /\ weather \in [Weather!Slots -> Nat]
  BY <1>1 DEF WeatherInv, WeatherShape
<1> DEFINE new == IF apply[r].at = "orphan" THEN Weather!Idle
                  ELSE [apply[r] EXCEPT !.at = "generated"]
<1>3. /\ new \in Generation /\ new.at \in {"idle", "generated"}
      /\ new.at = "idle" => new = Weather!Idle
      /\ new.at = "generated" => new.target = apply[r].target /\ new.apply = apply[r].apply
  BY <1>2, IdleApply DEF Generation
<1>4. apply' = [apply EXCEPT ![r] = new]
  BY <1>1
<1> HIDE DEF new
<1>5. /\ apply' \in [Applies -> Generation] /\ apply'[r] = new
      /\ \A s \in Applies \ {r} : apply'[s] = apply[s]
  BY <1>2, <1>3, <1>4
<1>6. weather' \in [Weather!Slots -> Nat] /\ weather'[apply[r].target] = apply[r].apply
  BY <1>1, <1>2 DEF Generation
<1>7. WeatherShape'
  BY <1>1, <1>2, <1>3, <1>5, <1>6 DEF WeatherInv, WeatherShape
<1>8. ASSUME "overlap" \notin spoilt PROVE OneApply' /\ GeneratedIsThere'
  <2>1. \A s \in Applies \ {r} : apply'[s].at = "idle"
    BY <1>1, <1>5, <1>8 DEF WeatherInv, OneApply
  <2> QED BY <1>3, <1>5, <1>6, <2>1 DEF OneApply, GeneratedIsThere
<1>9. ASSUME spoilt = {} PROVE InactiveTarget'
  <2>1. InactiveTarget
    BY <1>9 DEF WeatherInv
  <2> QED BY <1>1, <1>3, <1>5, <2>1 DEF InactiveTarget
<1> QED BY <1>1, <1>7, <1>8, <1>9 DEF WeatherInv

LEMMA SwitchKeeps ==
  ASSUME WeatherInv, NEW slot \in {"A", "B", "none"}, Weather!Switch(slot)
  PROVE  WeatherInv'
<1>1. /\ running' = [slot |-> slot, weather |-> IF slot = "none" THEN 0 ELSE weather[slot]]
      /\ spoilt' = spoilt \cup {"switch"} /\ UNCHANGED <<weather, dto, applies, apply>>
  BY DEF Weather!Switch
<1>2. running' \in [slot : Weather!Slots \cup {"none"}, weather : Nat]
  BY <1>1 DEF WeatherInv, WeatherShape, Weather!Slots
<1>3. WeatherShape'
  BY <1>1, <1>2 DEF WeatherInv, WeatherShape
<1> QED BY <1>1, <1>3 DEF WeatherInv, OneApply, GeneratedIsThere

LEMMA WeatherStep == WeatherInv /\ [Weather!Next]_weatherVars => WeatherInv'
<1> SUFFICES ASSUME WeatherInv, [Weather!Next]_weatherVars PROVE WeatherInv'
  OBVIOUS
<1>1. CASE UNCHANGED weatherVars
  BY <1>1 DEF weatherVars, WeatherInv, WeatherShape, OneApply, GeneratedIsThere, InactiveTarget
<1>2. CASE Weather!Next
  BY <1>2, MovedKeeps, EndedKeeps, ResolveKeeps, WeatherLoadKeeps, GeneratorWritesKeeps, SwitchKeeps
     DEF Weather!Next
<1> QED BY <1>1, <1>2

LEMMA InactiveIsWritten == WeatherInv => Weather!WritesInactive
BY DEF WeatherInv, InactiveTarget, Weather!WritesInactive, Weather!IsWriting

\* Only Load reports a success, of what the file it loads holds.
LEMMA SuccessLoads ==
  ASSUME WeatherInv, [Weather!Next]_weatherVars, NEW r \in Applies,
         apply[r].at # "success", apply'[r].at = "success"
  PROVE  running'.weather = apply[r].apply \/ "overlap" \in spoilt
<1>1. apply \in [Applies -> Generation] /\ apply' # apply
  BY DEF WeatherInv, WeatherShape
<1>2. Weather!Load(r)
  <2>1. ASSUME NEW s \in Applies,
               \/ Weather!Resolve(s) \/ Weather!StartGenerator(s) \/ Weather!Timeout(s)
               \/ Weather!LoadFails(s) \/ Weather!Respond(s) \/ Weather!GeneratorWrites(s)
               \/ Weather!GeneratorFails(s)
        PROVE  FALSE
    <3>1. /\ \A q \in Applies \ {s} : apply'[q] = apply[q]
          /\ apply'[s].at # "success"
      BY <1>1, <2>1, IdleApply DEF Generation, Weather!Resolve, Weather!StartGenerator,
         Weather!Timeout, Weather!LoadFails, Weather!Respond, Weather!GeneratorWrites,
         Weather!GeneratorFails
    <3> QED BY <3>1
  <2>2. ASSUME NEW s \in Applies, Weather!Load(s) PROVE s = r
    BY <1>1, <2>2 DEF Weather!Load
  <2> QED BY <1>1, <2>1, <2>2 DEF Weather!Next, weatherVars, Weather!Switch
<1>3. apply[r].at = "generated" /\ running'.weather = weather[apply[r].target]
  BY <1>2 DEF Weather!Load, Weather!Loaded
<1> QED BY <1>3 DEF WeatherInv, GeneratedIsThere

\* For any number of applies at a time: no weather generator writes the loaded
\* mission file as long as nothing spoils the swap, and an apply that reports
\* success has made DCS load its own weather (weather_apply in system.rs).
THEOREM WeatherIsSwapped == FilesSpec => WeatherIsSafe
<1>1. FilesInit => WeatherInv
  BY WeatherInit DEF FilesInit
<1>2. [FilesNext]_filesVars => [Weather!Next]_weatherVars
  BY DEF FilesNext, Others, filesVars
<1>3. WeatherInv /\ [FilesNext]_filesVars => WeatherInv'
  BY <1>2, WeatherStep
<1>4. FilesSpec => []WeatherInv
  BY <1>1, <1>3, PTL DEF FilesSpec, filesVars
<1>5. WeatherInv => Weather!WritesInactive
  BY InactiveIsWritten
<1>6. WeatherInv /\ [FilesNext]_filesVars =>
        [\A r \in Applies : apply[r].at # "success" /\ apply'[r].at = "success"
           => running'.weather = apply[r].apply \/ "overlap" \in spoilt]_(Weather!vars)
  BY <1>2, SuccessLoads
<1>7. FilesSpec => [][Weather!WritesInactive']_weatherVars
  BY <1>4, <1>5, PTL DEF FilesSpec, filesVars
<1>8. FilesSpec => Weather!SuccessIsLoaded
  BY <1>4, <1>6, PTL DEF FilesSpec, filesVars, Weather!SuccessIsLoaded
<1> QED BY <1>7, <1>8 DEF WeatherIsSafe

-----------------------------------------------------------------------------
(* The SRS form. A page holds no settings or all of them, with the values  *)
(* that the file's texts and the fields of the form can have, and a save   *)
(* that is under way was sent all of them.                                 *)

SrsTexts == {"True", "true", "false", "1", "01", "2", "null", "", "red"}
SrsValues ==
  {Srs!Value("boolean", "true"), Srs!Value("boolean", "false"), Srs!Value("number", "1"),
   Srs!Value("number", "2"), Srs!NaN}
    \cup {Srs!Value("string", w) : w \in {"", "red", "2", "true", "null"}}
SrsForms == [Srs!Settings -> SrsValues]

SrsInv ==
  /\ serverEdits \in 0 .. MaxEdits
  /\ server \in [Srs!Settings -> SrsTexts]
  /\ serverForm \in [Forms -> SrsForms \cup {Srs!Unloaded}]
  /\ serverPost \in [Forms -> [at : {"none", "sent", "read", "written"},
                               sent : SrsForms \cup {Srs!Unloaded},
                               read : [Srs!Settings -> SrsTexts]]]
  /\ \A p \in Forms : serverPost[p].at # "none" => serverPost[p].sent \in SrsForms

\* What a setting reads as, what can be typed over it, and what is written for
\* that stay among these values and texts.
LEMMA SrsConversions ==
  /\ \A text \in SrsTexts : Srs!Parsed(text) \in SrsValues
  /\ \A value \in SrsValues : Srs!Typed(value) \subseteq SrsValues
  /\ \A value \in SrsValues : Srs!Printed(value) \in SrsTexts
  /\ \A w : Srs!Value("string", w) # Srs!NaN
<1>1. \A is, v : Srs!Value(is, v).is = is /\ Srs!Value(is, v).v = v
  BY DEF Srs!Value
<1>2. \A w : Srs!Value("string", w) # Srs!NaN
  BY <1>1 DEF Srs!NaN
<1>3. ASSUME NEW text \in SrsTexts PROVE Srs!Parsed(text) \in SrsValues
  BY DEF SrsTexts, SrsValues, Srs!Parsed
<1>4. ASSUME NEW value \in SrsValues PROVE Srs!Printed(value) \in SrsTexts
  <2>1. value.v \in {"", "red", "1", "2", "true", "false", "null"}
    <3>1. CASE \E w \in {"", "red", "2", "true", "null"} : value = Srs!Value("string", w)
      <4>1. PICK w \in {"", "red", "2", "true", "null"} : value = Srs!Value("string", w)
        BY <3>1
      <4>2. value.v = w
        BY ONLY <1>1, <4>1
      <4> QED BY <4>1, <4>2
    <3>2. CASE value \in {Srs!Value("boolean", "true"), Srs!Value("boolean", "false"),
                          Srs!Value("number", "1"), Srs!Value("number", "2"), Srs!NaN}
      <4>1. Srs!NaN.v = "null"
        BY <1>1 DEF Srs!NaN
      <4>2. CASE value = Srs!NaN
        BY <4>1, <4>2
      <4>3. CASE value = Srs!Value("boolean", "true") \/ value = Srs!Value("boolean", "false")
        <5>1. value.v \in {"true", "false"}
          BY ONLY <1>1, <4>3
        <5> QED BY <5>1
      <4>4. CASE value = Srs!Value("number", "1") \/ value = Srs!Value("number", "2")
        <5>1. value.v \in {"1", "2"}
          BY ONLY <1>1, <4>4
        <5> QED BY <5>1
      <4> QED BY <3>2, <4>2, <4>3, <4>4
    <3> QED BY <3>1, <3>2 DEF SrsValues
  <2> QED BY <2>1 DEF SrsTexts, Srs!Printed
<1>5. ASSUME NEW value \in SrsValues PROVE Srs!Typed(value) \subseteq SrsValues
  BY <1>1 DEF SrsValues, Srs!Typed, Srs!Words
<1> QED BY <1>2, <1>3, <1>4, <1>5

\* A value is read back from its text; as a text only if it does not spell a
\* number or a boolean.
LEMMA SrsReadsBack ==
  ASSUME NEW value \in SrsValues, value # Srs!NaN
  PROVE  LET back == Srs!Parsed(Srs!Printed(value))
         IN back.v = value.v /\ (value.v \notin {"2", "true"} => back = value)
<1>1. \A is, v : Srs!Value(is, v).is = is /\ Srs!Value(is, v).v = v
  BY DEF Srs!Value
<1>2. \A is, v : Srs!Printed(Srs!Value(is, v)) = v
  BY <1>1 DEF Srs!Printed
<1>3. CASE value = Srs!Value("boolean", "true") \/ value = Srs!Value("boolean", "false")
  BY <1>1, <1>2, <1>3 DEF Srs!Parsed
<1>4. CASE value = Srs!Value("number", "1") \/ value = Srs!Value("number", "2")
  BY <1>1, <1>2, <1>4 DEF Srs!Parsed
<1>5. CASE \E w \in {"", "red", "2", "true", "null"} : value = Srs!Value("string", w)
  <2>1. PICK w \in {"", "red", "2", "true", "null"} : value = Srs!Value("string", w)
    BY <1>5
  <2>2. Srs!Printed(value) = w /\ value.v = w
    BY ONLY <1>1, <1>2, <2>1
  <2>3. CASE w = "true"
    BY <1>1, <2>2, <2>3 DEF Srs!Parsed
  <2>4. CASE w = "2"
    BY <1>1, <2>2, <2>4 DEF Srs!Parsed
  <2>5. CASE w \in {"", "red", "null"}
    <3>1. Srs!Parsed(w) = value
      BY <2>1, <2>5 DEF Srs!Parsed
    <3> QED BY <2>2, <3>1
  <2> QED BY <2>3, <2>4, <2>5
<1> QED BY <1>3, <1>4, <1>5 DEF SrsValues

LEMMA SrsBasics ==
  /\ Srs!SampleFile \in [Srs!Settings -> SrsTexts]
  /\ Srs!Unloaded \notin SrsForms /\ DOMAIN Srs!Unloaded = {} /\ Srs!Settings # {}
  /\ \A f \in SrsForms : DOMAIN f = Srs!Settings
<1>1. Srs!Settings # {} /\ DOMAIN Srs!Unloaded = {}
  BY DEF Srs!Settings, Srs!Unloaded
<1>2. Srs!SampleFile \in [Srs!Settings -> SrsTexts]
  BY DEF Srs!SampleFile, SrsTexts
<1> QED BY <1>1, <1>2 DEF SrsForms

LEMMA SrsInit == Srs!Init => SrsInv
<1> SUFFICES ASSUME Srs!Init PROVE SrsInv
  OBVIOUS
<1>1. /\ serverEdits \in 0 .. MaxEdits /\ server = Srs!SampleFile
      /\ serverForm = [p \in Forms |-> Srs!Unloaded] /\ serverPost = [p \in Forms |-> Srs!NoPost]
  BY FormsBounds DEF Srs!Init, Srs!EditsAssumption
<1> QED BY <1>1, SrsBasics DEF SrsInv, Srs!NoPost

LEMMA SrsOpenKeeps == ASSUME SrsInv, NEW p \in Forms, Srs!Open(p) PROVE SrsInv'
<1> DEFINE shown == [s \in Srs!Settings |-> Srs!Parsed(server[s])]
<1>1. /\ serverForm' = [serverForm EXCEPT ![p] = shown]
      /\ serverPost' = [serverPost EXCEPT ![p] = Srs!NoPost] /\ UNCHANGED <<server, serverEdits>>
  BY DEF Srs!Open
<1>2. shown \in SrsForms
  BY SrsConversions DEF SrsInv, SrsForms
<1> HIDE DEF shown
<1>3. Srs!NoPost \in [at : {"none", "sent", "read", "written"}, sent : SrsForms \cup {Srs!Unloaded},
                      read : [Srs!Settings -> SrsTexts]] /\ Srs!NoPost.at = "none"
  BY SrsBasics DEF Srs!NoPost
<1>4. serverForm' \in [Forms -> SrsForms \cup {Srs!Unloaded}]
  BY <1>1, <1>2 DEF SrsInv
<1> QED BY <1>1, <1>3, <1>4 DEF SrsInv

LEMMA SrsEditKeeps == ASSUME SrsInv, NEW p \in Forms, Srs!Edit(p) PROVE SrsInv'
<1>1. PICK s, value :
        /\ s \in DOMAIN serverForm[p]
        /\ value \in Srs!Typed(serverForm[p][s])
        /\ serverEdits < MaxEdits /\ serverEdits' = serverEdits + 1
        /\ serverForm' = [serverForm EXCEPT ![p][s] = value] /\ UNCHANGED <<server, serverPost>>
  BY DEF Srs!Edit
<1>2. serverForm[p] \in SrsForms /\ s \in Srs!Settings
  BY <1>1, SrsBasics DEF SrsInv
<1>3. value \in SrsValues
  BY <1>1, <1>2, SrsConversions DEF SrsForms
<1> DEFINE new == [serverForm[p] EXCEPT ![s] = value]
<1>4. new \in SrsForms /\ serverForm' = [serverForm EXCEPT ![p] = new]
  BY <1>1, <1>2, <1>3 DEF SrsForms
<1> HIDE DEF new
<1>5. serverForm' \in [Forms -> SrsForms \cup {Srs!Unloaded}]
  BY <1>4 DEF SrsInv
<1>6. serverEdits' \in 0 .. MaxEdits
  BY <1>1, FormsBounds DEF SrsInv, Srs!EditsAssumption
<1> QED BY <1>1, <1>5, <1>6 DEF SrsInv

LEMMA SrsPostKeeps ==
  ASSUME SrsInv, NEW p \in Forms, Srs!Save(p) \/ Srs!Read(p) \/ Srs!Answered(p)
  PROVE  SrsInv'
<1> DEFINE Posts == [at : {"none", "sent", "read", "written"}, sent : SrsForms \cup {Srs!Unloaded},
                     read : [Srs!Settings -> SrsTexts]]
<1>1. serverPost \in [Forms -> Posts] /\ UNCHANGED <<server, serverForm, serverEdits>>
  BY DEF SrsInv, Srs!Save, Srs!Read, Srs!Answered
<1>2. PICK new \in Posts : /\ serverPost' = [serverPost EXCEPT ![p] = new]
                           /\ new.at # "none" => new.sent \in SrsForms
  <2>1. CASE Srs!Save(p)
    <3> DEFINE new == [serverPost[p] EXCEPT !.at = "sent", !.sent = serverForm[p]]
    <3>1. serverForm[p] \in SrsForms
      BY <2>1 DEF Srs!Save, SrsInv
    <3>2. new \in Posts /\ new.sent \in SrsForms
      BY <1>1, <3>1
    <3> QED BY <2>1, <3>2 DEF Srs!Save
  <2>2. CASE Srs!Read(p)
    <3> DEFINE new == [serverPost[p] EXCEPT !.at = "read", !.read = server]
    <3>1. server \in [Srs!Settings -> SrsTexts] /\ serverPost[p].sent \in SrsForms
      BY <2>2 DEF Srs!Read, SrsInv
    <3>2. new \in Posts /\ new.sent \in SrsForms
      BY <1>1, <3>1
    <3>3. serverPost' = [serverPost EXCEPT ![p] = new]
      BY <2>2 DEF Srs!Read
    <3> HIDE DEF new, Posts
    <3> QED BY <3>2, <3>3
  <2>3. CASE Srs!Answered(p)
    <3>1. Srs!NoPost \in Posts /\ Srs!NoPost.at = "none"
      BY SrsBasics DEF Srs!NoPost
    <3> QED BY <2>3, <3>1 DEF Srs!Answered
  <2> QED BY <2>1, <2>2, <2>3
<1> QED BY <1>1, <1>2 DEF SrsInv

\* The file that a save writes, from the settings it was sent.
LEMMA SrsWritten ==
  ASSUME SrsInv, NEW p \in Forms, Srs!Write(p)
  PROVE  /\ serverPost[p].sent \in SrsForms /\ UNCHANGED <<serverForm, serverEdits>>
         /\ serverPost' = [serverPost EXCEPT ![p].at = "written"]
         /\ server' = [s \in Srs!Settings |-> Srs!Printed(serverPost[p].sent[s])]
         /\ server' \in [Srs!Settings -> SrsTexts]
<1>1. serverPost[p].sent \in SrsForms
  BY DEF Srs!Write, SrsInv
<1>2. server' = [s \in Srs!Settings |-> Srs!Printed(serverPost[p].sent[s])]
  BY <1>1, SrsBasics DEF Srs!Write, Srs!PostedFor
<1> QED BY <1>1, <1>2, SrsConversions DEF Srs!Write, SrsForms

LEMMA SrsWriteKeeps == ASSUME SrsInv, NEW p \in Forms, Srs!Write(p) PROVE SrsInv'
<1> DEFINE new == [serverPost[p] EXCEPT !.at = "written"]
<1>1. /\ new \in [at : {"none", "sent", "read", "written"}, sent : SrsForms \cup {Srs!Unloaded},
                  read : [Srs!Settings -> SrsTexts]]
      /\ new.sent \in SrsForms
  <2>1. serverPost[p].sent \in SrsForms
    BY SrsWritten
  <2>2. serverPost[p] \in [at : {"none", "sent", "read", "written"},
                           sent : SrsForms \cup {Srs!Unloaded},
                           read : [Srs!Settings -> SrsTexts]]
    BY DEF SrsInv
  <2> QED BY ONLY <2>1, <2>2 DEF new
<1>2. serverPost' = [serverPost EXCEPT ![p] = new]
  BY SrsWritten DEF new
<1> HIDE DEF new
<1> QED BY <1>1, <1>2, SrsWritten DEF SrsInv

LEMMA SrsStep == SrsInv /\ [Srs!Next]_serverVars => SrsInv'
<1> SUFFICES ASSUME SrsInv, [Srs!Next]_serverVars PROVE SrsInv'
  OBVIOUS
<1>1. CASE UNCHANGED serverVars
  BY <1>1 DEF serverVars, SrsInv
<1>2. CASE Srs!Next
  BY <1>2, SrsOpenKeeps, SrsEditKeeps, SrsPostKeeps, SrsWriteKeeps DEF Srs!Next
<1> QED BY <1>1, <1>2

LEMMA SrsSaved ==
  ASSUME SrsInv, [Srs!Next]_serverVars, NEW p \in Forms,
         serverPost[p].at = "read", serverPost'[p].at = "written", NEW s \in Srs!Settings,
         serverPost[p].sent[s] # Srs!NaN
  PROVE  LET sent == serverPost[p].sent[s]
         IN /\ Srs!Parsed(server'[s]).v = sent.v
            /\ sent.v \notin {"2", "true"} => Srs!Parsed(server'[s]) = sent
<1>1. Srs!Write(p)
  <2>1. PICK q \in Forms : \/ Srs!Open(q) \/ Srs!Edit(q) \/ Srs!Save(q) \/ Srs!Read(q)
                           \/ Srs!Write(q) \/ Srs!Answered(q)
    BY DEF Srs!Next, serverVars
  <2>2. Srs!NoPost.at = "none" /\ serverPost'[p] # serverPost[p]
    BY DEF Srs!NoPost
  <2>3. serverPost \in [Forms -> [at : {"none", "sent", "read", "written"},
                                  sent : SrsForms \cup {Srs!Unloaded},
                                  read : [Srs!Settings -> SrsTexts]]]
    BY DEF SrsInv
  <2> QED BY <2>1, <2>2, <2>3 DEF Srs!Open, Srs!Edit, Srs!Save, Srs!Read, Srs!Write, Srs!Answered
<1>2. serverPost[p].sent \in SrsForms /\ server'[s] = Srs!Printed(serverPost[p].sent[s])
  BY <1>1, SrsWritten
<1>3. serverPost[p].sent[s] \in SrsValues
  BY <1>2 DEF SrsForms
<1> QED BY <1>2, <1>3, SrsReadsBack

LEMMA SrsInvariance == FilesSpec => []SrsInv
<1>1. FilesInit => SrsInv
  BY SrsInit DEF FilesInit
<1>2. SrsInv /\ [FilesNext]_filesVars => SrsInv'
  <2>1. [FilesNext]_filesVars => [Srs!Next]_serverVars
    BY DEF FilesNext, Others, filesVars
  <2> QED BY <2>1, SrsStep
<1> QED BY <1>1, <1>2, PTL DEF FilesSpec, filesVars

\* For any number of browsers: what the SRS form saved of the settings that are
\* filled in is what it reads back, each under its own section, however saves
\* interleave (post_settings and get_settings in srs.rs).
THEOREM SettingsReadBack == FilesSpec => Srs!SavedIsReadBack
<1>1. SrsInv /\ [FilesNext]_filesVars =>
        [\A p \in Forms : serverPost[p].at = "read" /\ serverPost'[p].at = "written" =>
           \A s \in Srs!Settings : LET sent == serverPost[p].sent[s] IN
             sent # Srs!NaN => /\ Srs!Parsed(server'[s]).v = sent.v
                               /\ sent.v \notin {"2", "true"} => Srs!Parsed(server'[s]) = sent
        ]_(Srs!vars)
  <2>1. [FilesNext]_filesVars => [Srs!Next]_serverVars
    BY DEF FilesNext, Others, filesVars
  <2> QED BY <2>1, SrsSaved
<1> QED BY <1>1, SrsInvariance, PTL DEF FilesSpec, filesVars, Srs!SavedIsReadBack

-----------------------------------------------------------------------------
(* Foothold's form. Which fields a form has does not matter yet.           *)

IsPage(x) ==
  /\ DOMAIN x = {"config", "original", "said"}
  /\ x.said \in {"none", "saved", "error"}
IsSave(x) ==
  /\ DOMAIN x = {"at", "config", "updates", "read"}
  /\ x.at \in {"none", "sent", "read", "written"}

CampaignInv ==
  /\ campaignEdits \in 0 .. MaxEdits
  /\ DOMAIN campaignForm = Forms /\ campaignForm = [p \in Forms |-> campaignForm[p]]
  /\ DOMAIN save = Forms /\ save = [p \in Forms |-> save[p]]
  /\ \A p \in Forms : IsPage(campaignForm[p]) /\ IsSave(save[p])

\* A step of one page, which leaves it a page and its request a request.
LEMMA CampaignUpdate ==
  ASSUME CampaignInv, NEW p \in Forms, NEW page, NEW post, IsPage(page), IsSave(post),
         campaignForm' = [campaignForm EXCEPT ![p] = page], save' = [save EXCEPT ![p] = post],
         campaignEdits' \in 0 .. MaxEdits
  PROVE  CampaignInv'
BY DEF CampaignInv

LEMMA CampaignUnchanged ==
  ASSUME CampaignInv, NEW p \in Forms
  PROVE  /\ campaignForm = [campaignForm EXCEPT ![p] = campaignForm[p]]
         /\ save = [save EXCEPT ![p] = save[p]]
BY DEF CampaignInv

LEMMA CampaignInit == Foothold!Init => CampaignInv
<1> SUFFICES ASSUME Foothold!Init PROVE CampaignInv
  OBVIOUS
<1>1. IsPage(Foothold!Unloaded) /\ IsSave(Foothold!NoSave)
  BY DEF IsPage, IsSave, Foothold!Unloaded, Foothold!NoSave
<1>2. campaignEdits \in 0 .. MaxEdits
  BY FormsBounds DEF Foothold!Init, Foothold!BoundsAssumption
<1> QED BY <1>1, <1>2 DEF Foothold!Init, CampaignInv

\* What each step of a page makes of it and of its request.
LEMMA CampaignSteps ==
  ASSUME CampaignInv, NEW p \in Forms,
         \/ Foothold!Open(p) \/ Foothold!Type(p) \/ Foothold!RemoveRow(p) \/ Foothold!AddRow(p)
         \/ Foothold!Save(p) \/ Foothold!Read(p) \/ Foothold!Write(p) \/ Foothold!Saved(p)
         \/ Foothold!SaveFails(p) \/ Foothold!Fade(p)
  PROVE  /\ campaignEdits' \in 0 .. MaxEdits
         /\ \E page, post : /\ IsPage(page) /\ IsSave(post)
                            /\ campaignForm' = [campaignForm EXCEPT ![p] = page]
                            /\ save' = [save EXCEPT ![p] = post]
                            /\ page.said = "saved" /\ campaignForm[p].said # "saved" =>
                                 /\ page.config = campaignForm[p].config
                                 /\ page.original = save[p].config
<1> DEFINE Step(page, post) ==
      /\ IsPage(page) /\ IsSave(post)
      /\ campaignForm' = [campaignForm EXCEPT ![p] = page] /\ save' = [save EXCEPT ![p] = post]
      /\ page.said = "saved" /\ campaignForm[p].said # "saved" =>
           page.config = campaignForm[p].config /\ page.original = save[p].config
<1>1. /\ IsPage(campaignForm[p]) /\ IsSave(save[p])
      /\ campaignForm[p].said \in {"none", "saved", "error"}
      /\ campaignEdits \in 0 .. MaxEdits /\ MaxEdits \in Nat
  BY FormsBounds DEF CampaignInv, IsPage, IsSave, Foothold!BoundsAssumption
<1>2. CASE Foothold!Open(p)
  <2> DEFINE page == IF Foothold!Readable(campaign)
                     THEN [config |-> Foothold!Values(campaign),
                           original |-> Foothold!Values(campaign), said |-> "none"]
                     ELSE [Foothold!Unloaded EXCEPT !.said = "error"]
  <2>1. IsPage(page) /\ page.said # "saved" /\ IsSave(Foothold!NoSave)
    BY DEF IsPage, IsSave, Foothold!Unloaded, Foothold!NoSave
  <2>2. /\ campaignForm' = [campaignForm EXCEPT ![p] = page]
        /\ save' = [save EXCEPT ![p] = Foothold!NoSave] /\ campaignEdits' = campaignEdits
    BY <1>2 DEF Foothold!Open
  <2> HIDE DEF page
  <2>3. Step(page, Foothold!NoSave)
    BY <2>1, <2>2
  <2> QED BY <1>1, <2>2, <2>3
<1>3. CASE Foothold!Type(p) \/ Foothold!RemoveRow(p) \/ Foothold!AddRow(p)
  <2>1. PICK key, v : Foothold!Change(p, key, v)
    BY <1>3 DEF Foothold!Type, Foothold!RemoveRow, Foothold!AddRow
  <2> DEFINE config == Foothold!Put(campaignForm[p].config, key, v)
             page == [campaignForm[p] EXCEPT !.config = config]
  <2>2. /\ campaignForm' = [campaignForm EXCEPT ![p] = page] /\ save' = save
        /\ campaignEdits < MaxEdits /\ campaignEdits' = campaignEdits + 1
    BY <2>1 DEF Foothold!Change
  <2> HIDE DEF config
  <2>3. IsPage(page) /\ page.said = campaignForm[p].said
    BY <1>1 DEF IsPage
  <2> HIDE DEF page
  <2>4. Step(page, save[p])
    BY <1>1, <2>2, <2>3, CampaignUnchanged
  <2>5. campaignEdits' \in 0 .. MaxEdits
    BY <1>1, <2>2
  <2> QED BY <2>4, <2>5
<1>4. CASE Foothold!Save(p)
  <2> DEFINE updates == [k \in Foothold!Modified(p) |-> Foothold!OnWire(campaignForm[p].config[k])]
             post == [at |-> "sent", config |-> campaignForm[p].config, read |-> <<>>,
                      updates |-> updates]
             page == [campaignForm[p] EXCEPT !.said = "none"]
  <2>1. /\ campaignForm' = [campaignForm EXCEPT ![p] = page] /\ save' = [save EXCEPT ![p] = post]
        /\ campaignEdits' = campaignEdits
    BY <1>4 DEF Foothold!Save
  <2> HIDE DEF updates
  <2>2. IsPage(page) /\ page.said = "none" /\ IsSave(post)
    BY <1>1 DEF IsPage, IsSave
  <2> HIDE DEF page, post
  <2>3. Step(page, post)
    BY <2>1, <2>2
  <2> QED BY <1>1, <2>1, <2>3
<1>5. CASE Foothold!Read(p)
  <2> DEFINE post == [save[p] EXCEPT !.at = "read", !.read = campaign]
  <2>1. /\ campaignForm' = campaignForm /\ save' = [save EXCEPT ![p] = post]
        /\ campaignEdits' = campaignEdits
    BY <1>5 DEF Foothold!Read
  <2>2. IsSave(post)
    BY <1>1 DEF IsSave
  <2> HIDE DEF post
  <2>3. Step(campaignForm[p], post)
    BY <1>1, <2>1, <2>2, CampaignUnchanged
  <2> QED BY <1>1, <2>1, <2>3
<1>6. CASE Foothold!Write(p)
  <2> DEFINE post == [save[p] EXCEPT !.at = "written"]
  <2>1. /\ campaignForm' = campaignForm /\ save' = [save EXCEPT ![p] = post]
        /\ campaignEdits' = campaignEdits
    BY <1>6 DEF Foothold!Write
  <2>2. IsSave(post)
    BY <1>1 DEF IsSave
  <2> HIDE DEF post
  <2>3. Step(campaignForm[p], post)
    BY <1>1, <2>1, <2>2, CampaignUnchanged
  <2> QED BY <1>1, <2>1, <2>3
<1>7. CASE Foothold!Saved(p)
  <2> DEFINE page == [campaignForm[p] EXCEPT !.original = save[p].config, !.said = "saved"]
  <2>1. /\ campaignForm' = [campaignForm EXCEPT ![p] = page]
        /\ save' = [save EXCEPT ![p] = Foothold!NoSave] /\ campaignEdits' = campaignEdits
    BY <1>7 DEF Foothold!Saved, Foothold!SavedIs
  <2>2. IsPage(page) /\ page.config = campaignForm[p].config /\ page.original = save[p].config
    BY <1>1 DEF IsPage
  <2>3. IsSave(Foothold!NoSave)
    BY DEF IsSave, Foothold!NoSave
  <2> HIDE DEF page
  <2>4. Step(page, Foothold!NoSave)
    BY <2>1, <2>2, <2>3
  <2> QED BY <1>1, <2>1, <2>4
<1>8. CASE Foothold!SaveFails(p)
  <2> DEFINE page == [campaignForm[p] EXCEPT !.said = "error"]
  <2>1. /\ campaignForm' = [campaignForm EXCEPT ![p] = page]
        /\ save' = [save EXCEPT ![p] = Foothold!NoSave] /\ campaignEdits' = campaignEdits
    BY <1>8 DEF Foothold!SaveFails
  <2>2. IsPage(page) /\ page.said = "error"
    BY <1>1 DEF IsPage
  <2>3. IsSave(Foothold!NoSave)
    BY DEF IsSave, Foothold!NoSave
  <2> HIDE DEF page
  <2>4. Step(page, Foothold!NoSave)
    BY <2>1, <2>2, <2>3
  <2> QED BY <1>1, <2>1, <2>4
<1>9. CASE Foothold!Fade(p)
  <2> DEFINE page == [campaignForm[p] EXCEPT !.said = "none"]
  <2>1. /\ campaignForm' = [campaignForm EXCEPT ![p] = page]
        /\ save' = save /\ campaignEdits' = campaignEdits
    BY <1>9 DEF Foothold!Fade
  <2>2. IsPage(page) /\ page.said = "none"
    BY <1>1 DEF IsPage
  <2> HIDE DEF page
  <2>3. Step(page, save[p])
    BY <1>1, <2>1, <2>2, CampaignUnchanged
  <2> QED BY <1>1, <2>1, <2>3
<1> QED BY <1>2, <1>3, <1>4, <1>5, <1>6, <1>7, <1>8, <1>9

LEMMA CampaignStep == CampaignInv /\ [Foothold!Next]_campaignVars => CampaignInv'
<1> SUFFICES ASSUME CampaignInv, [Foothold!Next]_campaignVars PROVE CampaignInv'
  OBVIOUS
<1>1. CASE UNCHANGED campaignVars
  BY <1>1 DEF campaignVars, CampaignInv
<1>2. CASE Foothold!Next
  <2>1. PICK p \in Forms :
          \/ Foothold!Open(p) \/ Foothold!Type(p) \/ Foothold!RemoveRow(p) \/ Foothold!AddRow(p)
          \/ Foothold!Save(p) \/ Foothold!Read(p) \/ Foothold!Write(p) \/ Foothold!Saved(p)
          \/ Foothold!SaveFails(p) \/ Foothold!Fade(p)
    BY <1>2 DEF Foothold!Next
  <2> QED BY <2>1, CampaignSteps, CampaignUpdate
<1> QED BY <1>1, <1>2

\* Two forms that send a key differently are told apart.
LEMMA JsonDiffers ==
  ASSUME NEW a, NEW b, NEW k \in DOMAIN a,
         k \in DOMAIN b => Foothold!OnWire(a[k]) # Foothold!OnWire(b[k])
  PROVE  Foothold!Json(a) # Foothold!Json(b)
<1> SUFFICES ASSUME Foothold!Json(a) = Foothold!Json(b) PROVE FALSE
  OBVIOUS
<1>1. DOMAIN Foothold!Json(a) = DOMAIN a /\ DOMAIN Foothold!Json(b) = DOMAIN b
  BY DEF Foothold!Json
<1>2. k \in DOMAIN b
  BY <1>1
<1> QED BY <1>2 DEF Foothold!Json

LEMMA EditsOutlive ==
  ASSUME CampaignInv, [Foothold!Next]_campaignVars, NEW p \in Forms,
         save[p].at = "written", campaignForm'[p].said = "saved", campaignForm[p].said # "saved",
         NEW k \in DOMAIN campaignForm[p].config,
         Foothold!OnWire(campaignForm[p].config[k])
           # (IF k \in DOMAIN save[p].config THEN Foothold!OnWire(save[p].config[k])
              ELSE Foothold!Removed)
  PROVE  Foothold!Unsaved(p)'
<1>1. PICK q \in Forms :
        \/ Foothold!Open(q) \/ Foothold!Type(q) \/ Foothold!RemoveRow(q) \/ Foothold!AddRow(q)
        \/ Foothold!Save(q) \/ Foothold!Read(q) \/ Foothold!Write(q) \/ Foothold!Saved(q)
        \/ Foothold!SaveFails(q) \/ Foothold!Fade(q)
  BY DEF Foothold!Next, campaignVars
<1>2. PICK page : /\ campaignForm' = [campaignForm EXCEPT ![q] = page]
                  /\ page.said = "saved" /\ campaignForm[q].said # "saved" =>
                       page.config = campaignForm[q].config /\ page.original = save[q].config
  BY <1>1, CampaignSteps
<1>3. p = q /\ campaignForm'[p] = page
  BY <1>2 DEF CampaignInv
<1>4. campaignForm'[p].config = campaignForm[p].config /\ campaignForm'[p].original = save[p].config
  BY <1>2, <1>3
<1> QED BY <1>4, JsonDiffers DEF Foothold!Unsaved

LEMMA CampaignInvariance == FilesSpec => []CampaignInv
<1>1. FilesInit => CampaignInv
  BY CampaignInit DEF FilesInit
<1>2. CampaignInv /\ [FilesNext]_filesVars => CampaignInv'
  <2>1. [FilesNext]_filesVars => [Foothold!Next]_campaignVars
    BY DEF FilesNext, Others, filesVars
  <2> QED BY <2>1, CampaignStep
<1> QED BY <1>1, <1>2, PTL DEF FilesSpec, filesVars

\* For any number of browsers and any file: a field of Foothold's form that was
\* edited while its page waited for a save still counts as unsaved when the
\* save has succeeded (handleSave in foothold/config/page.tsx).
THEOREM EditsAreNotForgotten == FilesSpec => Foothold!EditsOutliveTheSave
<1>1. CampaignInv /\ [FilesNext]_filesVars =>
        [\A p \in Forms :
           save[p].at = "written" /\ campaignForm'[p].said = "saved" /\ campaignForm[p].said # "saved"
             => \A k \in DOMAIN campaignForm[p].config :
                  Foothold!OnWire(campaignForm[p].config[k])
                    # (IF k \in DOMAIN save[p].config THEN Foothold!OnWire(save[p].config[k])
                       ELSE Foothold!Removed)
                    => Foothold!Unsaved(p)']_(Foothold!vars)
  <2>1. [FilesNext]_filesVars => [Foothold!Next]_campaignVars
    BY DEF FilesNext, Others, filesVars
  <2> QED BY <2>1, EditsOutlive
<1> QED BY <1>1, CampaignInvariance, PTL DEF FilesSpec, filesVars, Foothold!EditsOutliveTheSave

-----------------------------------------------------------------------------
(* The rest is about Foothold's file: it is read and rewritten line by line. *)

\* The provers cannot be given an induction over a file's lines: a proof by
\* induction is one that looks at the first place where its claim would fail.
LEMMA HasLeast ==
  ASSUME NEW T, T \subseteq Nat, T # {} PROVE \E x \in T : \A y \in T : x <= y
<1>1. PICK R : R = OpToRel(<, Nat)
  OBVIOUS
<1>2. IsWellFoundedOn(R, Nat)
  BY <1>1, NatLessThanWellFounded
<1>3. \A x, y \in Nat : y < x => <<y, x>> \in R
  BY <1>1 DEF OpToRel
<1>4. \E x \in T : \A y \in T : ~ (<<y, x>> \in R)
  BY <1>2, WFMin
<1>5. \A x, y \in Nat : ~(y < x) => x <= y
  OBVIOUS
<1> QED BY <1>3, <1>4, <1>5

\* Keys are names, or names of a table with a name in it.
LEMMA KeyParts ==
  ASSUME NEW a, NEW b
  PROVE  /\ <<>> \o <<a>> = <<a>> /\ <<a>> \o <<b>> = <<a, b>> /\ <<a>> # <<>>
         /\ Foothold!Front(<<a, b>>) = <<a>> /\ Foothold!Front(<<a>>) = <<>>
         /\ Foothold!Last(<<a, b>>) = b /\ Foothold!Last(<<a>>) = a
<1> DEFINE S == {a, b}
<1>1. <<>> \in Seq(S) /\ <<a>> \in Seq(S) /\ <<b>> \in Seq(S) /\ <<a, b>> \in Seq(S)
  OBVIOUS
<1>2. <<>> \o <<a>> = <<a>>
  BY <1>1, ConcatEmptySeq
<1>3. <<a>> \o <<b>> = <<a, b>>
  <2>1. /\ <<a>> \o <<b>> \in Seq(S) /\ Len(<<a>> \o <<b>>) = 2
        /\ (<<a>> \o <<b>>)[1] = a /\ (<<a>> \o <<b>>)[2] = b
    BY <1>1, ConcatProperties
  <2>2. \A i \in 1..2 : (<<a>> \o <<b>>)[i] = <<a, b>>[i]
    BY <2>1
  <2> QED BY <1>1, <2>1, <2>2, SeqEqual
<1>4. Foothold!Front(<<a, b>>) = <<a>>
  <2>1. SubSeq(<<a, b>>, 1, 1) = <<a>>
    <3>1. PICK u : u = SubSeq(<<a, b>>, 1, 1)
      OBVIOUS
    <3>2. \A i \in 1..1 : <<a, b>>[i] \in S
      OBVIOUS
    <3>3. u \in Seq(S) /\ Len(u) = 1 /\ u[1] = a
      BY <3>1, <3>2, SubSeqProperties
    <3>4. \A i \in 1..Len(u) : u[i] = <<a>>[i]
      BY <3>3
    <3> QED BY <1>1, <3>1, <3>3, <3>4, SeqEqual
  <2> QED BY <2>1 DEF Foothold!Front
<1>5. Foothold!Front(<<a>>) = <<>>
  <2>1. SubSeq(<<a>>, 1, 0) = <<>>
    BY <1>1, SubSeqEmpty
  <2> QED BY <2>1 DEF Foothold!Front
<1>6. Foothold!Last(<<a, b>>) = b /\ Foothold!Last(<<a>>) = a
  BY DEF Foothold!Last
<1> QED BY <1>2, <1>3, <1>4, <1>5, <1>6

\* Those with three names are of a table that a dotted name opened.
LEMMA InnerParts ==
  ASSUME NEW a, NEW b, NEW c
  PROVE  /\ <<a, b>> \o <<c>> = <<a, b, c>>
         /\ Foothold!Front(<<a, b, c>>) = <<a, b>> /\ Foothold!Last(<<a, b, c>>) = c
<1> DEFINE S == {a, b, c}
<1>1. <<a, b>> \in Seq(S) /\ <<c>> \in Seq(S) /\ <<a, b, c>> \in Seq(S)
  OBVIOUS
<1>2. <<a, b>> \o <<c>> = <<a, b, c>>
  <2>1. PICK u : u = <<a, b>> \o <<c>>
    OBVIOUS
  <2>2. u \in Seq(S) /\ Len(u) = 3 /\ u[1] = a /\ u[2] = b /\ u[3] = c
    <3>1. PICK s, t : s = <<a, b>> /\ t = <<c>>
      OBVIOUS
    <3>2. /\ s \in Seq(S) /\ t \in Seq(S) /\ Len(s) = 2 /\ Len(t) = 1 /\ u = s \o t
          /\ s[1] = a /\ s[2] = b /\ t[1] = c
      BY <1>1, <2>1, <3>1
    <3> HIDE DEF S
    <3>0. /\ s \o t \in Seq(S) /\ Len(s \o t) = Len(s) + Len(t)
          /\ \A i \in 1..Len(s) + Len(t) : (s \o t)[i] = IF i <= Len(s) THEN s[i] ELSE t[i - Len(s)]
      <4>1. s \in Seq(S) /\ t \in Seq(S)
        BY ONLY <3>2
      <4> QED BY ONLY <4>1, ConcatProperties
    <3>3. /\ u \in Seq(S) /\ Len(u) = Len(s) + Len(t)
          /\ \A i \in 1..Len(u) : u[i] = IF i <= Len(s) THEN s[i] ELSE t[i - Len(s)]
      <4>1. u = s \o t
        BY ONLY <3>2
      <4> QED BY ONLY <3>0, <4>1
    <3>4. Len(u) = 3 /\ 1 \in 1..Len(u) /\ 2 \in 1..Len(u) /\ 3 \in 1..Len(u)
      BY ONLY <3>2, <3>3
    <3>5. u[1] = s[1] /\ u[2] = s[2]
      BY ONLY <3>2, <3>3, <3>4
    <3>6. u[3] = t[3 - Len(s)]
      BY ONLY <3>2, <3>3, <3>4
    <3>7. 3 - Len(s) = 1
      BY ONLY <3>2
    <3> QED BY <3>2, <3>3, <3>4, <3>5, <3>6, <3>7
  <2>3. \A i \in 1..3 : u[i] = <<a, b, c>>[i]
    BY <2>2
  <2> QED BY <1>1, <2>1, <2>2, <2>3, SeqEqual
<1>3. Foothold!Front(<<a, b, c>>) = <<a, b>>
  <2>1. PICK u : u = SubSeq(<<a, b, c>>, 1, 2)
    OBVIOUS
  <2>2. \A i \in 1..2 : <<a, b, c>>[i] \in S
    OBVIOUS
  <2>3. u \in Seq(S) /\ Len(u) = 2 /\ u[1] = a /\ u[2] = b
    BY <2>1, <2>2, SubSeqProperties
  <2>4. \A i \in 1..Len(u) : u[i] = <<a, b>>[i]
    BY <2>3
  <2>5. u = <<a, b>>
    BY <1>1, <2>3, <2>4, SeqEqual
  <2>6. Foothold!Front(<<a, b, c>>) = SubSeq(<<a, b, c>>, 1, 2)
    <3>1. PICK t : t = <<a, b, c>>
      OBVIOUS
    <3>2. Len(t) - 1 = 2
      BY <3>1
    <3>3. Foothold!Front(t) = SubSeq(t, 1, 2)
      BY ONLY <3>2 DEF Foothold!Front
    <3> QED BY ONLY <3>1, <3>3
  <2> QED BY <2>1, <2>5, <2>6
<1>4. Foothold!Last(<<a, b, c>>) = c
  BY DEF Foothold!Last
<1> QED BY <1>2, <1>3, <1>4

-----------------------------------------------------------------------------
(* What the lines of a file do to its reader.                              *)

Began == [path |-> <<>>, values |-> <<>>, after |-> "yes", ok |-> TRUE]
Trace(t, lines) ==
  /\ t = [i \in 0..Len(lines) |-> t[i]] /\ t[0] = Began
  /\ \A i \in 1..Len(lines) : t[i] = Foothold!Reads(t[i - 1], lines[i])

\* The states of a reader, line by line, are those that Loaded goes through.
LEMMA LoadedIs ==
  ASSUME NEW lines, Len(lines) \in Nat, NEW t, Trace(t, lines)
  PROVE  Foothold!Loaded(lines) = t[Len(lines)]
<1> DEFINE n == Len(lines)
           Run(f) == f = [i \in 0..n |-> IF i = 0 THEN Began
                                         ELSE Foothold!Reads(f[i - 1], lines[i])]
           u == CHOOSE f : Run(f)
<1>1. Foothold!Loaded(lines) = u[n]
  BY DEF Foothold!Loaded, Foothold!Through, Began
<1>2. Run(t)
  <2>1. \A i \in 0..n : t[i] = IF i = 0 THEN Began ELSE Foothold!Reads(t[i - 1], lines[i])
    <3> TAKE i \in 0..n
    <3>1. i # 0 => i \in 1..n
      OBVIOUS
    <3> QED BY <3>1 DEF Trace
  <2> QED BY <2>1 DEF Trace
<1>3. Run(u)
  BY <1>2
<1> HIDE DEF Run, u
<1>4. \A i \in 0..n : u[i] = t[i]
  <2> DEFINE T == {i \in 0..n : u[i] # t[i]}
  <2> SUFFICES ASSUME T # {} PROVE FALSE
    OBVIOUS
  <2>1. T \subseteq Nat
    OBVIOUS
  <2>2. PICK m \in T : \A i \in T : m <= i
    BY ONLY <2>1, T # {}, HasLeast
  <2>3. /\ m \in 0..n /\ u[m] # t[m]
        /\ u[m] = (IF m = 0 THEN Began ELSE Foothold!Reads(u[m - 1], lines[m]))
        /\ t[m] = (IF m = 0 THEN Began ELSE Foothold!Reads(t[m - 1], lines[m]))
    BY <1>2, <1>3 DEF Run
  <2>4. m # 0
    BY <2>3
  <2>5. m - 1 \in 0..n /\ ~(m <= m - 1)
    BY <2>3, <2>4
  <2>6. u[m - 1] = t[m - 1]
    BY <2>2, <2>5
  <2> QED BY <2>3, <2>4, <2>6
<1> QED BY <1>1, <1>4

\* What a line does to the table the reader is in and to the values.
IsReader(s) == s = [path |-> s.path, values |-> s.values, after |-> s.after, ok |-> s.ok]

RowSets(s, l) == Foothold!Put(s.values, s.path \o <<l.key>>, l.val[1])
PairSets(s, l) == Foothold!Put(Foothold!Put(s.values, (s.path \o <<l.key>>) \o <<"1">>, l.val[1]),
                               (s.path \o <<l.key>>) \o <<"2">>, l.val[2])

\* g is f with one key set.
Sets(f, g, key, v) ==
  /\ DOMAIN g = DOMAIN f \cup {key} /\ g[key] = v
  /\ \A k \in DOMAIN f : k # key => g[k] = f[k]

LEMMA RowSetsIs ==
  ASSUME NEW s, NEW l, NEW key, key = s.path \o <<l.key>>, NEW v, v = l.val[1]
  PROVE  Sets(s.values, RowSets(s, l), key, v)
<1>1. RowSets(s, l) = Foothold!Put(s.values, key, v)
  BY DEF RowSets
<1> QED BY <1>1 DEF Foothold!Put, Sets

First == <<"Reward", "1">>
Second == <<"Reward", "2">>
IsList(s, l) == s.path = <<>> /\ l.key = "Reward"

SetsBoth(f, g, v, w) ==
  /\ DOMAIN g = DOMAIN f \cup {First, Second} /\ g[First] = v /\ g[Second] = w
  /\ \A k \in DOMAIN f : k \notin {First, Second} => g[k] = f[k]

LEMMA PairSetsIs ==
  ASSUME NEW s, NEW l, IsList(s, l), NEW v, NEW w, v = l.val[1], w = l.val[2]
  PROVE  SetsBoth(s.values, PairSets(s, l), v, w)
<1>2. s.path \o <<l.key>> = <<"Reward">>
  BY KeyParts DEF IsList
<1>3. /\ (s.path \o <<l.key>>) \o <<"1">> = First
      /\ (s.path \o <<l.key>>) \o <<"2">> = Second /\ First # Second
  <2>1. <<"Reward">> \o <<"1">> = First
    BY KeyParts DEF First, Second
  <2>2. <<"Reward">> \o <<"2">> = Second
    BY KeyParts DEF First, Second
  <2> QED BY <1>2, <2>1, <2>2 DEF First, Second
<1>4. PICK f : f = Foothold!Put(s.values, First, v)
  OBVIOUS
<1>5. PairSets(s, l) = Foothold!Put(f, Second, w)
  BY <1>3, <1>4 DEF PairSets
<1>6. /\ DOMAIN f = DOMAIN s.values \cup {First} /\ f[First] = v
      /\ \A k \in DOMAIN s.values : k # First => f[k] = s.values[k]
  BY <1>4 DEF Foothold!Put
<1>7. PICK g : g = PairSets(s, l)
  OBVIOUS
<1>8. /\ DOMAIN g = DOMAIN f \cup {Second} /\ g[Second] = w
      /\ \A k \in DOMAIN f : k # Second => g[k] = f[k]
  BY <1>5, <1>7 DEF Foothold!Put
<1> QED BY <1>3, <1>6, <1>7, <1>8 DEF SetsBoth

LEMMA ReadsRow ==
  ASSUME NEW s, IsReader(s), NEW l, l.kind \in {"row", "item"}
  PROVE  /\ IsReader(Foothold!Reads(s, l))
         /\ Foothold!Reads(s, l).path = s.path /\ Foothold!Reads(s, l).values = RowSets(s, l)
<1>1. PICK p, vs, a, o : s = [path |-> p, values |-> vs, after |-> a, ok |-> o]
  BY DEF IsReader
<1> QED BY <1>1 DEF Foothold!Reads, IsReader, RowSets

LEMMA ReadsPair ==
  ASSUME NEW s, IsReader(s), NEW l, l.kind = "pair"
  PROVE  /\ IsReader(Foothold!Reads(s, l))
         /\ Foothold!Reads(s, l).path = s.path /\ Foothold!Reads(s, l).values = PairSets(s, l)
<1>1. PICK p, vs, a, o : s = [path |-> p, values |-> vs, after |-> a, ok |-> o]
  BY DEF IsReader
<1> QED BY <1>1 DEF Foothold!Reads, IsReader, PairSets

LEMMA ReadsOpening ==
  ASSUME NEW s, IsReader(s), NEW l, l.kind = "open"
  PROVE  /\ IsReader(Foothold!Reads(s, l))
         /\ Foothold!Reads(s, l).path = s.path \o <<l.key>> /\ Foothold!Reads(s, l).values = s.values
<1>1. PICK p, vs, a, o : s = [path |-> p, values |-> vs, after |-> a, ok |-> o]
  BY DEF IsReader
<1> QED BY <1>1 DEF Foothold!Reads, IsReader

LEMMA ReadsClosing ==
  ASSUME NEW s, IsReader(s), NEW l, l.kind = "close"
  PROVE  /\ IsReader(Foothold!Reads(s, l))
         /\ Foothold!Reads(s, l).path = Foothold!Front(s.path) /\ Foothold!Reads(s, l).values = s.values
<1>1. PICK p, vs, a, o : s = [path |-> p, values |-> vs, after |-> a, ok |-> o]
  BY DEF IsReader
<1> QED BY <1>1 DEF Foothold!Reads, IsReader

\* What a dotted name sets, w, which is nothing when it opens a table.
Marked(l) == IF l.kind = "dotted" THEN l.val[1] ELSE Foothold!Removed
Marks(f, g, key, w) ==
  /\ \A k : k # key => (k \in DOMAIN g <=> k \in DOMAIN f /\ Foothold!Front(k) # key)
  /\ \A k \in DOMAIN g : k # key => g[k] = f[k]
  /\ IF w = Foothold!Removed THEN key \notin DOMAIN g ELSE key \in DOMAIN g /\ g[key] = w

LEMMA ReadsMark ==
  ASSUME NEW s, IsReader(s), NEW l, l.kind \in {"dotted", "under"},
         l.kind = "dotted" => l.val[1] # Foothold!Removed
  PROVE  /\ IsReader(Foothold!Reads(s, l)) /\ Foothold!Reads(s, l).path = s.path
         /\ Marks(s.values, Foothold!Reads(s, l).values, l.key, Marked(l))
<1>1. PICK p, vs, a, o : s = [path |-> p, values |-> vs, after |-> a, ok |-> o]
  BY DEF IsReader
<1>2. PICK key : key = l.key
  OBVIOUS
<1>3. PICK f : f = Foothold!Without(vs, key)
  OBVIOUS
<1>4. /\ \A k : k \in DOMAIN f <=> k \in DOMAIN vs /\ k # key /\ Foothold!Front(k) # key
      /\ \A k \in DOMAIN f : f[k] = vs[k]
  BY <1>3 DEF Foothold!Without
<1>5. PICK r : r = Foothold!Reads(s, l)
  OBVIOUS
<1>6. CASE l.kind = "dotted"
  <2>1. IsReader(r) /\ r.path = p /\ r.values = Foothold!Put(f, key, l.val[1])
    BY <1>1, <1>2, <1>3, <1>5, <1>6 DEF Foothold!Reads, IsReader
  <2>2. PICK v : v = l.val[1]
    OBVIOUS
  <2>3. /\ DOMAIN r.values = DOMAIN f \cup {key} /\ r.values[key] = v
        /\ \A k \in DOMAIN f : k # key => r.values[k] = f[k]
    BY <2>1, <2>2 DEF Foothold!Put
  <2>4. Marks(vs, r.values, key, v)
    BY <1>4, <1>6, <2>2, <2>3 DEF Marks
  <2> QED BY <1>1, <1>2, <1>5, <1>6, <2>1, <2>2, <2>4 DEF Marked
<1>7. CASE l.kind = "under"
  <2>1. IsReader(r) /\ r.path = p /\ r.values = f
    BY <1>1, <1>2, <1>3, <1>5, <1>7 DEF Foothold!Reads, IsReader
  <2>2. Marks(vs, r.values, key, Foothold!Removed)
    BY <1>4, <2>1 DEF Marks
  <2> QED BY <1>1, <1>2, <1>5, <1>7, <2>1, <2>2 DEF Marked
<1> QED BY <1>6, <1>7

LEMMA ReadsInner ==
  ASSUME NEW s, IsReader(s), NEW l, l.kind = "inner", NEW v, v = l.val[1]
  PROVE  /\ IsReader(Foothold!Reads(s, l)) /\ Foothold!Reads(s, l).path = s.path
         /\ Sets(s.values, Foothold!Reads(s, l).values, l.key, v)
<1>1. PICK p, vs, a, o : s = [path |-> p, values |-> vs, after |-> a, ok |-> o]
  BY DEF IsReader
<1>2. PICK r, key : r = Foothold!Reads(s, l) /\ key = l.key
  OBVIOUS
<1>3. IsReader(r) /\ r.path = p /\ r.values = Foothold!Put(vs, key, v)
  BY <1>1, <1>2 DEF Foothold!Reads, IsReader
<1>4. Sets(vs, r.values, key, v)
  BY <1>3 DEF Foothold!Put, Sets
<1> QED BY <1>1, <1>2, <1>3, <1>4

LEMMA ReadsEnd ==
  ASSUME NEW s, IsReader(s), NEW l, l.kind = "end"
  PROVE  /\ IsReader(Foothold!Reads(s, l))
         /\ Foothold!Reads(s, l).path = s.path /\ Foothold!Reads(s, l).values = s.values
<1>1. PICK p, vs, a, o : s = [path |-> p, values |-> vs, after |-> a, ok |-> o]
  BY DEF IsReader
<1> QED BY <1>1 DEF Foothold!Reads, IsReader

\* A line that a dotted name begins comes after its table, outside of tables.
AllowedDotted(s, a, b, l) ==
  /\ s.path = <<>> /\ b = a \cup {l.key}
  /\ \E n, x : l.key = <<n, x>> /\ <<n>> \in a
  /\ l.kind = "dotted" => l.val[1] # Foothold!Removed
\* Tables are not nested and none is opened twice, no row has the name of one
\* before it in its table, the one list with its elements in one line is Reward,
\* and what is set is a value: line l may come when the reader is in state s and
\* the tables in a are closed and its dotted names set, those in b after it.
Allowed(s, a, b, l) ==
  \/ /\ l.kind = "row" /\ l.val[1] # Foothold!Removed /\ b = a
     /\ s.path = <<>> => l.key # "Reward"
     /\ l.key \notin Foothold!NotNames => s.path \o <<l.key>> \notin DOMAIN s.values
  \/ l.kind = "item" /\ l.key \in Foothold!NotNames /\ l.val[1] # Foothold!Removed /\ b = a
  \/ /\ l.kind = "pair" /\ s.path = <<>> /\ l.key = "Reward" /\ b = a
     /\ Foothold!Removed \notin {l.val[1], l.val[2]}
  \/ l.kind = "open" /\ s.path = <<>> /\ <<l.key>> \notin a /\ l.key # "Reward" /\ b = a
  \/ l.kind = "close" /\ s.path # <<>> /\ b = a \cup {s.path}
  \/ l.kind \in {"dotted", "under"} /\ AllowedDotted(s, a, b, l)
  \/ /\ l.kind = "inner" /\ s.path = <<>> /\ b = a /\ l.val[1] # Foothold!Removed
     /\ \E n, x, y : l.key = <<n, x, y>> /\ <<n, x>> \in a
  \/ l.kind = "end" /\ s.path = <<>> /\ b = a

\* c: the tables that were closed and the dotted names that were set before each line.
Walk(t, c, lines) ==
  /\ Trace(t, lines) /\ c = [i \in 0..Len(lines) |-> c[i]] /\ c[0] = {}
  /\ \A i \in 1..Len(lines) : Allowed(t[i - 1], c[i - 1], c[i], lines[i])

\* After such lines their reader is in state s, with those in a closed or set.
Reach(lines, s, a) ==
  \E t, c, L : /\ lines \in Seq(L) /\ Walk(t, c, lines)
               /\ t[Len(lines)] = s /\ c[Len(lines)] = a

LEMMA ReachLoaded ==
  ASSUME NEW lines, NEW s, NEW a, Reach(lines, s, a) PROVE Foothold!Loaded(lines) = s
<1>1. PICK t, c, L : lines \in Seq(L) /\ Walk(t, c, lines) /\ t[Len(lines)] = s
  BY DEF Reach
<1>2. Len(lines) \in Nat /\ Trace(t, lines)
  BY <1>1 DEF Walk
<1> QED BY ONLY <1>1, <1>2, LoadedIs

LEMMA ReachEmpty == Reach(<<>>, Began, {})
<1> DEFINE t == [i \in 0..0 |-> Began]
           c == [i \in 0..0 |-> {}]
<1>1. <<>> \in Seq({}) /\ Len(<<>>) = 0
  OBVIOUS
<1>2. Walk(t, c, <<>>)
  BY <1>1 DEF Walk, Trace
<1> QED BY <1>1, <1>2 DEF Reach

LEMMA ReachAppend ==
  ASSUME NEW lines, NEW s, NEW a, Reach(lines, s, a), NEW l, NEW b, Allowed(s, a, b, l)
  PROVE  Reach(Append(lines, l), Foothold!Reads(s, l), b)
<1>1. PICK t, c, L : /\ lines \in Seq(L) /\ Walk(t, c, lines)
                     /\ t[Len(lines)] = s /\ c[Len(lines)] = a
  BY DEF Reach
<1>2. PICK n \in Nat : n = Len(lines)
  BY <1>1
<1>3. PICK more : more = Append(lines, l)
  OBVIOUS
<1>4. /\ more \in Seq(L \cup {l}) /\ Len(more) = n + 1 /\ more[n + 1] = l
      /\ \A i \in 1..n : more[i] = lines[i]
  BY <1>1, <1>2, <1>3
<1> DEFINE u == [i \in 0..n + 1 |-> IF i = n + 1 THEN Foothold!Reads(s, l) ELSE t[i]]
           d == [i \in 0..n + 1 |-> IF i = n + 1 THEN b ELSE c[i]]
<1>5. u[0] = Began /\ d[0] = {}
  <2>1. 0 \in 0..n + 1 /\ 0 # n + 1
    OBVIOUS
  <2>2. t[0] = Began /\ c[0] = {}
    BY <1>1 DEF Walk, Trace
  <2> QED BY <2>1, <2>2
<1>6. \A i \in 1..n + 1 : u[i] = Foothold!Reads(u[i - 1], more[i])
  <2> TAKE i \in 1..n + 1
  <2>1. CASE i = n + 1
    <3>1. u[i - 1] = s
      BY <1>1, <1>2, <2>1
    <3> QED BY <1>4, <2>1, <3>1
  <2>2. CASE i # n + 1
    <3>1. i \in 1..n /\ i - 1 \in 0..n + 1 /\ i - 1 # n + 1
      BY <2>2
    <3>2. u[i - 1] = t[i - 1] /\ u[i] = t[i] /\ more[i] = lines[i]
      BY <1>4, <2>2, <3>1
    <3>3. t[i] = Foothold!Reads(t[i - 1], lines[i])
      BY <1>1, <1>2, <3>1 DEF Walk, Trace
    <3> QED BY <3>2, <3>3
  <2> QED BY <2>1, <2>2
<1>7. \A i \in 1..n + 1 : Allowed(u[i - 1], d[i - 1], d[i], more[i])
  <2> TAKE i \in 1..n + 1
  <2>1. CASE i = n + 1
    <3>1. u[i - 1] = s /\ d[i - 1] = a /\ d[i] = b
      BY <1>1, <1>2, <2>1
    <3> QED BY <1>4, <2>1, <3>1
  <2>2. CASE i # n + 1
    <3>1. i \in 1..n /\ i - 1 \in 0..n + 1 /\ i - 1 # n + 1
      BY <2>2
    <3>2. u[i - 1] = t[i - 1] /\ d[i - 1] = c[i - 1] /\ d[i] = c[i] /\ more[i] = lines[i]
      BY <1>4, <2>2, <3>1
    <3>3. Allowed(t[i - 1], c[i - 1], c[i], lines[i])
      BY <1>1, <1>2, <3>1 DEF Walk
    <3> QED BY <3>2, <3>3
  <2> QED BY <2>1, <2>2
<1>8. u[n + 1] = Foothold!Reads(s, l) /\ d[n + 1] = b
  OBVIOUS
<1>9. u = [i \in 0..n + 1 |-> u[i]] /\ d = [i \in 0..n + 1 |-> d[i]]
  OBVIOUS
<1> HIDE DEF u, d
<1>10. Walk(u, d, more)
  BY <1>4, <1>5, <1>6, <1>7, <1>9 DEF Walk, Trace
<1> QED BY <1>3, <1>4, <1>8, <1>10 DEF Reach

\* The keys of a file: a name of its own, a name in a table, Reward's two
\* elements among them, or one in a table that a dotted name opened.
IsKey(k) ==
  \/ \E a : k = <<a>> /\ a # "Reward"
  \/ \E a, b : k = <<a, b>> /\ (a = "Reward" => b \in Foothold!NotNames)
  \/ \E a, b, c : k = <<a, b, c>>

\* Dotted names are of tables that are closed.
AreClosed(a) ==
  \A k \in a : \E n : n # "Reward" /\ (k = <<n>> \/ \E x : k = <<n, x>> /\ <<n>> \in a)
\* Such a reader is in no table or in one that is not closed yet.
Within(s, a) ==
  /\ IsReader(s) /\ AreClosed(a)
  /\ s.path = <<>> \/ \E n : s.path = <<n>> /\ <<n>> \notin a /\ n # "Reward"
  /\ IsFiniteSet(DOMAIN s.values) /\ \A k \in DOMAIN s.values : IsKey(k)
  /\ \A k \in DOMAIN s.values : s.values[k] # Foothold!Removed
\* What it has read of tables is of those it is or was in.
Opened(s, a) ==
  /\ \A n, x : <<n, x>> \in DOMAIN s.values => n = "Reward" \/ <<n>> \in a \/ s.path = <<n>>
  /\ \A n, x, y : <<n, x, y>> \in DOMAIN s.values => <<n, x>> \in a

LEMMA KeyIn ==
  ASSUME NEW s, NEW a, Within(s, a), NEW x, NEW key, key = s.path \o <<x>>
  PROVE  /\ Foothold!Last(key) = x /\ Foothold!Front(key) = s.path
         /\ (s.path = <<>> => x # "Reward") => IsKey(key)
         /\ s.path = <<>> => key = <<x>>
         /\ \A n : s.path = <<n>> => key = <<n, x>>
<1>1. CASE s.path = <<>>
  <2>1. key = <<x>> /\ \A n : <<>> # <<n>>
    BY <1>1, KeyParts
  <2>2. Foothold!Last(key) = x /\ Foothold!Front(key) = <<>>
    BY ONLY <2>1, KeyParts
  <2>3. x # "Reward" => IsKey(key)
    BY <2>1 DEF IsKey
  <2> QED BY <1>1, <2>1, <2>2, <2>3
<1>2. CASE \E n : s.path = <<n>> /\ n # "Reward"
  <2>1. PICK n : s.path = <<n>> /\ n # "Reward"
    BY <1>2
  <2>2. key = <<n, x>>
    BY <2>1, KeyParts
  <2>4. Foothold!Last(key) = x /\ Foothold!Front(key) = <<n>> /\ <<n>> # <<>>
    BY ONLY <2>2, KeyParts
  <2>3. \A m : s.path = <<m>> => m = n
    BY <2>1
  <2> QED BY <2>1, <2>2, <2>3, <2>4 DEF IsKey
<1> QED BY <1>1, <1>2 DEF Within

LEMMA WithinStep ==
  ASSUME NEW s, NEW a, NEW b, NEW l, Within(s, a), Allowed(s, a, b, l)
  PROVE  Within(Foothold!Reads(s, l), b)
<1>1. PICK r : r = Foothold!Reads(s, l)
  OBVIOUS
<1>2. IsReader(s)
  BY DEF Within
<1>3. CASE l.kind \in {"row", "item"}
  <2>1. a = b /\ l.val[1] # Foothold!Removed
    BY <1>3 DEF Allowed
  <2>2. r.path = s.path /\ r.values = RowSets(s, l) /\ IsReader(r)
    BY <1>1, <1>2, <1>3, ReadsRow
  <2>3. PICK key, v : key = s.path \o <<l.key>> /\ v = l.val[1]
    OBVIOUS
  <2>4. IsKey(key)
    <3>1. s.path = <<>> => l.key # "Reward"
      BY <1>3 DEF Allowed, Foothold!NotNames
    <3> QED BY <2>3, <3>1, KeyIn
  <2>5. Sets(s.values, r.values, key, v) /\ v # Foothold!Removed
    BY <2>1, <2>2, <2>3, RowSetsIs
  <2>6. IsFiniteSet(DOMAIN s.values \cup {key})
    BY FS_AddElement DEF Within
  <2> QED BY <1>1, <2>1, <2>2, <2>4, <2>5, <2>6 DEF Within, Sets
<1>4. CASE l.kind = "pair"
  <2>1. PICK v, w : v = l.val[1] /\ w = l.val[2]
    OBVIOUS
  <2>2. a = b /\ IsList(s, l) /\ Foothold!Removed \notin {v, w}
    BY <1>4, <2>1 DEF Allowed, IsList
  <2>3. r.path = s.path /\ IsReader(r) /\ r.values = PairSets(s, l)
    BY <1>1, <1>2, <1>4, ReadsPair
  <2>4. SetsBoth(s.values, r.values, v, w)
    BY <2>1, <2>2, <2>3, PairSetsIs
  <2>5. IsKey(First) /\ IsKey(Second)
    BY DEF IsKey, Foothold!NotNames, First, Second
  <2>6. IsFiniteSet(DOMAIN s.values \cup {First, Second})
    <3>1. IsFiniteSet(DOMAIN s.values \cup {First})
      BY FS_AddElement DEF Within
    <3>2. IsFiniteSet((DOMAIN s.values \cup {First}) \cup {Second})
      BY <3>1, FS_AddElement
    <3> QED BY <3>2
  <2> QED BY <1>1, <2>2, <2>3, <2>4, <2>5, <2>6 DEF Within, SetsBoth
<1>5. CASE l.kind = "open"
  <2>1. a = b /\ s.path = <<>> /\ <<l.key>> \notin a /\ l.key # "Reward"
    BY <1>5 DEF Allowed
  <2>2. r.path = s.path \o <<l.key>> /\ r.values = s.values /\ IsReader(r)
    BY <1>1, <1>2, <1>5, ReadsOpening
  <2>3. r.path = <<l.key>>
    BY <2>1, <2>2, KeyParts
  <2> QED BY <1>1, <2>1, <2>2, <2>3 DEF Within
<1>6. CASE l.kind = "close"
  <2>1. /\ r.path = Foothold!Front(s.path) /\ r.values = s.values /\ IsReader(r) /\ s.path # <<>>
        /\ b = a \cup {s.path}
    BY <1>1, <1>2, <1>6, ReadsClosing DEF Allowed
  <2>2. r.path = <<>>
    BY <2>1, KeyParts DEF Within
  <2>3. AreClosed(b)
    BY <2>1 DEF Within, AreClosed
  <2> QED BY <1>1, <2>1, <2>2, <2>3 DEF Within
<1>7. CASE l.kind \in {"dotted", "under"}
  <2>1. s.path = <<>> /\ b = a \cup {l.key} /\ (l.kind = "dotted" => l.val[1] # Foothold!Removed)
    BY <1>7 DEF Allowed, AllowedDotted
  <2>2. PICK n, x : l.key = <<n, x>> /\ <<n>> \in a
    BY <1>7 DEF Allowed, AllowedDotted
  <2>3. PICK w : w = Marked(l)
    OBVIOUS
  <2>4. r.path = <<>> /\ IsReader(r) /\ Marks(s.values, r.values, l.key, w)
    BY <1>1, <1>2, <1>7, <2>1, <2>3, ReadsMark
  <2>5. n # "Reward"
    BY <2>2 DEF Within, AreClosed
  <2>6. AreClosed(b)
    BY <2>1, <2>2, <2>5 DEF Within, AreClosed
  <2>7. IsKey(l.key)
    BY <2>2, <2>5 DEF IsKey
  <2>8. IsFiniteSet(DOMAIN r.values)
    <3>1. IsFiniteSet(DOMAIN s.values \cup {l.key})
      BY FS_AddElement DEF Within
    <3>2. DOMAIN r.values \subseteq DOMAIN s.values \cup {l.key}
      BY <2>4 DEF Marks
    <3> QED BY <3>1, <3>2, FS_Subset
  <2>9. \A k \in DOMAIN r.values : IsKey(k) /\ r.values[k] # Foothold!Removed
    BY <2>4, <2>7 DEF Within, Marks
  <2> QED BY <1>1, <2>4, <2>6, <2>8, <2>9 DEF Within
<1>8. CASE l.kind = "inner"
  <2>1. PICK key, v : key = l.key /\ v = l.val[1]
    OBVIOUS
  <2>2. a = b /\ v # Foothold!Removed /\ IsKey(key)
    BY <1>8, <2>1 DEF Allowed, IsKey
  <2>3. r.path = s.path /\ IsReader(r) /\ Sets(s.values, r.values, key, v)
    BY <1>1, <1>2, <1>8, <2>1, ReadsInner
  <2>4. IsFiniteSet(DOMAIN s.values \cup {key})
    BY FS_AddElement DEF Within
  <2> QED BY <1>1, <2>2, <2>3, <2>4 DEF Within, Sets
<1>9. CASE l.kind = "end"
  <2>1. a = b /\ r.path = s.path /\ IsReader(r) /\ r.values = s.values
    BY <1>1, <1>2, <1>9, ReadsEnd DEF Allowed
  <2> QED BY <1>1, <2>1 DEF Within
<1> QED BY <1>3, <1>4, <1>5, <1>6, <1>7, <1>8, <1>9 DEF Allowed

LEMMA OpenedStep ==
  ASSUME NEW s, NEW a, NEW b, NEW l, Within(s, a), Opened(s, a), Allowed(s, a, b, l)
  PROVE  Opened(Foothold!Reads(s, l), b)
<1>1. PICK r : r = Foothold!Reads(s, l)
  OBVIOUS
<1>2. IsReader(s)
  BY DEF Within
<1>3. CASE l.kind \in {"row", "item"}
  <2>1. a = b
    BY <1>3 DEF Allowed
  <2>2. r.path = s.path /\ r.values = RowSets(s, l)
    BY <1>1, <1>2, <1>3, ReadsRow
  <2>3. DOMAIN r.values = DOMAIN s.values \cup {s.path \o <<l.key>>}
    <3>1. PICK v : v = l.val[1]
      OBVIOUS
    <3>2. Sets(s.values, r.values, s.path \o <<l.key>>, v)
      BY <2>2, <3>1, RowSetsIs
    <3> QED BY <3>2 DEF Sets
  <2>4. /\ \A n, x : s.path \o <<l.key>> = <<n, x>> => s.path = <<n>>
        /\ \A n, x, y : s.path \o <<l.key>> # <<n, x, y>>
    <3>1. PICK key : key = s.path \o <<l.key>>
      OBVIOUS
    <3>2. (s.path = <<>> => key = <<l.key>>) /\ (\A n : s.path = <<n>> => key = <<n, l.key>>)
      <4>1. PICK x : x = l.key
        OBVIOUS
      <4>2. Within(s, a) /\ key = s.path \o <<x>>
        BY <3>1, <4>1
      <4> QED BY ONLY <4>1, <4>2, KeyIn
    <3>3. s.path = <<>> \/ \E n : s.path = <<n>>
      BY DEF Within
    <3>4. PICK z : z = l.key
      OBVIOUS
    <3>5. CASE s.path = <<>>
      <4>1. key = <<z>>
        BY <3>2, <3>4, <3>5
      <4>2. \A n, x, y : <<z>> # <<n, x>> /\ <<z>> # <<n, x, y>>
        OBVIOUS
      <4> QED BY ONLY <3>1, <4>1, <4>2
    <3>6. CASE s.path # <<>>
      <4>1. PICK m : s.path = <<m>>
        BY <3>3, <3>6
      <4>2. key = <<m, z>>
        BY <3>2, <3>4, <4>1
      <4>3. /\ \A n, x : <<m, z>> = <<n, x>> => m = n
            /\ \A n, x, y : <<m, z>> # <<n, x, y>>
        OBVIOUS
      <4> QED BY ONLY <3>1, <4>1, <4>2, <4>3
    <3> QED BY <3>5, <3>6
  <2> QED BY <1>1, <2>1, <2>2, <2>3, <2>4 DEF Opened
<1>4. CASE l.kind = "pair"
  <2>1. a = b /\ IsList(s, l)
    BY <1>4 DEF Allowed, IsList
  <2>2. r.path = s.path /\ r.values = PairSets(s, l)
    BY <1>1, <1>2, <1>4, ReadsPair
  <2>4. DOMAIN r.values = DOMAIN s.values \cup {First, Second}
    <3>1. PICK v, w : v = l.val[1] /\ w = l.val[2]
      OBVIOUS
    <3>2. SetsBoth(s.values, r.values, v, w)
      BY <2>1, <2>2, <3>1, PairSetsIs
    <3> QED BY <3>2 DEF SetsBoth
  <2> QED BY <1>1, <2>1, <2>2, <2>4 DEF Opened, First, Second
<1>5. CASE l.kind = "open"
  <2>1. a = b /\ s.path = <<>>
    BY <1>5 DEF Allowed
  <2>2. r.values = s.values
    BY <1>1, <1>2, <1>5, ReadsOpening
  <2> QED BY <1>1, <2>1, <2>2 DEF Opened
<1>6. CASE l.kind = "close"
  <2>1. r.values = s.values /\ b = a \cup {s.path}
    BY <1>1, <1>2, <1>6, ReadsClosing DEF Allowed
  <2> QED BY <1>1, <2>1 DEF Opened
<1>7. CASE l.kind \in {"dotted", "under"}
  <2>1. b = a \cup {l.key} /\ (l.kind = "dotted" => l.val[1] # Foothold!Removed)
    BY <1>7 DEF Allowed, AllowedDotted
  <2>2. PICK n, x : l.key = <<n, x>> /\ <<n>> \in a
    BY <1>7 DEF Allowed, AllowedDotted
  <2>3. PICK w : w = Marked(l)
    OBVIOUS
  <2>4. r.path = s.path /\ Marks(s.values, r.values, l.key, w)
    BY <1>1, <1>2, <1>7, <2>1, <2>3, ReadsMark
  <2>5. DOMAIN r.values \subseteq DOMAIN s.values \cup {<<n, x>>}
    BY <2>2, <2>4 DEF Marks
  <2> QED BY <1>1, <2>1, <2>2, <2>4, <2>5 DEF Opened
<1>8. CASE l.kind = "inner"
  <2>1. PICK v : v = l.val[1]
    OBVIOUS
  <2>2. PICK n, x, y : l.key = <<n, x, y>> /\ <<n, x>> \in a
    BY <1>8 DEF Allowed
  <2>3. r.path = s.path /\ Sets(s.values, r.values, l.key, v) /\ a = b
    BY <1>1, <1>2, <1>8, <2>1, ReadsInner DEF Allowed
  <2>4. DOMAIN r.values = DOMAIN s.values \cup {<<n, x, y>>}
    BY <2>2, <2>3 DEF Sets
  <2> QED BY <1>1, <2>2, <2>3, <2>4 DEF Opened
<1>9. CASE l.kind = "end"
  <2>1. a = b /\ r.path = s.path /\ r.values = s.values
    BY <1>1, <1>2, <1>9, ReadsEnd DEF Allowed
  <2> QED BY <1>1, <2>1 DEF Opened
<1> QED BY <1>3, <1>4, <1>5, <1>6, <1>7, <1>8, <1>9 DEF Allowed

LEMMA WalkWithin ==
  ASSUME NEW lines, Len(lines) \in Nat, NEW t, NEW c, Walk(t, c, lines), NEW i \in 0..Len(lines)
  PROVE  Within(t[i], c[i]) /\ Opened(t[i], c[i])
<1> DEFINE T == {j \in 0..Len(lines) : ~(Within(t[j], c[j]) /\ Opened(t[j], c[j]))}
<1> SUFFICES ASSUME T # {} PROVE FALSE
  OBVIOUS
<1>1. T \subseteq Nat
  OBVIOUS
<1>2. PICK m \in T : \A j \in T : m <= j
  BY ONLY <1>1, T # {}, HasLeast
<1>3. m \in 0..Len(lines) /\ ~(Within(t[m], c[m]) /\ Opened(t[m], c[m]))
  OBVIOUS
<1>4. Within(Began, {}) /\ Opened(Began, {})
  <2>1. DOMAIN Began.values = {}
    BY DEF Began
  <2> QED BY <2>1, FS_EmptySet DEF Began, Within, Opened, IsReader, AreClosed
<1>5. m # 0
  BY <1>3, <1>4 DEF Walk, Trace
<1>6. m - 1 \in 0..Len(lines) /\ m \in 1..Len(lines) /\ ~(m <= m - 1)
  BY <1>3, <1>5
<1>7. Within(t[m - 1], c[m - 1]) /\ Opened(t[m - 1], c[m - 1])
  BY <1>2, <1>6
<1>8. t[m] = Foothold!Reads(t[m - 1], lines[m]) /\ Allowed(t[m - 1], c[m - 1], c[m], lines[m])
  BY <1>6 DEF Walk, Trace
<1> QED BY <1>3, <1>7, <1>8, WithinStep, OpenedStep

LEMMA ReachWithin ==
  ASSUME NEW lines, NEW s, NEW a, Reach(lines, s, a) PROVE Within(s, a) /\ Opened(s, a)
<1>1. PICK t, c, L : /\ lines \in Seq(L) /\ Walk(t, c, lines)
                     /\ t[Len(lines)] = s /\ c[Len(lines)] = a
  BY DEF Reach
<1>2. Len(lines) \in Nat /\ Len(lines) \in 0..Len(lines)
  BY <1>1
<1> QED BY <1>1, <1>2, WalkWithin

\* A dotted name is among those once its line has come.
MarkedBy(lines, i, key) ==
  \E j \in 1..i : lines[j].kind \in {"dotted", "under"} /\ lines[j].key = key
IsPair(k) == \E n, x : k = <<n, x>>

LEMMA MarkedLines ==
  ASSUME NEW lines, Len(lines) \in Nat, NEW t, NEW c, Walk(t, c, lines), NEW i \in 0..Len(lines)
  PROVE  \A k : MarkedBy(lines, i, k) <=> IsPair(k) /\ k \in c[i]
<1> DEFINE Fine(j) == \A k : MarkedBy(lines, j, k) <=> IsPair(k) /\ k \in c[j]
           T == {j \in 0..Len(lines) : ~Fine(j)}
<1> SUFFICES ASSUME T # {} PROVE FALSE
  OBVIOUS
<1>1. T \subseteq Nat
  OBVIOUS
<1>2. PICK m \in T : \A j \in T : m <= j
  BY ONLY <1>1, T # {}, HasLeast
<1>3. m \in 0..Len(lines) /\ ~Fine(m)
  OBVIOUS
<1>4. m # 0
  <2>1. c[0] = {} /\ \A j : j \notin 1..0
    BY DEF Walk
  <2>2. Fine(0)
    BY <2>1 DEF MarkedBy
  <2> QED BY <1>3, <2>2
<1>5. PICK n : n = m - 1
  OBVIOUS
<1>6. n \in 0..Len(lines) /\ m \in 1..Len(lines) /\ ~(m <= n) /\ 1..m = 1..n \cup {m}
  BY <1>3, <1>4, <1>5
<1>7. Fine(n)
  BY <1>2, <1>6
<1>8. PICK l : l = lines[m]
  OBVIOUS
<1>9. Allowed(t[n], c[n], c[m], l) /\ Within(t[n], c[n])
  BY <1>5, <1>6, <1>8, WalkWithin DEF Walk
<1>10. \A k : MarkedBy(lines, m, k) <=>
              MarkedBy(lines, n, k) \/ (l.kind \in {"dotted", "under"} /\ l.key = k)
  BY <1>6, <1>8 DEF MarkedBy
<1>11. CASE l.kind \in {"dotted", "under"}
  <2>1. c[m] = c[n] \cup {l.key} /\ IsPair(l.key)
    BY <1>9, <1>11 DEF Allowed, AllowedDotted, IsPair
  <2> QED BY <1>3, <1>7, <1>10, <1>11, <2>1
<1>12. CASE l.kind = "close"
  <2>1. PICK x : t[n].path = <<x>>
    BY <1>9, <1>12 DEF Allowed, Within
  <2>2. c[m] = c[n] \cup {<<x>>}
    BY <1>9, <1>12, <2>1 DEF Allowed
  <2>3. ~IsPair(<<x>>)
    BY DEF IsPair
  <2> QED BY <1>3, <1>7, <1>10, <1>12, <2>2, <2>3
<1>13. CASE l.kind \notin {"dotted", "under", "close"}
  <2>1. c[m] = c[n]
    BY <1>9, <1>13 DEF Allowed
  <2> QED BY <1>3, <1>7, <1>10, <1>13, <2>1
<1> QED BY <1>11, <1>12, <1>13

\* What dotted names have set, and what is in tables they opened.
Apart(k, a) == \E n, x : <<n, x>> \in a /\ (k = <<n, x>> \/ \E y : k = <<n, x, y>>)

LEMMA ApartIs ==
  ASSUME NEW lines, NEW s, NEW a, Reach(lines, s, a), NEW k, IsKey(k)
  PROVE  Foothold!IsApart(lines, k) <=> Apart(k, a)
<1>1. PICK t, c, L : /\ lines \in Seq(L) /\ Walk(t, c, lines) /\ c[Len(lines)] = a
  BY DEF Reach
<1>2. PICK n \in Nat : n = Len(lines) /\ n \in 0..n /\ DOMAIN lines = 1..n
  BY <1>1
<1>3. \A key : MarkedBy(lines, n, key) <=> IsPair(key) /\ key \in a
  BY <1>1, <1>2, MarkedLines
<1>4. Foothold!IsApart(lines, k) <=> MarkedBy(lines, n, k) \/ MarkedBy(lines, n, Foothold!Front(k))
  BY <1>2 DEF Foothold!IsApart, MarkedBy
<1>5. CASE \E b : k = <<b>>
  <2>1. PICK b : k = <<b>>
    BY <1>5
  <2>2. Foothold!Front(k) = <<>>
    BY ONLY <2>1, KeyParts
  <2>3. ~IsPair(<<>>) /\ ~IsPair(<<b>>) /\ ~Apart(<<b>>, a)
    BY DEF IsPair, Apart
  <2> QED BY <1>3, <1>4, <2>1, <2>2, <2>3
<1>6. CASE \E b, x : k = <<b, x>>
  <2>1. PICK b, x : k = <<b, x>>
    BY <1>6
  <2>2. Foothold!Front(k) = <<b>>
    BY ONLY <2>1, KeyParts
  <2>3. ~IsPair(<<b>>) /\ IsPair(k) /\ (Apart(<<b, x>>, a) <=> <<b, x>> \in a)
    BY <2>1 DEF IsPair, Apart
  <2> QED BY <1>3, <1>4, <2>1, <2>2, <2>3
<1>7. CASE \E b, x, y : k = <<b, x, y>>
  <2>1. PICK b, x, y : k = <<b, x, y>>
    BY <1>7
  <2>2. Foothold!Front(k) = <<b, x>>
    BY ONLY <2>1, InnerParts
  <2>3. ~IsPair(<<b, x, y>>) /\ IsPair(<<b, x>>) /\ (Apart(<<b, x, y>>, a) <=> <<b, x>> \in a)
    BY DEF IsPair, Apart
  <2> QED BY <1>3, <1>4, <2>1, <2>2, <2>3
<1> QED BY <1>5, <1>6, <1>7 DEF IsKey

-----------------------------------------------------------------------------
(* What a line does to the one who rewrites the file.                      *)

IsRewriter(s) == s = [path |-> s.path, left |-> s.left, out |-> s.out]
Named(s, l) == l.kind \in {"row", "pair"} /\ s.path \o <<l.key>> \in DOMAIN s.left
\* The row of a dotted name's table that is taken for a field.
Mistaken(s, l) == l.kind = "inner" /\ s.path \o <<Foothold!Last(l.key)>> \in DOMAIN s.left

LEMMA RewritesOpening ==
  ASSUME NEW s, IsRewriter(s), NEW l, l.kind = "open"
  PROVE  /\ IsRewriter(Foothold!Rewrites(s, l)) /\ Foothold!Rewrites(s, l).path = s.path \o <<l.key>>
         /\ Foothold!Rewrites(s, l).left = s.left /\ Foothold!Rewrites(s, l).out = s.out \o <<l>>
<1>1. PICK p, u, o : s = [path |-> p, left |-> u, out |-> o]
  BY DEF IsRewriter
<1> QED BY <1>1 DEF Foothold!Rewrites, IsRewriter

LEMMA RewritesClosing ==
  ASSUME NEW s, IsRewriter(s), NEW l, l.kind \in {"close", "end"}
  PROVE  /\ IsRewriter(Foothold!Rewrites(s, l))
         /\ Foothold!Rewrites(s, l).path = Foothold!Popped(s.path)
         /\ Foothold!Rewrites(s, l).left = s.left
         /\ Foothold!Rewrites(s, l).out = (s.out \o Foothold!Inserted(s)) \o <<l>>
<1>1. PICK p, u, o : s = [path |-> p, left |-> u, out |-> o]
  BY DEF IsRewriter
<1>2. PICK i : i = Foothold!Inserted(s)
  OBVIOUS
<1> QED BY <1>1, <1>2 DEF Foothold!Rewrites, IsRewriter

LEMMA RewritesOther ==
  ASSUME NEW s, IsRewriter(s), NEW l,
         l.kind \in {"row", "pair", "item", "dotted", "under", "inner"},
         ~Named(s, l), ~Mistaken(s, l)
  PROVE  /\ IsRewriter(Foothold!Rewrites(s, l)) /\ Foothold!Rewrites(s, l).path = s.path
         /\ Foothold!Rewrites(s, l).left = s.left /\ Foothold!Rewrites(s, l).out = s.out \o <<l>>
<1>1. PICK p, u, o : s = [path |-> p, left |-> u, out |-> o]
  BY DEF IsRewriter
<1>2. CASE l.kind \in {"item", "dotted", "under"}
  BY <1>1, <1>2 DEF Foothold!Rewrites, IsRewriter
<1>3. CASE l.kind \in {"row", "pair"}
  BY <1>1, <1>3 DEF Foothold!Rewrites, IsRewriter, Named
<1>4. CASE l.kind = "inner"
  <2>1. PICK x : x = Foothold!Last(l.key)
    OBVIOUS
  <2> QED BY <1>1, <1>4, <2>1 DEF Foothold!Rewrites, IsRewriter, Mistaken
<1> QED BY <1>2, <1>3, <1>4

Less(left, key) == [k \in DOMAIN left \ {key} |-> left[k]]
\* r is s after a line that is rewritten with what was sent for a key.
Replaces(s, r, kind, l, key) ==
  /\ IsRewriter(r) /\ r.path = s.path /\ r.left = Less(s.left, key)
  /\ s.left[key] = Foothold!Removed => r.out = s.out \o <<>>
  /\ s.left[key] # Foothold!Removed =>
       \E comma : r.out = s.out \o <<Foothold!Line(kind, l.key, <<s.left[key]>>, comma, l.note)>>

LEMMA RewritesNamed ==
  ASSUME NEW s, IsRewriter(s), NEW l, Named(s, l), NEW key, key = s.path \o <<l.key>>
  PROVE  Replaces(s, Foothold!Rewrites(s, l), "row", l, key)
<1>1. PICK p, u, o : s = [path |-> p, left |-> u, out |-> o]
  BY DEF IsRewriter
<1>2. l.kind \in {"row", "pair"} /\ l.kind # "inner" /\ key \in DOMAIN u
  BY <1>1 DEF Named
<1> QED BY <1>1, <1>2 DEF Foothold!Rewrites, IsRewriter, Less, Replaces

LEMMA RewritesMistaken ==
  ASSUME NEW s, IsRewriter(s), NEW l, Mistaken(s, l),
         NEW key, key = s.path \o <<Foothold!Last(l.key)>>
  PROVE  Replaces(s, Foothold!Rewrites(s, l), "inner", l, key)
<1>1. PICK p, u, o : s = [path |-> p, left |-> u, out |-> o]
  BY DEF IsRewriter
<1>2. PICK x : x = Foothold!Last(l.key)
  OBVIOUS
<1>3. l.kind = "inner" /\ key = p \o <<x>> /\ key \in DOMAIN u
  BY <1>1, <1>2 DEF Mistaken
<1> QED BY <1>1, <1>2, <1>3 DEF Foothold!Rewrites, IsRewriter, Less, Replaces

RewriteTrace(r, lines, updates, m) ==
  /\ r = [i \in 0..m |-> r[i]] /\ r[0] = [path |-> <<>>, left |-> updates, out |-> <<>>]
  /\ \A i \in 1..m : r[i] = Foothold!Rewrites(r[i - 1], lines[i])

\* The states of the one who rewrites, line by line, are those of Rewritten.
LEMMA RewrittenIs ==
  ASSUME NEW lines, Len(lines) \in Nat, NEW updates, NEW r,
         RewriteTrace(r, lines, updates, Len(lines))
  PROVE  Foothold!Rewritten(lines, updates) = r[Len(lines)].out
<1> DEFINE n == Len(lines)
           start == [path |-> <<>>, left |-> updates, out |-> <<>>]
           Run(f) == f = [i \in 0..n |-> IF i = 0 THEN start
                                         ELSE Foothold!Rewrites(f[i - 1], lines[i])]
           u == CHOOSE f : Run(f)
<1>1. Foothold!Rewritten(lines, updates) = u[n].out
  BY DEF Foothold!Rewritten, Foothold!Through
<1>2. Run(r)
  <2>1. \A i \in 0..n : r[i] = IF i = 0 THEN start ELSE Foothold!Rewrites(r[i - 1], lines[i])
    <3> TAKE i \in 0..n
    <3>1. i # 0 => i \in 1..n
      OBVIOUS
    <3> QED BY <3>1 DEF RewriteTrace
  <2> QED BY <2>1 DEF RewriteTrace
<1>3. Run(u)
  BY <1>2
<1> HIDE DEF Run, u, start
<1>4. \A i \in 0..n : u[i] = r[i]
  <2> DEFINE T == {i \in 0..n : u[i] # r[i]}
  <2> SUFFICES ASSUME T # {} PROVE FALSE
    OBVIOUS
  <2>1. T \subseteq Nat
    OBVIOUS
  <2>2. PICK m \in T : \A i \in T : m <= i
    BY ONLY <2>1, T # {}, HasLeast
  <2>3. /\ m \in 0..n /\ u[m] # r[m]
        /\ u[m] = (IF m = 0 THEN start ELSE Foothold!Rewrites(u[m - 1], lines[m]))
        /\ r[m] = (IF m = 0 THEN start ELSE Foothold!Rewrites(r[m - 1], lines[m]))
    BY <1>2, <1>3 DEF Run
  <2>4. m # 0
    BY <2>3
  <2>5. m - 1 \in 0..n /\ ~(m <= m - 1)
    BY <2>3, <2>4
  <2>6. u[m - 1] = r[m - 1]
    BY <2>2, <2>5
  <2> QED BY <2>3, <2>4, <2>6
<1> QED BY <1>1, <1>4

-----------------------------------------------------------------------------
(* The rows that a table gets before it is closed.                         *)

\* SetToSeq lists each member of a finite set once.
LEMMA NewRows ==
  ASSUME NEW S, IsFiniteSet(S), NEW f, f = Foothold!SetToSeq(S), NEW n, n = Cardinality(S)
  PROVE  /\ n \in Nat /\ f \in [1..n -> S] /\ (\A i, j \in 1..n : f[i] = f[j] => i = j)
         /\ \A k \in S : \E i \in 1..n : f[i] = k
<1>1. n \in Nat /\ ExistsBijection(1..n, S)
  BY FS_CardinalityType
<1>2. PICK g \in Bijection(1..n, S) : TRUE
  BY <1>1 DEF ExistsBijection
<1>3. \E h \in [1..Cardinality(S) -> S] : IsInjective(h)
  BY <1>2 DEF Bijection, Injection, IsInjective, Surjection
<1>4. f \in [1..Cardinality(S) -> S] /\ \A i, j \in DOMAIN f : f[i] = f[j] => i = j
  BY <1>3 DEF Foothold!SetToSeq, Foothold!IsInjective, IsInjective, Foothold!Cardinality, Cardinality
<1>5. f \in Injection(1..n, S)
  BY <1>4 DEF Injection, IsInjective
<1>6. Cardinality(1..n) = n
  BY <1>1, FS_Interval
<1>7. f \in Surjection(1..n, S)
  BY <1>5, <1>6, FS_Injection
<1> QED BY <1>1, <1>4, <1>7 DEF Surjection

\* The first j of a sequence.
Pre(s, j) == [i \in 1..j |-> s[i]]

LEMMA ConcatPre ==
  ASSUME NEW L, NEW out \in Seq(L), NEW M, NEW s \in Seq(M), NEW j \in Nat, j < Len(s)
  PROVE  out \o Pre(s, j + 1) = Append(out \o Pre(s, j), s[j + 1])
<1> DEFINE K == L \cup M
<1>1. out \in Seq(K) /\ s \in Seq(K) /\ Pre(s, j) \in Seq(K) /\ Pre(s, j + 1) \in Seq(K)
  <2>1. \A i \in 1..Len(s) : s[i] \in K
    OBVIOUS
  <2> QED BY <2>1 DEF Pre
<1>2. Len(Pre(s, j)) = j /\ Len(Pre(s, j + 1)) = j + 1
  BY DEF Pre
<1>5. PICK u, v : u = out \o Pre(s, j + 1) /\ v = out \o Pre(s, j)
  OBVIOUS
<1>6. /\ u \in Seq(K) /\ Len(u) = Len(out) + j + 1 /\ v \in Seq(K) /\ Len(v) = Len(out) + j
      /\ \A i \in 1..Len(out) + j + 1 : u[i] = IF i <= Len(out) THEN out[i] ELSE s[i - Len(out)]
      /\ \A i \in 1..Len(out) + j : v[i] = IF i <= Len(out) THEN out[i] ELSE s[i - Len(out)]
  <2>1. /\ u \in Seq(K) /\ Len(u) = Len(out) + j + 1 /\ v \in Seq(K) /\ Len(v) = Len(out) + j
        /\ \A i \in 1..Len(u) : u[i] = IF i <= Len(out) THEN out[i] ELSE Pre(s, j + 1)[i - Len(out)]
        /\ \A i \in 1..Len(v) : v[i] = IF i <= Len(out) THEN out[i] ELSE Pre(s, j)[i - Len(out)]
    BY <1>1, <1>2, <1>5, ConcatProperties
  <2>2. \A i \in 1..j + 1 : Pre(s, j + 1)[i] = s[i]
    BY DEF Pre
  <2>3. \A i \in 1..j : Pre(s, j)[i] = s[i]
    BY DEF Pre
  <2>4. \A i \in 1..Len(out) + j + 1 : ~(i <= Len(out)) => i - Len(out) \in 1..j + 1
    OBVIOUS
  <2>5. \A i \in 1..Len(out) + j : ~(i <= Len(out)) => i - Len(out) \in 1..j
    OBVIOUS
  <2> QED BY <2>1, <2>2, <2>3, <2>4, <2>5
<1>7. s[j + 1] \in K
  OBVIOUS
<1>8. PICK w : w = Append(v, s[j + 1])
  OBVIOUS
<1>9. /\ w \in Seq(K) /\ Len(w) = Len(out) + j + 1 /\ w[Len(out) + j + 1] = s[j + 1]
      /\ \A i \in 1..Len(out) + j : w[i] = v[i]
  <2>1. PICK n, x : n = Len(v) /\ x = s[j + 1]
    OBVIOUS
  <2>2. w = Append(v, x) /\ v \in Seq(K) /\ n = Len(out) + j /\ x \in K
    BY <1>6, <1>7, <1>8, <2>1
  <2>3. w \in Seq(K) /\ Len(w) = n + 1 /\ w[n + 1] = x /\ \A i \in 1..n : w[i] = v[i]
    <3> HIDE DEF K
    <3>1. /\ w \in Seq(K) /\ Len(w) = Len(v) + 1 /\ w[Len(v) + 1] = x
          /\ \A i \in 1..Len(v) : w[i] = v[i]
      BY ONLY <2>2, AppendProperties
    <3> QED BY ONLY <2>1, <3>1
  <2> QED BY <2>1, <2>2, <2>3
<1>10. \A i \in 1..Len(u) : u[i] = w[i]
  <2> TAKE i \in 1..Len(u)
  <2>1. CASE i = Len(out) + j + 1
    <3>1. PICK m \in Nat : m = Len(out)
      OBVIOUS
    <3>2. i \in 1..m + j + 1 /\ ~(i <= m) /\ i - m = j + 1
      BY <2>1, <3>1
    <3>3. u[i] = s[i - m]
      BY <1>6, <3>1, <3>2
    <3>4. w[i] = s[j + 1]
      BY <1>9, <2>1
    <3> QED BY <3>2, <3>3, <3>4
  <2>2. CASE i # Len(out) + j + 1
    <3>1. i \in 1..Len(out) + j
      BY <1>6, <2>2
    <3>2. i \in 1..Len(out) + j + 1
      BY <1>6
    <3> QED BY <1>6, <1>9, <3>1, <3>2
  <2> QED BY <2>1, <2>2
<1>11. u = w
  BY <1>6, <1>9, <1>10, SeqEqual
<1> QED BY <1>5, <1>8, <1>11

\* Reader e has read, besides what d has, these keys with these values.
Gained(d, e, keys, left) ==
  /\ e.path = d.path /\ DOMAIN e.values = DOMAIN d.values \cup keys
  /\ \A k \in keys : e.values[k] = left[k]
  /\ \A k \in DOMAIN d.values \ keys : e.values[k] = d.values[k]

RowFor(s, k) == Foothold!Row(Foothold!Last(k), s.left[k], "yes", "no")

InsertedBy(s, S, n, f, rows) ==
  /\ n \in Nat /\ f \in [1..n -> S]
  /\ \A i, j \in 1..n : f[i] = f[j] => i = j
  /\ \A k \in S : \E i \in 1..n : f[i] = k
  /\ rows = Foothold!Inserted(s) /\ rows \in [1..n -> {RowFor(s, k) : k \in S}]
  /\ \A i \in 1..n : rows[i] = RowFor(s, f[i])

LEMMA InsertedAre ==
  ASSUME NEW s, NEW S, S = Foothold!Unplaced(s), IsFiniteSet(S)
  PROVE  \E n, f, rows : InsertedBy(s, S, n, f, rows)
<1>2. PICK f, n : f = Foothold!SetToSeq(S) /\ n = Cardinality(S)
  OBVIOUS
<1>3. /\ n \in Nat /\ f \in [1..n -> S] /\ (\A i, j \in 1..n : f[i] = f[j] => i = j)
      /\ \A k \in S : \E i \in 1..n : f[i] = k
  BY <1>2, NewRows
<1>4. Len(f) = n
  BY <1>3
<1>6. PICK rows : rows = Foothold!Inserted(s)
  OBVIOUS
<1>5. rows = [i \in 1..n |-> RowFor(s, f[i])]
  BY <1>2, <1>4, <1>6 DEF Foothold!Inserted, RowFor
<1>7. rows \in [1..n -> {RowFor(s, k) : k \in S}] /\ \A i \in 1..n : rows[i] = RowFor(s, f[i])
  BY <1>3, <1>5
<1>8. InsertedBy(s, S, n, f, rows)
  BY <1>3, <1>6, <1>7 DEF InsertedBy
<1> QED BY <1>8

\* One more row in the table of the reader, with a key that is new to it.
LEMMA RowIn ==
  ASSUME NEW lines, NEW e, NEW a, Reach(lines, e, a),
         NEW x, NEW v, NEW comma, NEW note, NEW key, key = e.path \o <<x>>,
         x \notin Foothold!NotNames => key \notin DOMAIN e.values, v # Foothold!Removed,
         e.path = <<>> => x # "Reward"
  PROVE  \E r : /\ Reach(Append(lines, Foothold!Row(x, v, comma, note)), r, a)
                /\ r.path = e.path /\ Sets(e.values, r.values, key, v)
<1>1. PICK l : l = Foothold!Row(x, v, comma, note)
  OBVIOUS
<1>2. l.kind = "row" /\ l.key = x /\ v = l.val[1]
  BY <1>1 DEF Foothold!Row, Foothold!Line
<1>3. Allowed(e, a, a, l)
  BY <1>2 DEF Allowed
<1>4. PICK r : r = Foothold!Reads(e, l)
  OBVIOUS
<1>5. Reach(Append(lines, l), r, a)
  BY <1>3, <1>4, ReachAppend
<1>6. IsReader(e) /\ l.kind \in {"row", "item"}
  BY <1>2, ReachWithin DEF Within
<1>7. r.path = e.path /\ r.values = RowSets(e, l)
  BY ONLY <1>4, <1>6, ReadsRow
<1>8. Sets(e.values, r.values, key, v)
  BY <1>2, <1>7, RowSetsIs
<1> QED BY <1>1, <1>5, <1>7, <1>8

\* The rows that are inserted before a table's end are read as they were sent:
\* one after the other, as none of them is in the table yet.
LEMMA RowsInserted ==
  ASSUME NEW s, NEW d, NEW a, Reach(s.out, d, a), NEW n, s.path = <<n>>, d.path = <<n>>,
         IsFiniteSet(DOMAIN s.left), \A k \in DOMAIN s.left : IsKey(k),
         \A k \in Foothold!Unplaced(s) :
           Foothold!Last(k) \notin Foothold!NotNames => k \notin DOMAIN d.values
  PROVE  \E e : /\ Reach(s.out \o Foothold!Inserted(s), e, a)
                /\ Gained(d, e, Foothold!Unplaced(s), s.left)
<1>1. PICK S : S = Foothold!Unplaced(s)
  OBVIOUS
<1>2. IsFiniteSet(S) /\ S \subseteq DOMAIN s.left
  BY <1>1, FS_Subset DEF Foothold!Unplaced
<1>3. \E N, f, new : InsertedBy(s, S, N, f, new)
  BY ONLY <1>1, <1>2, InsertedAre
<1>4. PICK N, f, new :
        /\ N \in Nat /\ f \in [1..N -> S]
        /\ \A i, j \in 1..N : f[i] = f[j] => i = j
        /\ \A k \in S : \E i \in 1..N : f[i] = k
        /\ new = Foothold!Inserted(s) /\ new \in [1..N -> {RowFor(s, k) : k \in S}]
        /\ \A i \in 1..N : new[i] = RowFor(s, f[i])
  BY <1>3 DEF InsertedBy
<1>5. PICK L : s.out \in Seq(L)
  BY DEF Reach
<1>6. PICK M : M = {RowFor(s, k) : k \in S}
  OBVIOUS
<1>7. new \in Seq(M) /\ Len(new) = N
  BY <1>4, <1>6
<1>9. \A k \in S : /\ k = <<n, Foothold!Last(k)>>
                   /\ Foothold!Last(k) \notin Foothold!NotNames => k \notin DOMAIN d.values
  <2> SUFFICES ASSUME NEW k \in S PROVE k = <<n, Foothold!Last(k)>>
    BY <1>1
  <2>1. Foothold!Front(k) = <<n>> /\ IsKey(k)
    BY <1>1, <1>2 DEF Foothold!Unplaced
  <2>2. CASE \E b : k = <<b>>
    <3>1. Foothold!Front(k) = <<>> /\ <<n>> # <<>>
      BY ONLY <2>2, KeyParts
    <3> QED BY <2>1, <3>1
  <2>3. CASE \E b, x : k = <<b, x>>
    <3>1. PICK b, x : k = <<b, x>>
      BY <2>3
    <3>2. Foothold!Front(k) = <<b>> /\ Foothold!Last(k) = x
      BY ONLY <3>1, KeyParts
    <3>3. b = n
      BY <2>1, <3>2
    <3> QED BY <3>1, <3>2, <3>3
  <2>4. CASE \E b, x, y : k = <<b, x, y>>
    <3>1. PICK b, x, y : k = <<b, x, y>>
      BY <2>4
    <3>2. Foothold!Front(k) = <<b, x>> /\ <<b, x>> # <<n>>
      BY ONLY <3>1, InnerParts
    <3> QED BY <2>1, <3>2
  <2> QED BY <2>1, <2>2, <2>3, <2>4 DEF IsKey
<1> DEFINE Upto(j) == {f[i] : i \in 1..j}
           Done(j) == \E e : Reach(s.out \o Pre(new, j), e, a) /\ Gained(d, e, Upto(j), s.left)
<1>10. \A j \in 0..N : Done(j)
  <2> DEFINE T == {j \in 0..N : ~Done(j)}
  <2> SUFFICES ASSUME T # {} PROVE FALSE
    OBVIOUS
  <2>1. T \subseteq Nat
    OBVIOUS
  <2>2. PICK m \in T : \A j \in T : m <= j
    BY ONLY <2>1, T # {}, HasLeast
  <2>3. m \in 0..N /\ ~Done(m)
    OBVIOUS
  <2>4. m # 0
    <3>1. s.out \o Pre(new, 0) = s.out
      <4>1. Pre(new, 0) = <<>>
        BY DEF Pre
      <4> QED BY <1>5, <4>1, ConcatEmptySeq
    <3>2. Gained(d, d, {}, s.left)
      BY DEF Gained
    <3>3. Upto(0) = {}
      OBVIOUS
    <3>4. Done(0)
      BY <3>1, <3>2, <3>3
    <3> QED BY <2>3, <3>4
  <2>5. PICK j \in Nat : m = j + 1 /\ j \in 0..N /\ j < N /\ ~(m <= j)
    <3>1. m - 1 \in Nat /\ m = (m - 1) + 1 /\ m - 1 \in 0..N /\ m - 1 < N /\ ~(m <= m - 1)
      BY <1>4, <2>3, <2>4
    <3> QED BY <3>1
  <2>6. Done(j)
    BY <2>2, <2>5
  <2>7. PICK e : Reach(s.out \o Pre(new, j), e, a) /\ Gained(d, e, Upto(j), s.left)
    BY <2>6
  <2>8. PICK k : k = f[j + 1]
    OBVIOUS
  <2>9. k \in S /\ k \notin Upto(j) /\ Upto(j + 1) = Upto(j) \cup {k} /\ j + 1 \in 1..N
    BY <1>4, <2>5, <2>8
  <2>10. s.out \o Pre(new, j + 1) = Append(s.out \o Pre(new, j), new[j + 1])
    <3>1. j \in Nat /\ j < Len(new)
      BY <1>7, <2>5
    <3>2. PICK out : out = s.out
      OBVIOUS
    <3>3. out \in Seq(L)
      BY <1>5, <3>2
    <3>4. out \o Pre(new, j + 1) = Append(out \o Pre(new, j), new[j + 1])
      BY ONLY <1>7, <3>1, <3>3, ConcatPre
    <3> QED BY <3>2, <3>4
  <2>11. Foothold!Last(k) \notin Foothold!NotNames => k \notin DOMAIN e.values
    BY <1>9, <2>7, <2>9 DEF Gained
  <2>12. e.path = <<n>>
    BY <2>7 DEF Gained
  <2>13. PICK r : /\ Reach(Append(s.out \o Pre(new, j), new[j + 1]), r, a) /\ r.path = e.path
                  /\ Sets(e.values, r.values, k, s.left[k])
    <3>1. PICK lines, x, v : lines = s.out \o Pre(new, j) /\ x = Foothold!Last(k) /\ v = s.left[k]
      OBVIOUS
    <3>2. new[j + 1] = Foothold!Row(x, v, "yes", "no") /\ k = <<n, x>>
      BY <1>4, <1>9, <2>8, <2>9, <3>1 DEF RowFor
    <3>3. k = e.path \o <<x>>
      BY <2>12, <3>2, KeyParts
    <3>4. /\ Reach(lines, e, a) /\ v # Foothold!Removed
          /\ (x \notin Foothold!NotNames => k \notin DOMAIN e.values)
      BY <1>1, <2>7, <2>9, <2>11, <3>1 DEF Foothold!Unplaced
    <3>6. e.path = <<>> => x # "Reward"
      <4>1. <<n>> # <<>>
        OBVIOUS
      <4> QED BY <2>12, <4>1
    <3>5. \E r : /\ Reach(Append(lines, Foothold!Row(x, v, "yes", "no")), r, a)
                 /\ r.path = e.path /\ Sets(e.values, r.values, k, v)
      BY ONLY <3>3, <3>4, <3>6, RowIn
    <3> QED BY <3>1, <3>2, <3>5
  <2>14. Gained(d, r, Upto(j + 1), s.left)
    BY <2>7, <2>9, <2>13 DEF Gained, Sets
  <2> QED BY <2>3, <2>5, <2>10, <2>13, <2>14
<1> HIDE DEF Done, Upto
<1>11. Done(N)
  <2>1. N \in 0..N
    BY <1>4
  <2> QED BY <1>10, <2>1
<1>12. s.out \o Pre(new, N) = s.out \o new
  <2>1. Pre(new, N) = new
    BY <1>4 DEF Pre
  <2> QED BY <2>1
<1>13. Upto(N) = S
  BY <1>4 DEF Upto
<1> QED BY <1>1, <1>4, <1>11, <1>12, <1>13 DEF Done

-----------------------------------------------------------------------------
(* The reader of a file, s, the one who rewrites it, r, and the reader of  *)
(* what has been written, e, with the tables in a closed.                  *)

Fields(updates) == IsFiniteSet(DOMAIN updates) /\ \A k \in DOMAIN updates : IsKey(k)
Has(e, k, v) ==
  IF v = Foothold!Removed THEN k \notin DOMAIN e.values ELSE k \in DOMAIN e.values /\ e.values[k] = v
InClosed(k, a) == \E n, x : <<n>> \in a /\ k = <<n, x>>

\* A key that was sent is not written before its line has come, or its table ends.
KeyFollows(updates, s, r, e, a, k) ==
  IF k \in DOMAIN r.left
  THEN /\ k \notin DOMAIN s.values
       /\ IF InClosed(k, a) THEN Has(e, k, updates[k]) ELSE k \notin DOMAIN e.values
  ELSE k \in DOMAIN s.values /\ Has(e, k, updates[k])
\* Any other key reads as before.
Same(s, e, k) ==
  /\ k \in DOMAIN s.values <=> k \in DOMAIN e.values
  /\ k \in DOMAIN s.values => e.values[k] = s.values[k]
\* A row that is taken for a field leaves only what is in tables as it should be.
Told(clear, k) == clear = "yes" \/ IsPair(k)
Unmistaken(clear, updates, l) ==
  clear = "yes" /\ l.kind = "inner" => <<Foothold!Last(l.key)>> \notin DOMAIN updates
Follows(clear, updates, s, r, e, a) ==
  /\ IsRewriter(r) /\ r.path = s.path /\ e.path = s.path
  /\ DOMAIN r.left \subseteq DOMAIN updates /\ \A k \in DOMAIN r.left : r.left[k] = updates[k]
  /\ \A k \in DOMAIN e.values : k \in DOMAIN s.values \/ (k \in DOMAIN updates /\ InClosed(k, a))
  /\ {First, Second} \cap DOMAIN s.values \subseteq DOMAIN e.values
  /\ \A k : Told(clear, k) /\ (k \notin DOMAIN updates \/ Apart(k, a)) => Same(s, e, k)
  /\ \A k \in DOMAIN updates :
       Told(clear, k) /\ ~Apart(k, a) /\ Foothold!Last(k) \notin Foothold!NotNames
         => KeyFollows(updates, s, r, e, a, k)

\* A key of the table that is read is of none that is closed, and not dotted.
LEMMA NewKey ==
  ASSUME NEW s, NEW a, Within(s, a), NEW x, NEW key, key = s.path \o <<x>>
  PROVE  ~InClosed(key, a) /\ ~Apart(key, a) /\ key \notin {First, Second} /\ Foothold!Last(key) = x
<1>1. /\ s.path = <<>> => key = <<x>>
      /\ \A n : s.path = <<n>> => key = <<n, x>>
      /\ Foothold!Last(key) = x
  BY KeyIn
<1>2. CASE s.path = <<>>
  <2>1. \A n, y, z : <<x>> # <<n, y>> /\ <<x>> # <<n, y, z>>
    OBVIOUS
  <2>2. ~InClosed(<<x>>, a) /\ ~Apart(<<x>>, a)
    BY ONLY <2>1 DEF InClosed, Apart
  <2>3. <<x>> \notin {First, Second}
    BY ONLY <2>1 DEF First, Second
  <2> QED BY <1>1, <1>2, <2>2, <2>3
<1>3. CASE s.path # <<>>
  <2>1. PICK n : s.path = <<n>> /\ <<n>> \notin a /\ n # "Reward" /\ key = <<n, x>>
    BY <1>1, <1>3 DEF Within
  <2>2. ~InClosed(<<n, x>>, a) /\ <<n, x>> \notin {First, Second}
    <3>1. \A m, y : <<m, y>> = <<n, x>> => m = n
      OBVIOUS
    <3> QED BY ONLY <2>1, <3>1 DEF InClosed, First, Second
  <2>3. <<n, x>> \notin a
    BY <2>1 DEF Within, AreClosed
  <2>4. ~Apart(<<n, x>>, a)
    BY <2>3 DEF Apart
  <2> QED BY <1>1, <2>1, <2>2, <2>4
<1> QED BY <1>2, <1>3

LEMMA AppendIs ==
  ASSUME NEW lines, NEW s, NEW a, Reach(lines, s, a), NEW l PROVE lines \o <<l>> = Append(lines, l)
<1>1. PICK L : lines \in Seq(L)
  BY DEF Reach
<1> QED BY <1>1

LEMMA ReachLine ==
  ASSUME NEW lines, NEW s, NEW a, Reach(lines, s, a), NEW l, NEW b, Allowed(s, a, b, l),
         NEW out, out = lines \o <<l>>, NEW r, r = Foothold!Reads(s, l)
  PROVE  Reach(out, r, b)
<1>1. out = Append(lines, l)
  BY AppendIs
<1> QED BY <1>1, ReachAppend

\* The lemmas below: after one more line, of each kind, the reader of what
\* is written is where the reader of the file is, and its values are those of the
\* file but for the keys that were sent and have been written.
LEMMA OpeningFollows ==
  ASSUME NEW clear, NEW updates, NEW s, NEW r, NEW e, NEW a, NEW b, NEW l,
         Within(s, a), Reach(r.out, e, a), Follows(clear, updates, s, r, e, a), Allowed(s, a, b, l),
         l.kind = "open"
  PROVE  \E d : /\ Reach(Foothold!Rewrites(r, l).out, d, b)
                /\ Follows(clear, updates, Foothold!Reads(s, l), Foothold!Rewrites(r, l), d, b)
<1>1. PICK s2, r2, d :
        s2 = Foothold!Reads(s, l) /\ r2 = Foothold!Rewrites(r, l) /\ d = Foothold!Reads(e, l)
  OBVIOUS
<1>2. IsReader(s) /\ IsReader(e) /\ IsRewriter(r) /\ e.path = s.path /\ r.path = s.path /\ a = b
  BY ReachWithin DEF Within, Follows, Allowed
<1>3. s2.path = s.path \o <<l.key>> /\ s2.values = s.values
  BY <1>1, <1>2, ReadsOpening
<1>4. d.path = e.path \o <<l.key>> /\ d.values = e.values
  BY <1>1, <1>2, ReadsOpening
<1>5. /\ IsRewriter(r2) /\ r2.path = r.path \o <<l.key>> /\ r2.left = r.left
      /\ r2.out = r.out \o <<l>>
  BY <1>1, <1>2, RewritesOpening
<1>6. Allowed(e, a, b, l)
  BY <1>2 DEF Allowed
<1>7. Reach(r2.out, d, b)
  <2>1. PICK lines, out : lines = r.out /\ out = r2.out
    OBVIOUS
  <2>2. Reach(lines, e, a) /\ out = lines \o <<l>> /\ d = Foothold!Reads(e, l)
    BY <1>1, <1>5, <2>1
  <2>3. Reach(out, d, b)
    BY ONLY <1>6, <2>2, ReachLine
  <2> QED BY <2>1, <2>3
<1>8. \A k : KeyFollows(updates, s, r, e, a, k) => KeyFollows(updates, s2, r2, d, b, k)
  BY <1>2, <1>3, <1>4, <1>5 DEF KeyFollows, Has
<1>9. Follows(clear, updates, s2, r2, d, b)
  BY <1>2, <1>3, <1>4, <1>5, <1>8 DEF Follows, Same
<1> QED BY <1>1, <1>7, <1>9

\* A row or an element that is left as it is.
LEMMA KeptFollows ==
  ASSUME NEW clear, NEW updates, NEW s, NEW r, NEW e, NEW a, NEW b, NEW l, Fields(updates),
         Within(s, a), Reach(r.out, e, a), Follows(clear, updates, s, r, e, a), Allowed(s, a, b, l),
         l.kind \in {"row", "item"}, ~Named(r, l)
  PROVE  \E d : /\ Reach(Foothold!Rewrites(r, l).out, d, b)
                /\ Follows(clear, updates, Foothold!Reads(s, l), Foothold!Rewrites(r, l), d, b)
<1>1. PICK s2, r2, d :
        s2 = Foothold!Reads(s, l) /\ r2 = Foothold!Rewrites(r, l) /\ d = Foothold!Reads(e, l)
  OBVIOUS
<1>2. IsReader(s) /\ IsReader(e) /\ IsRewriter(r) /\ e.path = s.path /\ r.path = s.path /\ a = b
  BY ReachWithin DEF Within, Follows, Allowed
<1>3. PICK key : key = s.path \o <<l.key>>
  OBVIOUS
<1>4. s2.path = s.path /\ s2.values = RowSets(s, l)
  BY <1>1, <1>2, ReadsRow
<1>5. d.path = e.path /\ d.values = RowSets(e, l)
  BY <1>1, <1>2, ReadsRow
<1>17. PICK v : v = l.val[1]
  OBVIOUS
<1>6. Sets(s.values, s2.values, key, v)
  BY <1>3, <1>4, <1>17, RowSetsIs
<1>7. Sets(e.values, d.values, key, v)
  BY <1>2, <1>3, <1>5, <1>17, RowSetsIs
<1>19. ~Mistaken(r, l)
  BY DEF Mistaken
<1>8. /\ IsRewriter(r2) /\ r2.path = r.path /\ r2.left = r.left
      /\ r2.out = r.out \o <<l>>
  BY <1>1, <1>2, <1>19, RewritesOther
<1>9. Foothold!Last(key) = l.key /\ ~InClosed(key, a) /\ ~Apart(key, a)
  <2>1. PICK x : x = l.key
    OBVIOUS
  <2>2. Within(s, a) /\ key = s.path \o <<x>>
    BY <1>3, <2>1
  <2> QED BY ONLY <2>1, <2>2, NewKey
<1>10. l.key \notin Foothold!NotNames =>
         l.kind = "row" /\ key \notin DOMAIN s.values /\ key \notin DOMAIN r.left
  BY <1>2, <1>3 DEF Allowed, Named
<1>11. l.key \notin Foothold!NotNames => key \notin DOMAIN e.values
  BY <1>9, <1>10 DEF Follows
<1>12. Allowed(e, a, b, l)
  BY <1>2, <1>3, <1>10, <1>11 DEF Allowed
<1>13. Reach(r2.out, d, b)
  <2>1. PICK lines, out : lines = r.out /\ out = r2.out
    OBVIOUS
  <2>2. Reach(lines, e, a) /\ out = lines \o <<l>> /\ d = Foothold!Reads(e, l)
    BY <1>1, <1>8, <2>1
  <2>3. Reach(out, d, b)
    BY ONLY <1>12, <2>2, ReachLine
  <2> QED BY <2>1, <2>3
<1>14. \A k : k # key /\ KeyFollows(updates, s, r, e, a, k) => KeyFollows(updates, s2, r2, d, b, k)
  BY <1>2, <1>6, <1>7, <1>8 DEF KeyFollows, Has, Sets
<1>15. key \in DOMAIN updates /\ Told(clear, key) => Foothold!Last(key) \in Foothold!NotNames
  BY <1>9, <1>10 DEF Follows, KeyFollows
<1>18. \A k : Same(s, e, k) => Same(s2, d, k)
  BY <1>6, <1>7 DEF Same, Sets
<1>16. Follows(clear, updates, s2, r2, d, b)
  BY <1>2, <1>4, <1>5, <1>6, <1>7, <1>8, <1>14, <1>15, <1>18 DEF Follows, Sets, Same
<1> QED BY <1>1, <1>13, <1>16

\* The list, whose key no save is sent.
LEMMA ListFollows ==
  ASSUME NEW clear, NEW updates, NEW s, NEW r, NEW e, NEW a, NEW b, NEW l, Fields(updates),
         Within(s, a), Reach(r.out, e, a), Follows(clear, updates, s, r, e, a), Allowed(s, a, b, l),
         l.kind = "pair"
  PROVE  \E d : /\ Reach(Foothold!Rewrites(r, l).out, d, b)
                /\ Follows(clear, updates, Foothold!Reads(s, l), Foothold!Rewrites(r, l), d, b)
<1>1. PICK s2, r2, d :
        s2 = Foothold!Reads(s, l) /\ r2 = Foothold!Rewrites(r, l) /\ d = Foothold!Reads(e, l)
  OBVIOUS
<1>2. IsReader(s) /\ IsReader(e) /\ IsRewriter(r) /\ e.path = s.path /\ r.path = s.path /\ a = b
  BY ReachWithin DEF Within, Follows, Allowed
<1>3. IsList(s, l) /\ IsList(e, l)
  BY <1>2 DEF Allowed, IsList
<1>4. r.path \o <<l.key>> = <<"Reward">>
  BY <1>2, <1>3, KeyParts DEF IsList
<1>5. ~Named(r, l)
  <2>1. ~IsKey(<<"Reward">>)
    BY DEF IsKey
  <2> QED BY <1>4, <2>1 DEF Named, Follows, Fields
<1>6. s2.path = s.path /\ s2.values = PairSets(s, l)
  BY <1>1, <1>2, ReadsPair
<1>7. d.path = e.path /\ d.values = PairSets(e, l)
  BY <1>1, <1>2, ReadsPair
<1>8. PICK v, w : v = l.val[1] /\ w = l.val[2]
  OBVIOUS
<1>9. SetsBoth(s.values, s2.values, v, w) /\ SetsBoth(e.values, d.values, v, w)
  BY <1>3, <1>6, <1>7, <1>8, PairSetsIs
<1>17. ~Mistaken(r, l)
  BY DEF Mistaken
<1>10. /\ IsRewriter(r2) /\ r2.path = r.path /\ r2.left = r.left
       /\ r2.out = r.out \o <<l>>
  BY <1>1, <1>2, <1>5, <1>17, RewritesOther
<1>11. Allowed(e, a, b, l)
  BY <1>2 DEF Allowed
<1>12. Reach(r2.out, d, b)
  <2>1. PICK lines, out : lines = r.out /\ out = r2.out
    OBVIOUS
  <2>2. Reach(lines, e, a) /\ out = lines \o <<l>> /\ d = Foothold!Reads(e, l)
    BY <1>1, <1>10, <2>1
  <2>3. Reach(out, d, b)
    BY ONLY <1>11, <2>2, ReachLine
  <2> QED BY <2>1, <2>3
<1>13. Foothold!Last(First) \in Foothold!NotNames /\ Foothold!Last(Second) \in Foothold!NotNames
  <2>1. \A x : Foothold!Last(<<"Reward", x>>) = x
    BY KeyParts
  <2> QED BY <2>1 DEF First, Second, Foothold!NotNames
<1>14. \A k : k \notin {First, Second} /\ KeyFollows(updates, s, r, e, a, k)
                => KeyFollows(updates, s2, r2, d, b, k)
  BY <1>2, <1>9, <1>10 DEF KeyFollows, Has, SetsBoth
<1>16. \A k : Same(s, e, k) => Same(s2, d, k)
  BY <1>9 DEF Same, SetsBoth
<1>15. Follows(clear, updates, s2, r2, d, b)
  BY <1>2, <1>6, <1>7, <1>9, <1>10, <1>13, <1>14, <1>16 DEF Follows, SetsBoth
<1> QED BY <1>1, <1>12, <1>15

\* A row that was sent, removed or changed.
LEMMA NamedFollows ==
  ASSUME NEW clear, NEW updates, NEW s, NEW r, NEW e, NEW a, NEW b, NEW l, Fields(updates),
         Within(s, a), Reach(r.out, e, a), Follows(clear, updates, s, r, e, a), Allowed(s, a, b, l),
         l.kind = "row", Named(r, l)
  PROVE  \E d : /\ Reach(Foothold!Rewrites(r, l).out, d, b)
                /\ Follows(clear, updates, Foothold!Reads(s, l), Foothold!Rewrites(r, l), d, b)
<1>1. PICK s2, r2 : s2 = Foothold!Reads(s, l) /\ r2 = Foothold!Rewrites(r, l)
  OBVIOUS
<1>2. IsReader(s) /\ IsReader(e) /\ IsRewriter(r) /\ e.path = s.path /\ r.path = s.path /\ a = b
  BY ReachWithin DEF Within, Follows, Allowed
<1>3. PICK key : key = s.path \o <<l.key>>
  OBVIOUS
<1>4. PICK v : v = l.val[1]
  OBVIOUS
<1>5. l.kind \in {"row", "item"}
  OBVIOUS
<1>6. s2.path = s.path /\ s2.values = RowSets(s, l)
  BY <1>1, <1>2, <1>5, ReadsRow
<1>7. Sets(s.values, s2.values, key, v)
  BY <1>3, <1>4, <1>6, RowSetsIs
<1>8. key \in DOMAIN r.left /\ r.left[key] = updates[key] /\ key \in DOMAIN updates
  BY <1>2, <1>3 DEF Named, Follows
<1>9. Foothold!Last(key) = l.key /\ ~InClosed(key, a) /\ ~Apart(key, a) /\ key \notin {First, Second}
  <2>1. PICK x : x = l.key
    OBVIOUS
  <2>2. Within(s, a) /\ key = s.path \o <<x>>
    BY <1>3, <2>1
  <2> QED BY ONLY <2>1, <2>2, NewKey
<1>10. l.key \notin Foothold!NotNames => key \notin DOMAIN s.values
  BY <1>2, <1>3 DEF Allowed
<1>11. l.key \notin Foothold!NotNames => key \notin DOMAIN e.values
  BY <1>9, <1>10 DEF Follows
<1>12. /\ IsRewriter(r2) /\ r2.path = r.path /\ r2.left = Less(r.left, key)
       /\ r.left[key] = Foothold!Removed => r2.out = r.out \o <<>>
       /\ r.left[key] # Foothold!Removed =>
            \E comma : r2.out = r.out \o <<Foothold!Row(l.key, r.left[key], comma, l.note)>>
  <2>1. Replaces(r, r2, "row", l, key)
    BY <1>1, <1>2, <1>3, RewritesNamed
  <2> QED BY <2>1 DEF Replaces, Foothold!Row
<1>13. DOMAIN r2.left = DOMAIN r.left \ {key} /\ \A k \in DOMAIN r2.left : r2.left[k] = r.left[k]
  BY <1>12 DEF Less
<1>14. CASE updates[key] = Foothold!Removed
  <2>1. r2.out = r.out
    <3>1. PICK L : r.out \in Seq(L)
      BY DEF Reach
    <3>2. r2.out = r.out \o <<>>
      BY <1>8, <1>12, <1>14
    <3> QED BY <3>1, <3>2, ConcatEmptySeq
  <2>2. Reach(r2.out, e, b)
    BY <1>2, <2>1
  <2>3. \A k : k # key /\ KeyFollows(updates, s, r, e, a, k) => KeyFollows(updates, s2, r2, e, b, k)
    BY <1>2, <1>7, <1>13 DEF KeyFollows, Has, Sets
  <2>4. Foothold!Last(key) \notin Foothold!NotNames => KeyFollows(updates, s2, r2, e, b, key)
    BY <1>7, <1>9, <1>11, <1>13, <1>14 DEF KeyFollows, Has, Sets
  <2>6. \A k : k # key /\ Same(s, e, k) => Same(s2, e, k)
    BY <1>7 DEF Same, Sets
  <2>5. Follows(clear, updates, s2, r2, e, b)
    BY <1>2, <1>6, <1>7, <1>8, <1>9, <1>12, <1>13, <2>3, <2>4, <2>6 DEF Follows, Sets
  <2> QED BY <1>1, <2>2, <2>5
<1>15. CASE updates[key] # Foothold!Removed
  <2>1. PICK comma : r2.out = r.out \o <<Foothold!Row(l.key, r.left[key], comma, l.note)>>
    BY <1>8, <1>12, <1>15
  <2>2. PICK new, x, u, note, lines :
          /\ new = Foothold!Row(x, u, comma, note) /\ x = l.key /\ u = updates[key] /\ note = l.note
          /\ lines = r.out
    OBVIOUS
  <2>3. /\ Reach(lines, e, a) /\ u # Foothold!Removed /\ key = e.path \o <<x>>
        /\ (x \notin Foothold!NotNames => key \notin DOMAIN e.values)
    BY <1>2, <1>3, <1>11, <1>15, <2>2
  <2>11. e.path = <<>> => x # "Reward"
    <3>1. ASSUME e.path = <<>>, x = "Reward" PROVE FALSE
      <4>1. key = <<"Reward">>
        BY <2>3, <3>1, KeyParts
      <4>2. IsKey(key)
        BY <1>8 DEF Fields
      <4> QED BY <4>1, <4>2 DEF IsKey
    <3> QED BY <3>1
  <2>4. \E d : /\ Reach(Append(lines, Foothold!Row(x, u, comma, note)), d, a)
               /\ d.path = e.path /\ Sets(e.values, d.values, key, u)
    BY ONLY <2>3, <2>11, RowIn
  <2>5. PICK d : /\ Reach(Append(lines, new), d, a)
                 /\ d.path = e.path /\ Sets(e.values, d.values, key, updates[key])
    BY <2>2, <2>4
  <2>6. r2.out = lines \o <<new>>
    BY <1>8, <2>1, <2>2
  <2>7. Reach(r2.out, d, b)
    BY <1>2, <2>3, <2>5, <2>6, AppendIs
  <2>8. \A k : k # key /\ KeyFollows(updates, s, r, e, a, k) => KeyFollows(updates, s2, r2, d, b, k)
    BY <1>2, <1>7, <1>13, <2>5 DEF KeyFollows, Has, Sets
  <2>9. KeyFollows(updates, s2, r2, d, b, key)
    BY <1>7, <1>13, <1>15, <2>5 DEF KeyFollows, Has, Sets
  <2>12. \A k : k # key /\ Same(s, e, k) => Same(s2, d, k)
    BY <1>7, <2>5 DEF Same, Sets
  <2>10. Follows(clear, updates, s2, r2, d, b)
    BY <1>2, <1>6, <1>7, <1>8, <1>9, <1>12, <1>13, <2>5, <2>8, <2>9, <2>12 DEF Follows, Sets
  <2> QED BY <1>1, <2>7, <2>10
<1> QED BY <1>14, <1>15

\* The end of a table, and the rows it gets before it.
LEMMA ClosingFollows ==
  ASSUME NEW clear, NEW updates, NEW s, NEW r, NEW e, NEW a, NEW b, NEW l, Fields(updates),
         Within(s, a), Reach(r.out, e, a), Follows(clear, updates, s, r, e, a), Allowed(s, a, b, l),
         l.kind = "close"
  PROVE  \E d : /\ Reach(Foothold!Rewrites(r, l).out, d, b)
                /\ Follows(clear, updates, Foothold!Reads(s, l), Foothold!Rewrites(r, l), d, b)
<1>1. PICK s2, r2 : s2 = Foothold!Reads(s, l) /\ r2 = Foothold!Rewrites(r, l)
  OBVIOUS
<1>2. IsReader(s) /\ IsReader(e) /\ IsRewriter(r) /\ e.path = s.path /\ r.path = s.path
  BY ReachWithin DEF Within, Follows
<1>3. PICK n : s.path = <<n>> /\ <<n>> \notin a
  BY DEF Within, Allowed
<1>4. b = a \cup {<<n>>} /\ s.path # <<>>
  BY <1>3 DEF Allowed
<1>23. \A k : Apart(k, a) <=> Apart(k, b)
  <2>1. \A m, x : <<m, x>> # <<n>>
    OBVIOUS
  <2> QED BY <1>4, <2>1 DEF Apart
<1>5. PICK S : S = Foothold!Unplaced(r)
  OBVIOUS
<1>6. \A k :
        k \in S <=> k \in DOMAIN r.left /\ Foothold!Front(k) = <<n>> /\ r.left[k] # Foothold!Removed
  BY <1>2, <1>3, <1>4, <1>5 DEF Foothold!Unplaced
<1>7. /\ IsFiniteSet(DOMAIN r.left)
      /\ \A k \in DOMAIN r.left : IsKey(k) /\ r.left[k] = updates[k] /\ k \in DOMAIN updates
  BY FS_Subset DEF Fields, Follows
<1>8. \A k \in DOMAIN r.left : Foothold!Front(k) = <<n>> => \E x : k = <<n, x>>
  <2> SUFFICES ASSUME NEW k \in DOMAIN r.left, Foothold!Front(k) = <<n>> PROVE \E x : k = <<n, x>>
    OBVIOUS
  <2>1. CASE \E c : k = <<c>>
    <3>1. Foothold!Front(k) = <<>> /\ <<n>> # <<>>
      BY ONLY <2>1, KeyParts
    <3> QED BY <3>1
  <2>2. CASE \E c, x : k = <<c, x>>
    <3>1. PICK c, x : k = <<c, x>>
      BY <2>2
    <3>2. Foothold!Front(k) = <<c>>
      BY ONLY <3>1, KeyParts
    <3>3. c = n
      BY <3>2
    <3> QED BY <3>1, <3>3
  <2>3. CASE \E c, x, y : k = <<c, x, y>>
    <3>1. PICK c, x, y : k = <<c, x, y>>
      BY <2>3
    <3>2. Foothold!Front(k) = <<c, x>> /\ <<c, x>> # <<n>>
      BY ONLY <3>1, InnerParts
    <3> QED BY <3>2
  <2> QED BY <1>7, <2>1, <2>2, <2>3 DEF IsKey
<1>9. \A x : Foothold!Front(<<n, x>>) = <<n>>
  BY KeyParts
<1>10. \A k \in S : ~InClosed(k, a) /\ InClosed(k, b) /\ ~Apart(k, a) /\ Told(clear, k)
  <2> SUFFICES ASSUME NEW k \in S
               PROVE  ~InClosed(k, a) /\ InClosed(k, b) /\ ~Apart(k, a) /\ Told(clear, k)
    OBVIOUS
  <2>1. PICK x : k = <<n, x>>
    BY <1>6, <1>8
  <2>2. k = s.path \o <<x>>
    BY <1>3, <2>1, KeyParts
  <2>3. ~InClosed(k, a) /\ ~Apart(k, a)
    BY <2>2, NewKey
  <2>4. <<n>> \in b
    BY <1>4
  <2> QED BY <2>1, <2>3, <2>4 DEF InClosed, Told, IsPair
<1>11. \A k \in S : Foothold!Last(k) \notin Foothold!NotNames => k \notin DOMAIN e.values
  BY <1>6, <1>7, <1>10 DEF Follows, KeyFollows
<1>12. PICK c : Reach(r.out \o Foothold!Inserted(r), c, a) /\ Gained(e, c, S, r.left)
  BY <1>2, <1>3, <1>5, <1>7, <1>11, RowsInserted
<1>13. PICK d : d = Foothold!Reads(c, l)
  OBVIOUS
<1>14. IsReader(c) /\ c.path = s.path
  BY <1>2, <1>12, ReachWithin DEF Within, Gained
<1>15. s2.path = Foothold!Front(s.path) /\ s2.values = s.values
  BY <1>1, <1>2, ReadsClosing
<1>16. d.path = Foothold!Front(c.path) /\ d.values = c.values
  BY <1>13, <1>14, ReadsClosing
<1>17. /\ IsRewriter(r2) /\ r2.path = Foothold!Front(r.path) /\ r2.left = r.left
       /\ r2.out = (r.out \o Foothold!Inserted(r)) \o <<l>>
  BY <1>1, <1>2, <1>4, RewritesClosing DEF Foothold!Popped
<1>18. Allowed(c, a, b, l)
  BY <1>14 DEF Allowed
<1>19. Reach(r2.out, d, b)
  <2>1. PICK lines : lines = r.out \o Foothold!Inserted(r)
    OBVIOUS
  <2>2. Reach(lines, c, a) /\ r2.out = lines \o <<l>>
    BY <1>12, <1>17, <2>1
  <2>3. r2.out = Append(lines, l)
    BY <2>2, AppendIs
  <2> QED BY <1>13, <1>18, <2>2, <2>3, ReachAppend
<1>20. \A k \in DOMAIN updates :
         KeyFollows(updates, s, r, e, a, k) => KeyFollows(updates, s2, r2, d, b, k)
  <2> SUFFICES ASSUME NEW k \in DOMAIN updates, KeyFollows(updates, s, r, e, a, k)
               PROVE  KeyFollows(updates, s2, r2, d, b, k)
    OBVIOUS
  <2>1. CASE k \in S
    <3>1. Has(d, k, updates[k]) /\ k \in DOMAIN r.left
      BY <1>6, <1>7, <1>12, <1>16, <2>1 DEF Gained, Has
    <3> QED BY <1>10, <1>15, <1>17, <2>1, <3>1 DEF KeyFollows
  <2>2. CASE k \notin S
    <3>1. \A v : Has(e, k, v) <=> Has(d, k, v)
      BY <1>12, <1>16, <2>2 DEF Gained, Has
    <3>2. k \in DOMAIN e.values <=> k \in DOMAIN d.values
      BY <1>12, <1>16, <2>2 DEF Gained
    <3>3. InClosed(k, a) => InClosed(k, b)
      BY <1>4 DEF InClosed
    <3>4. k \in DOMAIN r.left /\ InClosed(k, b) /\ ~InClosed(k, a) => updates[k] = Foothold!Removed
      <4> SUFFICES ASSUME k \in DOMAIN r.left, InClosed(k, b), ~InClosed(k, a)
                   PROVE  updates[k] = Foothold!Removed
        OBVIOUS
      <4>1. PICK x : k = <<n, x>>
        BY <1>4 DEF InClosed
      <4>2. Foothold!Front(k) = <<n>>
        BY <1>9, <4>1
      <4> QED BY <1>6, <1>7, <2>2, <4>2
    <3> QED BY <1>15, <1>17, <3>1, <3>2, <3>3, <3>4 DEF KeyFollows, Has
  <2> QED BY <2>1, <2>2
<1>21. S \subseteq DOMAIN updates
  BY <1>6, <1>7
<1>24. \A k : k \notin S /\ Same(s, e, k) => Same(s2, d, k)
  BY <1>12, <1>15, <1>16 DEF Same, Gained
<1>25. \A k \in DOMAIN d.values : k \in DOMAIN s2.values \/ (k \in DOMAIN updates /\ InClosed(k, b))
  <2>1. \A k : InClosed(k, a) => InClosed(k, b)
    BY <1>4 DEF InClosed
  <2> QED BY <1>10, <1>12, <1>15, <1>16, <1>21, <2>1 DEF Follows, Gained
<1>26. \A k : Told(clear, k) /\ (k \notin DOMAIN updates \/ Apart(k, b)) => Same(s2, d, k)
  BY <1>10, <1>21, <1>23, <1>24 DEF Follows
<1>27. {First, Second} \cap DOMAIN s2.values \subseteq DOMAIN d.values
  BY <1>12, <1>15, <1>16 DEF Follows, Gained
<1>28. r2.path = s2.path /\ d.path = s2.path /\ r2.left = r.left
  BY <1>2, <1>14, <1>15, <1>16, <1>17
<1>22. Follows(clear, updates, s2, r2, d, b)
  BY <1>7, <1>17, <1>20, <1>23, <1>25, <1>26, <1>27, <1>28 DEF Follows
<1> QED BY <1>1, <1>19, <1>22

\* A line that a dotted name begins: what the name stood for is gone from both.
LEMMA MarkFollows ==
  ASSUME NEW clear, NEW updates, NEW s, NEW r, NEW e, NEW a, NEW b, NEW l, Fields(updates),
         Within(s, a), Reach(r.out, e, a), Follows(clear, updates, s, r, e, a), Allowed(s, a, b, l),
         l.kind \in {"dotted", "under"}
  PROVE  \E d : /\ Reach(Foothold!Rewrites(r, l).out, d, b)
                /\ Follows(clear, updates, Foothold!Reads(s, l), Foothold!Rewrites(r, l), d, b)
<1>1. PICK s2, r2, d :
        s2 = Foothold!Reads(s, l) /\ r2 = Foothold!Rewrites(r, l) /\ d = Foothold!Reads(e, l)
  OBVIOUS
<1>2. IsReader(s) /\ IsReader(e) /\ IsRewriter(r) /\ e.path = s.path /\ r.path = s.path
  BY ReachWithin DEF Within, Follows
<1>3. AllowedDotted(s, a, b, l) /\ b = a \cup {l.key} /\ (l.kind = "dotted" => l.val[1] # Foothold!Removed)
  BY DEF Allowed, AllowedDotted
<1>4. PICK n, x, key : l.key = key /\ key = <<n, x>> /\ <<n>> \in a
  BY <1>3 DEF AllowedDotted
<1>5. PICK w : w = Marked(l)
  OBVIOUS
<1>6. s2.path = s.path /\ Marks(s.values, s2.values, key, w)
  <2>1. s2.path = s.path /\ Marks(s.values, s2.values, l.key, Marked(l))
    BY ONLY <1>1, <1>2, <1>3, l.kind \in {"dotted", "under"}, ReadsMark
  <2> QED BY <1>4, <1>5, <2>1
<1>7. d.path = e.path /\ Marks(e.values, d.values, key, w)
  BY <1>1, <1>2, <1>3, <1>4, <1>5, ReadsMark
<1>8. ~Mistaken(r, l) /\ ~Named(r, l)
  BY DEF Mistaken, Named
<1>9. /\ IsRewriter(r2) /\ r2.path = r.path /\ r2.left = r.left
      /\ r2.out = r.out \o <<l>>
  BY <1>1, <1>2, <1>8, RewritesOther
<1>10. Allowed(e, a, b, l)
  BY <1>2, <1>3 DEF Allowed, AllowedDotted
<1>11. Reach(r2.out, d, b)
  <2>1. PICK lines, out : lines = r.out /\ out = r2.out
    OBVIOUS
  <2>2. Reach(lines, e, a) /\ out = lines \o <<l>> /\ d = Foothold!Reads(e, l)
    BY <1>1, <1>9, <2>1
  <2>3. Reach(out, d, b)
    BY ONLY <1>10, <2>2, ReachLine
  <2> QED BY <2>1, <2>3
<1>12. \A k : Same(s, e, k) => Same(s2, d, k)
  BY <1>6, <1>7 DEF Same, Marks
<1>13. \A k : k = key \/ Foothold!Front(k) = key => Same(s2, d, k)
  BY <1>6, <1>7 DEF Same, Marks
<1>14. \A k : Apart(k, b) => Apart(k, a) \/ k = key \/ Foothold!Front(k) = key
  <2> SUFFICES ASSUME NEW k, Apart(k, b), ~Apart(k, a), k # key PROVE Foothold!Front(k) = key
    OBVIOUS
  <2>1. PICK m, z : <<m, z>> \in b /\ (k = <<m, z>> \/ \E y : k = <<m, z, y>>)
    BY DEF Apart
  <2>2. <<m, z>> \notin a
    BY <2>1 DEF Apart
  <2>3. <<m, z>> = key
    BY <1>3, <1>4, <2>1, <2>2
  <2>4. PICK y : k = <<m, z, y>>
    BY <2>1, <2>3
  <2>5. Foothold!Front(k) = <<m, z>>
    BY ONLY <2>4, InnerParts
  <2> QED BY <2>3, <2>5
<1>15. \A k : IsKey(k) /\ ~Apart(k, b) => ~Apart(k, a) /\ k # key /\ Foothold!Front(k) # key
  <2> SUFFICES ASSUME NEW k, IsKey(k), ~Apart(k, b)
               PROVE  ~Apart(k, a) /\ k # key /\ Foothold!Front(k) # key
    OBVIOUS
  <2>1. ~Apart(k, a)
    BY <1>3 DEF Apart
  <2>2. k # key
    BY <1>3, <1>4 DEF Apart
  <2>3. ASSUME Foothold!Front(k) = key PROVE FALSE
    <3>1. CASE \E m : k = <<m>>
      <4>1. Foothold!Front(k) = <<>> /\ <<>> # <<n, x>>
        BY ONLY <3>1, KeyParts
      <4> QED BY <1>4, <2>3, <4>1
    <3>2. CASE \E m, z : k = <<m, z>>
      <4>1. PICK m, z : k = <<m, z>>
        BY <3>2
      <4>2. Foothold!Front(k) = <<m>> /\ <<m>> # <<n, x>>
        BY ONLY <4>1, KeyParts
      <4> QED BY <1>4, <2>3, <4>2
    <3>3. CASE \E m, z, y : k = <<m, z, y>>
      <4>1. PICK m, z, y : k = <<m, z, y>>
        BY <3>3
      <4>2. Foothold!Front(k) = <<m, z>>
        BY ONLY <4>1, InnerParts
      <4>3. <<m, z>> \in b
        BY <1>3, <1>4, <2>3, <4>2
      <4> QED BY <4>1, <4>3 DEF Apart
    <3> QED BY <3>1, <3>2, <3>3 DEF IsKey
  <2> QED BY <2>1, <2>2, <2>3
<1>16. \A k : InClosed(k, a) <=> InClosed(k, b)
  <2>1. \A m : <<m>> # <<n, x>>
    OBVIOUS
  <2> QED BY <1>3, <1>4, <2>1 DEF InClosed
<1>17. \A k : k # key /\ Foothold!Front(k) # key /\ KeyFollows(updates, s, r, e, a, k)
                => KeyFollows(updates, s2, r2, d, b, k)
  BY <1>6, <1>7, <1>9, <1>16 DEF KeyFollows, Has, Marks
<1>18. \A k \in DOMAIN d.values : k \in DOMAIN s2.values \/ (k \in DOMAIN updates /\ InClosed(k, b))
  <2> SUFFICES ASSUME NEW k \in DOMAIN d.values, k \notin DOMAIN s2.values
               PROVE  k \in DOMAIN updates /\ InClosed(k, b)
    OBVIOUS
  <2>1. k # key
    BY <1>13 DEF Same
  <2>2. k \in DOMAIN e.values /\ Foothold!Front(k) # key
    BY <1>7, <2>1 DEF Marks
  <2>3. k \notin DOMAIN s.values
    BY <1>6, <2>1, <2>2 DEF Marks
  <2> QED BY <1>16, <2>2, <2>3 DEF Follows
<1>19. {First, Second} \cap DOMAIN s2.values \subseteq DOMAIN d.values
  <2>1. n # "Reward"
    BY <1>4 DEF Within, AreClosed
  <2>2. \A y : Foothold!Front(<<"Reward", y>>) = <<"Reward">>
    BY KeyParts
  <2>3. <<"Reward">> # key /\ First # key /\ Second # key
    BY <1>4, <2>1 DEF First, Second
  <2>4. Foothold!Front(First) # key /\ Foothold!Front(Second) # key
    BY <2>2, <2>3 DEF First, Second
  <2> QED BY <1>6, <1>7, <2>3, <2>4 DEF Follows, Marks
<1>20. \A k : Told(clear, k) /\ (k \notin DOMAIN updates \/ Apart(k, b)) => Same(s2, d, k)
  BY <1>12, <1>13, <1>14 DEF Follows
<1>21. \A k \in DOMAIN updates :
         Told(clear, k) /\ ~Apart(k, b) /\ Foothold!Last(k) \notin Foothold!NotNames
           => KeyFollows(updates, s2, r2, d, b, k)
  BY <1>15, <1>17 DEF Follows, Fields
<1>22. r2.path = s2.path /\ d.path = s2.path /\ r2.left = r.left
  BY <1>2, <1>6, <1>7, <1>9
<1>23. Follows(clear, updates, s2, r2, d, b)
  BY <1>9, <1>18, <1>19, <1>20, <1>21, <1>22 DEF Follows
<1> QED BY <1>1, <1>11, <1>23

\* A row of a dotted name's table.
LEMMA InnerFollows ==
  ASSUME NEW clear, NEW updates, NEW s, NEW r, NEW e, NEW a, NEW b, NEW l, Fields(updates),
         Within(s, a), Reach(r.out, e, a), Follows(clear, updates, s, r, e, a), Allowed(s, a, b, l),
         l.kind = "inner", ~Mistaken(r, l)
  PROVE  \E d : /\ Reach(Foothold!Rewrites(r, l).out, d, b)
                /\ Follows(clear, updates, Foothold!Reads(s, l), Foothold!Rewrites(r, l), d, b)
<1>1. PICK s2, r2, d :
        s2 = Foothold!Reads(s, l) /\ r2 = Foothold!Rewrites(r, l) /\ d = Foothold!Reads(e, l)
  OBVIOUS
<1>2. IsReader(s) /\ IsReader(e) /\ IsRewriter(r) /\ e.path = s.path /\ r.path = s.path /\ a = b
  BY ReachWithin DEF Within, Follows, Allowed
<1>3. PICK n, x, y, key : l.key = key /\ key = <<n, x, y>> /\ <<n, x>> \in a
  BY DEF Allowed
<1>4. PICK v : v = l.val[1]
  OBVIOUS
<1>5. s2.path = s.path /\ Sets(s.values, s2.values, key, v)
  BY <1>1, <1>2, <1>3, <1>4, ReadsInner
<1>6. d.path = e.path /\ Sets(e.values, d.values, key, v)
  BY <1>1, <1>2, <1>3, <1>4, ReadsInner
<1>7. ~Named(r, l)
  BY DEF Named
<1>8. /\ IsRewriter(r2) /\ r2.path = r.path /\ r2.left = r.left
      /\ r2.out = r.out \o <<l>>
  BY <1>1, <1>2, <1>7, RewritesOther
<1>9. Allowed(e, a, b, l)
  BY <1>2 DEF Allowed
<1>10. Reach(r2.out, d, b)
  <2>1. PICK lines, out : lines = r.out /\ out = r2.out
    OBVIOUS
  <2>2. Reach(lines, e, a) /\ out = lines \o <<l>> /\ d = Foothold!Reads(e, l)
    BY <1>1, <1>8, <2>1
  <2>3. Reach(out, d, b)
    BY ONLY <1>9, <2>2, ReachLine
  <2> QED BY <2>1, <2>3
<1>11. Apart(key, a) /\ key \notin {First, Second}
  <2>1. Apart(<<n, x, y>>, a)
    BY <1>3 DEF Apart
  <2>2. <<n, x, y>> \notin {First, Second}
    BY DEF First, Second
  <2> QED BY <1>3, <2>1, <2>2
<1>12. \A k : k # key /\ KeyFollows(updates, s, r, e, a, k) => KeyFollows(updates, s2, r2, d, b, k)
  BY <1>2, <1>5, <1>6, <1>8 DEF KeyFollows, Has, Sets
<1>13. \A k : Same(s, e, k) \/ k = key => Same(s2, d, k)
  BY <1>5, <1>6 DEF Same, Sets
<1>14. Follows(clear, updates, s2, r2, d, b)
  BY <1>2, <1>5, <1>6, <1>8, <1>11, <1>12, <1>13 DEF Follows, Sets
<1> QED BY <1>1, <1>10, <1>14

\* One that is taken for a field that was sent: the file stays tidy.
LEMMA MistakenFollows ==
  ASSUME NEW clear, NEW updates, NEW s, NEW r, NEW e, NEW a, NEW b, NEW l, Fields(updates),
         Within(s, a), Reach(r.out, e, a), Follows(clear, updates, s, r, e, a), Allowed(s, a, b, l),
         l.kind = "inner", Mistaken(r, l), Unmistaken(clear, updates, l)
  PROVE  \E d : /\ Reach(Foothold!Rewrites(r, l).out, d, b)
                /\ Follows(clear, updates, Foothold!Reads(s, l), Foothold!Rewrites(r, l), d, b)
<1>1. PICK s2, r2 : s2 = Foothold!Reads(s, l) /\ r2 = Foothold!Rewrites(r, l)
  OBVIOUS
<1>2. /\ IsReader(s) /\ IsReader(e) /\ IsRewriter(r) /\ e.path = s.path /\ r.path = s.path /\ a = b
      /\ s.path = <<>>
  BY ReachWithin DEF Within, Follows, Allowed
<1>3. PICK n, x, y, key : l.key = key /\ key = <<n, x, y>> /\ <<n, x>> \in a
  BY DEF Allowed
<1>4. PICK v, name, field :
        v = l.val[1] /\ name = Foothold!Last(l.key) /\ field = r.path \o <<name>>
  OBVIOUS
<1>5. field = <<name>> /\ field \in DOMAIN r.left
  <2>1. field = <<name>>
    BY <1>2, <1>4, KeyParts
  <2> QED BY <1>4, <2>1 DEF Mistaken
<1>6. s2.path = s.path /\ Sets(s.values, s2.values, key, v)
  BY <1>1, <1>2, <1>3, <1>4, ReadsInner
<1>7. field \in DOMAIN updates /\ r.left[field] = updates[field]
  BY <1>5 DEF Follows
<1>8. clear # "yes"
  BY <1>4, <1>5, <1>7 DEF Unmistaken
<1>9. /\ IsRewriter(r2) /\ r2.path = r.path /\ r2.left = Less(r.left, field)
      /\ r.left[field] = Foothold!Removed => r2.out = r.out \o <<>>
      /\ r.left[field] # Foothold!Removed =>
           \E comma : r2.out = r.out \o <<Foothold!Line("inner", l.key, <<r.left[field]>>, comma, l.note)>>
  <2>1. Replaces(r, r2, "inner", l, field)
    BY <1>1, <1>2, <1>4, RewritesMistaken
  <2> QED BY <2>1 DEF Replaces
<1>10. DOMAIN r2.left = DOMAIN r.left \ {field} /\ \A k \in DOMAIN r2.left : r2.left[k] = r.left[k]
  BY <1>9 DEF Less
<1>11. \A k : Told(clear, k) => k # field /\ k # key
  <2>1. \A m, z : <<m, z>> # <<name>> /\ <<m, z>> # <<n, x, y>>
    OBVIOUS
  <2> QED BY <1>3, <1>5, <1>8, <2>1 DEF Told, IsPair
<1>12. key \notin {First, Second}
  <2>1. <<n, x, y>> \notin {First, Second}
    BY DEF First, Second
  <2> QED BY <1>3, <2>1
<1>13. CASE updates[field] = Foothold!Removed
  <2>1. r2.out = r.out
    <3>1. PICK L : r.out \in Seq(L)
      BY DEF Reach
    <3>2. r2.out = r.out \o <<>>
      BY <1>7, <1>9, <1>13
    <3> QED BY <3>1, <3>2, ConcatEmptySeq
  <2>2. Reach(r2.out, e, b)
    BY <1>2, <2>1
  <2>3. \A k : k \notin {key, field} /\ KeyFollows(updates, s, r, e, a, k)
                 => KeyFollows(updates, s2, r2, e, b, k)
    BY <1>2, <1>6, <1>10 DEF KeyFollows, Has, Sets
  <2>4. \A k : k # key /\ Same(s, e, k) => Same(s2, e, k)
    BY <1>6 DEF Same, Sets
  <2>5. \A k : Told(clear, k) /\ (k \notin DOMAIN updates \/ Apart(k, b)) => Same(s2, e, k)
    BY <1>2, <1>11, <2>4 DEF Follows
  <2>6. \A k \in DOMAIN updates :
          Told(clear, k) /\ ~Apart(k, b) /\ Foothold!Last(k) \notin Foothold!NotNames
            => KeyFollows(updates, s2, r2, e, b, k)
    BY <1>2, <1>11, <2>3 DEF Follows
  <2>7. Follows(clear, updates, s2, r2, e, b)
    BY <1>2, <1>6, <1>9, <1>10, <1>12, <2>5, <2>6 DEF Follows, Sets
  <2> QED BY <1>1, <2>2, <2>7
<1>14. CASE updates[field] # Foothold!Removed
  <2>1. PICK comma : r2.out = r.out \o <<Foothold!Line("inner", l.key, <<r.left[field]>>, comma, l.note)>>
    BY <1>7, <1>9, <1>14
  <2>2. PICK u, note, lines, out : u = updates[field] /\ note = l.note /\ lines = r.out /\ out = r2.out
    OBVIOUS
  <2>3. PICK new : new = Foothold!Line("inner", key, <<u>>, comma, note)
    OBVIOUS
  <2>4. new.kind = "inner" /\ new.key = key /\ u = new.val[1]
    BY <2>3 DEF Foothold!Line
  <2>5. PICK d : d = Foothold!Reads(e, new)
    OBVIOUS
  <2>6. d.path = e.path /\ Sets(e.values, d.values, key, u)
    BY <1>2, <2>4, <2>5, ReadsInner
  <2>7. Allowed(e, a, b, new)
    BY <1>2, <1>3, <1>14, <2>2, <2>4 DEF Allowed
  <2>8. Reach(out, d, b)
    <3>1. Reach(lines, e, a) /\ out = lines \o <<new>>
      BY <1>3, <1>7, <2>1, <2>2, <2>3
    <3> QED BY ONLY <2>5, <2>7, <3>1, ReachLine
  <2>9. \A k : k \notin {key, field} /\ KeyFollows(updates, s, r, e, a, k)
                 => KeyFollows(updates, s2, r2, d, b, k)
    BY <1>2, <1>6, <1>10, <2>6 DEF KeyFollows, Has, Sets
  <2>10. \A k : k # key /\ Same(s, e, k) => Same(s2, d, k)
    BY <1>6, <2>6 DEF Same, Sets
  <2>11. \A k : Told(clear, k) /\ (k \notin DOMAIN updates \/ Apart(k, b)) => Same(s2, d, k)
    BY <1>2, <1>11, <2>10 DEF Follows
  <2>12. \A k \in DOMAIN updates :
           Told(clear, k) /\ ~Apart(k, b) /\ Foothold!Last(k) \notin Foothold!NotNames
             => KeyFollows(updates, s2, r2, d, b, k)
    BY <1>2, <1>11, <2>9 DEF Follows
  <2>13. Follows(clear, updates, s2, r2, d, b)
    BY <1>2, <1>6, <1>9, <1>10, <1>12, <2>6, <2>11, <2>12 DEF Follows, Sets
  <2> QED BY <1>1, <2>2, <2>8, <2>13
<1> QED BY <1>13, <1>14

\* The end of such a table, which gets no rows.
LEMMA EndFollows ==
  ASSUME NEW clear, NEW updates, NEW s, NEW r, NEW e, NEW a, NEW b, NEW l, Fields(updates),
         Within(s, a), Reach(r.out, e, a), Follows(clear, updates, s, r, e, a), Allowed(s, a, b, l),
         l.kind = "end"
  PROVE  \E d : /\ Reach(Foothold!Rewrites(r, l).out, d, b)
                /\ Follows(clear, updates, Foothold!Reads(s, l), Foothold!Rewrites(r, l), d, b)
<1>1. PICK s2, r2, d :
        s2 = Foothold!Reads(s, l) /\ r2 = Foothold!Rewrites(r, l) /\ d = Foothold!Reads(e, l)
  OBVIOUS
<1>2. /\ IsReader(s) /\ IsReader(e) /\ IsRewriter(r) /\ e.path = s.path /\ r.path = s.path /\ a = b
      /\ s.path = <<>>
  BY ReachWithin DEF Within, Follows, Allowed
<1>3. s2.path = s.path /\ s2.values = s.values
  BY <1>1, <1>2, ReadsEnd
<1>4. d.path = e.path /\ d.values = e.values
  BY <1>1, <1>2, ReadsEnd
<1>5. /\ IsRewriter(r2) /\ r2.path = r.path /\ r2.left = r.left
      /\ r2.out = (r.out \o Foothold!Inserted(r)) \o <<l>>
  BY <1>1, <1>2, RewritesClosing DEF Foothold!Popped
<1>6. r2.out = r.out \o <<l>>
  <2>1. PICK S : S = Foothold!Unplaced(r) /\ S = {}
    BY <1>2 DEF Foothold!Unplaced
  <2>2. PICK m, f, rows : InsertedBy(r, S, m, f, rows)
    BY <2>1, FS_EmptySet, InsertedAre
  <2>3. m \in Nat /\ f \in [1..m -> {}] /\ rows = Foothold!Inserted(r) /\ rows \in [1..m -> {}]
    BY <2>1, <2>2 DEF InsertedBy
  <2>4. m = 0
    <3>1. m > 0 => 1 \in 1..m
      BY <2>3
    <3> QED BY <2>3, <3>1
  <2>5. rows = <<>>
    BY <2>3, <2>4
  <2>6. PICK L : r.out \in Seq(L)
    BY DEF Reach
  <2>7. r.out \o <<>> = r.out
    BY <2>6, ConcatEmptySeq
  <2> QED BY <1>5, <2>3, <2>5, <2>7
<1>7. Allowed(e, a, b, l)
  BY <1>2 DEF Allowed
<1>8. Reach(r2.out, d, b)
  <2>1. PICK lines, out : lines = r.out /\ out = r2.out
    OBVIOUS
  <2>2. Reach(lines, e, a) /\ out = lines \o <<l>> /\ d = Foothold!Reads(e, l)
    BY <1>1, <1>6, <2>1
  <2>3. Reach(out, d, b)
    BY ONLY <1>7, <2>2, ReachLine
  <2> QED BY <2>1, <2>3
<1>9. \A k : KeyFollows(updates, s, r, e, a, k) => KeyFollows(updates, s2, r2, d, b, k)
  BY <1>2, <1>3, <1>4, <1>5 DEF KeyFollows, Has
<1>10. \A k : Same(s, e, k) => Same(s2, d, k)
  BY <1>3, <1>4 DEF Same
<1>11. Follows(clear, updates, s2, r2, d, b)
  BY <1>2, <1>3, <1>4, <1>5, <1>9, <1>10 DEF Follows
<1> QED BY <1>1, <1>8, <1>11

LEMMA LineFollows ==
  ASSUME NEW clear, NEW updates, NEW s, NEW r, NEW e, NEW a, NEW b, NEW l, Fields(updates),
         Within(s, a), Reach(r.out, e, a), Follows(clear, updates, s, r, e, a), Allowed(s, a, b, l),
         Unmistaken(clear, updates, l)
  PROVE  \E d : /\ Reach(Foothold!Rewrites(r, l).out, d, b)
                /\ Follows(clear, updates, Foothold!Reads(s, l), Foothold!Rewrites(r, l), d, b)
<1>1. CASE l.kind = "open"
  BY <1>1, OpeningFollows
<1>2. CASE l.kind = "close"
  BY <1>2, ClosingFollows
<1>3. CASE l.kind = "pair"
  BY <1>3, ListFollows
<1>4. CASE l.kind = "row" /\ Named(r, l)
  BY <1>4, NamedFollows
<1>5. CASE l.kind \in {"row", "item"} /\ ~Named(r, l)
  BY <1>5, KeptFollows
<1>6. l.kind = "item" => ~Named(r, l)
  BY DEF Named
<1>7. CASE l.kind \in {"dotted", "under"}
  BY <1>7, MarkFollows
<1>8. CASE l.kind = "inner" /\ Mistaken(r, l)
  BY <1>8, MistakenFollows
<1>9. CASE l.kind = "inner" /\ ~Mistaken(r, l)
  BY <1>9, InnerFollows
<1>10. CASE l.kind = "end"
  BY <1>10, EndFollows
<1>11. l.kind \in {"open", "close", "pair", "row", "item", "dotted", "under", "inner", "end"}
  BY DEF Allowed
<1> QED BY <1>1, <1>2, <1>3, <1>4, <1>5, <1>6, <1>7, <1>8, <1>9, <1>10, <1>11

\* And so after all of them.
LEMMA FileFollows ==
  ASSUME NEW clear, NEW updates, Fields(updates), NEW lines, NEW s, NEW a, Reach(lines, s, a),
         \A i \in 1..Len(lines) : Unmistaken(clear, updates, lines[i])
  PROVE  \E r, e : /\ Foothold!Rewritten(lines, updates) = r.out
                   /\ Reach(r.out, e, a) /\ Follows(clear, updates, s, r, e, a)
<1>1. PICK t, c, L : /\ lines \in Seq(L) /\ Walk(t, c, lines)
                     /\ t[Len(lines)] = s /\ c[Len(lines)] = a
  BY DEF Reach
<1>2. PICK n \in Nat : n = Len(lines)
  BY <1>1
<1> DEFINE Done(m) == \E r, e : /\ RewriteTrace(r, lines, updates, m) /\ Reach(r[m].out, e, c[m])
                               /\ Follows(clear, updates, t[m], r[m], e, c[m])
<1>3. \A m \in 0..n : Done(m)
  <2> DEFINE T == {m \in 0..n : ~Done(m)}
  <2> SUFFICES ASSUME T # {} PROVE FALSE
    OBVIOUS
  <2>1. T \subseteq Nat
    OBVIOUS
  <2>2. PICK m \in T : \A j \in T : m <= j
    BY ONLY <2>1, T # {}, HasLeast
  <2>3. m \in 0..n /\ ~Done(m)
    OBVIOUS
  <2>4. m # 0
    <3>1. PICK start : start = [path |-> <<>>, left |-> updates, out |-> <<>>]
      OBVIOUS
    <3>2. PICK r : r = [i \in 0..0 |-> start]
      OBVIOUS
    <3>3. RewriteTrace(r, lines, updates, 0) /\ r[0] = start
      BY <3>1, <3>2 DEF RewriteTrace
    <3>4. t[0] = Began /\ c[0] = {}
      BY <1>1 DEF Walk, Trace
    <3>5. Reach(start.out, Began, {})
      BY <3>1, ReachEmpty
    <3>6. DOMAIN Began.values = {} /\ Began.path = <<>>
      BY DEF Began
    <3>7. /\ IsRewriter(start) /\ start.path = <<>> /\ start.left = updates
      BY <3>1 DEF IsRewriter
    <3>8. \A k : ~InClosed(k, {})
      BY DEF InClosed
    <3>9. \A k \in DOMAIN updates : KeyFollows(updates, Began, start, Began, {}, k)
      BY <3>6, <3>7, <3>8 DEF KeyFollows
    <3>10. Follows(clear, updates, Began, start, Began, {})
      BY <3>6, <3>7, <3>9 DEF Follows, Same
    <3>11. Done(0)
      BY <3>3, <3>4, <3>5, <3>10
    <3> QED BY <2>3, <3>11
  <2>5. PICK j \in Nat : m = j + 1 /\ j \in 0..n /\ j + 1 \in 1..n /\ ~(m <= j)
    <3>1. m - 1 \in Nat /\ m = (m - 1) + 1 /\ m - 1 \in 0..n /\ (m - 1) + 1 \in 1..n /\ ~(m <= m - 1)
      BY <1>2, <2>3, <2>4
    <3> QED BY <3>1
  <2>6. PICK r, e : /\ RewriteTrace(r, lines, updates, j) /\ Reach(r[j].out, e, c[j])
                    /\ Follows(clear, updates, t[j], r[j], e, c[j])
    BY <2>2, <2>5
  <2>7. Within(t[j], c[j])
    BY <1>1, <1>2, <2>5, WalkWithin
  <2>8. t[j + 1] = Foothold!Reads(t[j], lines[j + 1]) /\ Allowed(t[j], c[j], c[j + 1], lines[j + 1])
    <3>1. \A i \in 1..n : t[i] = Foothold!Reads(t[i - 1], lines[i])
      BY <1>1, <1>2 DEF Walk, Trace
    <3>2. \A i \in 1..n : Allowed(t[i - 1], c[i - 1], c[i], lines[i])
      BY <1>1, <1>2 DEF Walk
    <3>3. PICK i \in 1..n : i = j + 1 /\ i - 1 = j
      BY ONLY <2>5
    <3>4. t[i] = Foothold!Reads(t[j], lines[i]) /\ Allowed(t[j], c[j], c[i], lines[i])
      BY ONLY <3>1, <3>2, <3>3
    <3> QED BY ONLY <3>3, <3>4
  <2>9. PICK l, now : l = lines[j + 1] /\ now = r[j]
    OBVIOUS
  <2>10. PICK d : /\ Reach(Foothold!Rewrites(now, l).out, d, c[j + 1])
                  /\ Follows(clear, updates, Foothold!Reads(t[j], l), Foothold!Rewrites(now, l), d, c[j + 1])
    <3>1. Unmistaken(clear, updates, l)
      BY <1>2, <2>5, <2>9
    <3> QED BY <2>6, <2>7, <2>8, <2>9, <3>1, LineFollows
  <2>11. PICK then : then = Foothold!Rewrites(now, l)
    OBVIOUS
  <2> DEFINE more == [i \in 0..j + 1 |-> IF i = j + 1 THEN then ELSE r[i]]
  <2>12. RewriteTrace(more, lines, updates, j + 1)
    <3>1. more = [i \in 0..j + 1 |-> more[i]]
      OBVIOUS
    <3>2. more[0] = [path |-> <<>>, left |-> updates, out |-> <<>>]
      <4>1. 0 \in 0..j + 1 /\ 0 # j + 1
        BY <2>5
      <4>2. more[0] = r[0]
        BY <4>1
      <4> QED BY <2>6, <4>2 DEF RewriteTrace
    <3>3. \A i \in 1..j + 1 : more[i] = Foothold!Rewrites(more[i - 1], lines[i])
      <4> TAKE i \in 1..j + 1
      <4>1. CASE i = j + 1
        <5>1. i - 1 = j /\ j \in 0..j + 1 /\ j # j + 1 /\ i \in 0..j + 1
          BY <4>1
        <5>2. more[i] = then /\ more[i - 1] = now
          BY <2>9, <4>1, <5>1
        <5> QED BY <2>9, <2>11, <4>1, <5>2
      <4>2. CASE i # j + 1
        <5>1. i \in 1..j /\ i - 1 \in 0..j + 1 /\ i - 1 # j + 1 /\ i \in 0..j + 1
          BY <4>2
        <5>2. more[i] = r[i] /\ more[i - 1] = r[i - 1]
          BY <4>2, <5>1
        <5> QED BY <2>6, <5>1, <5>2 DEF RewriteTrace
      <4> QED BY <4>1, <4>2
    <3> HIDE DEF more
    <3> QED BY <3>1, <3>2, <3>3 DEF RewriteTrace
  <2>13. more[j + 1] = then
    BY <2>5
  <2> HIDE DEF more
  <2>14. Done(j + 1)
    BY <2>8, <2>9, <2>10, <2>11, <2>12, <2>13
  <2> QED BY <2>3, <2>5, <2>14
<1> HIDE DEF Done
<1>4. Done(n)
  <2>1. n \in 0..n
    BY <1>2
  <2> QED BY <1>3, <2>1
<1>5. PICK r, e : /\ RewriteTrace(r, lines, updates, n) /\ Reach(r[n].out, e, c[n])
                  /\ Follows(clear, updates, t[n], r[n], e, c[n])
  BY <1>4 DEF Done
<1>6. Foothold!Rewritten(lines, updates) = r[n].out
  BY <1>2, <1>5, RewrittenIs
<1> QED BY <1>1, <1>2, <1>5, <1>6

\* A file that is as one expects: all its tables are closed and the list is there.
Tidy(lines) ==
  \E s, a : Reach(lines, s, a) /\ s.path = <<>> /\ {First, Second} \subseteq DOMAIN s.values

\* For any tidy file, with dotted names set after their tables, and any fields
\* that were sent: the rewritten file is tidy too. Unless one of them has the
\* name of a row in a table that a dotted name opened, the fields that have a
\* line or a table of their own read as they were sent, any other key reads as
\* before, those that dotted names set too although they were sent, and no key
\* comes from nowhere (update_foothold_config).
THEOREM RewritingSaves ==
  ASSUME NEW lines, Tidy(lines), NEW updates, Fields(updates),
         NEW out, out = Foothold!Rewritten(lines, updates)
  PROVE  /\ Tidy(out)
         /\ Foothold!IsClear(lines, updates) =>
              /\ \A k \in DOMAIN updates :
                   (Foothold!HasPlace(lines, k) /\ Foothold!Last(k) \notin Foothold!NotNames)
                     => Foothold!Holds(out, k, updates[k])
              /\ \A k \in DOMAIN Foothold!Values(lines) :
                   (k \notin DOMAIN updates \/ Foothold!IsApart(lines, k))
                     => Foothold!Holds(out, k, Foothold!Values(lines)[k])
              /\ DOMAIN Foothold!Values(out) \subseteq DOMAIN Foothold!Values(lines) \cup DOMAIN updates
<1>1. PICK s, a : Reach(lines, s, a) /\ s.path = <<>> /\ {First, Second} \subseteq DOMAIN s.values
  BY DEF Tidy
<1>2. PICK clear : clear = IF Foothold!IsClear(lines, updates) THEN "yes" ELSE "no"
  OBVIOUS
<1>3. \A i \in 1..Len(lines) : Unmistaken(clear, updates, lines[i])
  <2>1. PICK L : lines \in Seq(L)
    BY <1>1 DEF Reach
  <2>2. DOMAIN lines = 1..Len(lines)
    BY <2>1
  <2> QED BY <1>2, <2>2 DEF Unmistaken, Foothold!IsClear
<1>4. PICK r, e : out = r.out /\ Reach(r.out, e, a) /\ Follows(clear, updates, s, r, e, a)
  BY <1>1, <1>3, FileFollows
<1>5. Foothold!Values(lines) = s.values /\ Foothold!Values(out) = e.values
  BY <1>1, <1>4, ReachLoaded DEF Foothold!Values
<1>6. Within(s, a) /\ Opened(s, a)
  BY <1>1, ReachWithin
<1>7. \A k, v : Foothold!Holds(out, k, v) <=> Has(e, k, v)
  BY <1>5 DEF Foothold!Holds, Has
<1>8. Tidy(out)
  BY <1>1, <1>4 DEF Follows, Tidy
<1>9. \A k : IsKey(k) => (Foothold!IsApart(lines, k) <=> Apart(k, a))
  BY <1>1, ApartIs
<1>10. SUFFICES ASSUME Foothold!IsClear(lines, updates)
                PROVE  /\ \A k \in DOMAIN updates :
                            (Foothold!HasPlace(lines, k) /\ Foothold!Last(k) \notin Foothold!NotNames)
                              => Has(e, k, updates[k])
                       /\ \A k \in DOMAIN s.values :
                            (k \notin DOMAIN updates \/ Foothold!IsApart(lines, k))
                              => Has(e, k, s.values[k])
                       /\ DOMAIN e.values \subseteq DOMAIN s.values \cup DOMAIN updates
  BY <1>5, <1>7, <1>8
<1>11. \A k : Told(clear, k)
  BY <1>2, <1>10 DEF Told
<1>12. ASSUME NEW k \in DOMAIN updates, Foothold!HasPlace(lines, k),
              Foothold!Last(k) \notin Foothold!NotNames
       PROVE  Has(e, k, updates[k])
  <2>1. IsKey(k) /\ ~Foothold!IsApart(lines, k)
    BY <1>12 DEF Fields, Foothold!HasPlace
  <2>2. KeyFollows(updates, s, r, e, a, k)
    BY <1>4, <1>9, <1>11, <1>12, <2>1 DEF Follows
  <2>3. CASE k \in DOMAIN s.values
    BY <2>2, <2>3 DEF KeyFollows
  <2>4. CASE k \notin DOMAIN s.values
    <3>1. PICK o \in DOMAIN s.values :
            /\ Foothold!Front(o) = Foothold!Front(k) /\ Foothold!Front(k) # <<>>
            /\ ~Foothold!IsApart(lines, o)
      BY <1>5, <1>12, <2>4 DEF Foothold!HasPlace
    <3>2. IsKey(o) /\ ~Apart(o, a)
      BY <1>6, <1>9, <3>1 DEF Within
    <3>3. \A c : Foothold!Front(<<c>>) = <<>>
      BY KeyParts
    <3>4. \A c, x : Foothold!Front(<<c, x>>) = <<c>> /\ Foothold!Last(<<c, x>>) = x
      BY KeyParts
    <3>5. \A c, x, y : Foothold!Front(<<c, x, y>>) = <<c, x>>
      BY InnerParts
    <3>6. \A c, x, y : o # <<c, x, y>>
      <4> SUFFICES ASSUME NEW c, NEW x, NEW y, o = <<c, x, y>> PROVE FALSE
        OBVIOUS
      <4>1. <<c, x>> \in a
        BY <1>6, <3>1 DEF Opened
      <4>2. Apart(<<c, x, y>>, a)
        BY <4>1 DEF Apart
      <4> QED BY <3>2, <4>2
    <3>7. PICK d, y : o = <<d, y>>
      BY <3>1, <3>2, <3>3, <3>6 DEF IsKey
    <3>8. Foothold!Front(k) = <<d>>
      BY <3>1, <3>4, <3>7
    <3>9. PICK x : k = <<d, x>> /\ (d = "Reward" => x \in Foothold!NotNames)
      <4>1. \A c, x, z : <<c, x>> # <<d>>
        OBVIOUS
      <4>2. PICK c, x : k = <<c, x>> /\ (c = "Reward" => x \in Foothold!NotNames)
        BY <2>1, <3>1, <3>3, <3>5, <3>8, <4>1 DEF IsKey
      <4>3. c = d
        BY <3>4, <3>8, <4>2
      <4> QED BY <4>2, <4>3
    <3>10. d # "Reward"
      BY <1>12, <3>4, <3>9
    <3>11. <<d>> \in a
      <4>1. <<d, y>> \in DOMAIN s.values
        BY <3>7
      <4>2. s.path # <<d>>
        BY <1>1
      <4> QED BY <1>6, <3>10, <4>1, <4>2 DEF Opened
    <3>12. InClosed(k, a)
      BY <3>9, <3>11 DEF InClosed
    <3> QED BY <2>2, <2>4, <3>12 DEF KeyFollows
  <2> QED BY <2>3, <2>4
<1>13. ASSUME NEW k \in DOMAIN s.values, k \notin DOMAIN updates \/ Foothold!IsApart(lines, k)
       PROVE  Has(e, k, s.values[k])
  <2>1. IsKey(k) /\ s.values[k] # Foothold!Removed
    BY <1>6 DEF Within
  <2>2. Same(s, e, k)
    BY <1>4, <1>9, <1>11, <1>13, <2>1 DEF Follows
  <2> QED BY <2>1, <2>2 DEF Same, Has
<1>14. DOMAIN e.values \subseteq DOMAIN s.values \cup DOMAIN updates
  BY <1>4 DEF Follows
<1> QED BY <1>12, <1>13, <1>14

-----------------------------------------------------------------------------
(* The sample file is tidy.                                                *)

Reaches(lines, path, keys, a) ==
  \E s : Reach(lines, s, a) /\ s.path = path /\ DOMAIN s.values = keys

\* A file of which only the keys are told, and one more line of it.
LEMMA ReachesRow ==
  ASSUME NEW lines, NEW path, NEW keys, NEW a, Reaches(lines, path, keys, a),
         NEW l, l.kind = "row", l.val[1] # Foothold!Removed,
         path = <<>> => l.key # "Reward",
         NEW key, key = path \o <<l.key>>, key \notin keys
  PROVE  Reaches(Append(lines, l), path, keys \cup {key}, a)
<1>1. PICK s : Reach(lines, s, a) /\ s.path = path /\ DOMAIN s.values = keys
  BY DEF Reaches
<1>2. IsReader(s)
  BY <1>1, ReachWithin DEF Within
<1>3. Allowed(s, a, a, l)
  BY <1>1 DEF Allowed
<1>4. PICK r, v : r = Foothold!Reads(s, l) /\ v = l.val[1]
  OBVIOUS
<1>5. r.path = path /\ r.values = RowSets(s, l)
  BY <1>1, <1>2, <1>4, ReadsRow
<1>6. Sets(s.values, r.values, key, v)
  BY <1>1, <1>4, <1>5, RowSetsIs
<1> QED BY <1>1, <1>3, <1>4, <1>5, <1>6, ReachAppend DEF Reaches, Sets

LEMMA ReachesItem ==
  ASSUME NEW lines, NEW path, NEW keys, NEW a, Reaches(lines, path, keys, a),
         NEW l, l.kind = "item", l.key \in Foothold!NotNames, l.val[1] # Foothold!Removed,
         NEW key, key = path \o <<l.key>>
  PROVE  Reaches(Append(lines, l), path, keys \cup {key}, a)
<1>1. PICK s : Reach(lines, s, a) /\ s.path = path /\ DOMAIN s.values = keys
  BY DEF Reaches
<1>2. IsReader(s)
  BY <1>1, ReachWithin DEF Within
<1>3. Allowed(s, a, a, l)
  BY <1>1 DEF Allowed
<1>4. PICK r, v : r = Foothold!Reads(s, l) /\ v = l.val[1]
  OBVIOUS
<1>5. r.path = path /\ r.values = RowSets(s, l)
  BY <1>1, <1>2, <1>4, ReadsRow
<1>6. Sets(s.values, r.values, key, v)
  BY <1>1, <1>4, <1>5, RowSetsIs
<1> QED BY <1>1, <1>3, <1>4, <1>5, <1>6, ReachAppend DEF Reaches, Sets

LEMMA ReachesList ==
  ASSUME NEW lines, NEW keys, NEW a, Reaches(lines, <<>>, keys, a),
         NEW l, l.kind = "pair", l.key = "Reward", Foothold!Removed \notin {l.val[1], l.val[2]}
  PROVE  Reaches(Append(lines, l), <<>>, keys \cup {First, Second}, a)
<1>1. PICK s : Reach(lines, s, a) /\ s.path = <<>> /\ DOMAIN s.values = keys
  BY DEF Reaches
<1>2. IsReader(s) /\ IsList(s, l)
  BY <1>1, ReachWithin DEF Within, IsList
<1>3. Allowed(s, a, a, l)
  BY <1>1 DEF Allowed
<1>4. PICK r, v, w : r = Foothold!Reads(s, l) /\ v = l.val[1] /\ w = l.val[2]
  OBVIOUS
<1>5. r.path = s.path /\ r.values = PairSets(s, l)
  BY <1>1, <1>2, <1>4, ReadsPair
<1>6. SetsBoth(s.values, r.values, v, w)
  BY <1>2, <1>4, <1>5, PairSetsIs
<1> QED BY <1>1, <1>3, <1>4, <1>5, <1>6, ReachAppend DEF Reaches, SetsBoth

LEMMA ReachesOpening ==
  ASSUME NEW lines, NEW keys, NEW a, Reaches(lines, <<>>, keys, a),
         NEW l, l.kind = "open", <<l.key>> \notin a, l.key # "Reward"
  PROVE  Reaches(Append(lines, l), <<l.key>>, keys, a)
<1>1. PICK s : Reach(lines, s, a) /\ s.path = <<>> /\ DOMAIN s.values = keys
  BY DEF Reaches
<1>2. IsReader(s)
  BY <1>1, ReachWithin DEF Within
<1>3. Allowed(s, a, a, l)
  BY <1>1 DEF Allowed
<1>4. PICK r : r = Foothold!Reads(s, l)
  OBVIOUS
<1>5. r.path = s.path \o <<l.key>> /\ r.values = s.values
  BY <1>1, <1>2, <1>4, ReadsOpening
<1>6. r.path = <<l.key>>
  BY <1>1, <1>5, KeyParts
<1> QED BY <1>1, <1>3, <1>4, <1>5, <1>6, ReachAppend DEF Reaches

LEMMA ReachesClosing ==
  ASSUME NEW lines, NEW n, NEW keys, NEW a, Reaches(lines, <<n>>, keys, a),
         NEW l, l.kind = "close"
  PROVE  Reaches(Append(lines, l), <<>>, keys, a \cup {<<n>>})
<1>1. PICK s : Reach(lines, s, a) /\ s.path = <<n>> /\ DOMAIN s.values = keys
  BY DEF Reaches
<1>2. IsReader(s)
  BY <1>1, ReachWithin DEF Within
<1>3. Allowed(s, a, a \cup {<<n>>}, l)
  <2>1. <<n>> # <<>>
    OBVIOUS
  <2> QED BY <1>1, <2>1 DEF Allowed
<1>4. PICK r : r = Foothold!Reads(s, l)
  OBVIOUS
<1>5. r.path = Foothold!Front(s.path) /\ r.values = s.values
  BY <1>1, <1>2, <1>4, ReadsClosing
<1>6. r.path = <<>>
  BY <1>1, <1>5, KeyParts
<1> QED BY <1>1, <1>3, <1>4, <1>5, <1>6, ReachAppend DEF Reaches

\* A list that has one element more.
LEMMA AppendTo ==
  ASSUME NEW S, NEW s \in Seq(S), NEW t \in Seq(S), Len(t) = Len(s) + 1,
         NEW l, l = t[Len(t)], \A i \in 1..Len(s) : t[i] = s[i]
  PROVE  Append(s, l) = t
<1>1. PICK n \in Nat : n = Len(s)
  OBVIOUS
<1>2. l \in S
  BY <1>1
<1>3. PICK w : w = Append(s, l)
  OBVIOUS
<1>4. w \in Seq(S) /\ Len(w) = n + 1 /\ w[n + 1] = l /\ \A i \in 1..n : w[i] = s[i]
  BY <1>1, <1>2, <1>3
<1>5. \A i \in 1..n + 1 : w[i] = t[i]
  <2> TAKE i \in 1..n + 1
  <2>1. CASE i = n + 1
    BY <1>1, <1>4, <2>1
  <2>2. CASE i # n + 1
    <3>1. i \in 1..n
      BY <2>2
    <3> QED BY <1>1, <1>4, <3>1
  <2> QED BY <2>1, <2>2
<1>6. w = t
  BY <1>1, <1>4, <1>5, SeqEqual
<1> QED BY <1>3, <1>6

\* After the tables: a file with the list, and one more line of it.
Lists(lines, a) ==
  \E s : Reach(lines, s, a) /\ s.path = <<>> /\ {First, Second} \subseteq DOMAIN s.values

LEMMA ListsMark ==
  ASSUME NEW lines, NEW a, Lists(lines, a), NEW l, l.kind \in {"dotted", "under"},
         l.kind = "dotted" => l.val[1] # Foothold!Removed,
         NEW n, NEW x, l.key = <<n, x>>, <<n>> \in a
  PROVE  Lists(Append(lines, l), a \cup {<<n, x>>})
<1>1. PICK s : Reach(lines, s, a) /\ s.path = <<>> /\ {First, Second} \subseteq DOMAIN s.values
  BY DEF Lists
<1>2. IsReader(s) /\ AreClosed(a)
  BY <1>1, ReachWithin DEF Within
<1>3. AllowedDotted(s, a, a \cup {<<n, x>>}, l)
  BY <1>1 DEF AllowedDotted
<1>4. Allowed(s, a, a \cup {<<n, x>>}, l)
  BY <1>3 DEF Allowed
<1>5. PICK r, w, key : r = Foothold!Reads(s, l) /\ w = Marked(l) /\ key = <<n, x>>
  OBVIOUS
<1>6. r.path = s.path /\ Marks(s.values, r.values, key, w)
  <2>1. r.path = s.path /\ Marks(s.values, r.values, l.key, Marked(l))
    BY <1>2, <1>5, ReadsMark
  <2> QED BY <1>5, <2>1
<1>7. n # "Reward"
  <2>1. \A m, y : <<n>> # <<m, y>>
    OBVIOUS
  <2>2. PICK m : m # "Reward" /\ <<n>> = <<m>>
    BY <1>2, <2>1 DEF AreClosed
  <2> QED BY <2>2
<1>8. First # key /\ Second # key
  BY <1>5, <1>7 DEF First, Second
<1>9. Foothold!Front(First) # key /\ Foothold!Front(Second) # key
  <2>1. Foothold!Front(First) = <<"Reward">> /\ Foothold!Front(Second) = <<"Reward">>
    BY KeyParts DEF First, Second
  <2>2. \A y : <<y>> # <<n, x>>
    OBVIOUS
  <2> QED BY <1>5, <2>1, <2>2
<1>10. {First, Second} \subseteq DOMAIN r.values
  BY <1>1, <1>6, <1>8, <1>9 DEF Marks
<1> QED BY <1>1, <1>4, <1>5, <1>6, <1>10, ReachAppend DEF Lists

LEMMA ListsInner ==
  ASSUME NEW lines, NEW a, Lists(lines, a), NEW l, l.kind = "inner", l.val[1] # Foothold!Removed,
         NEW n, NEW x, NEW y, l.key = <<n, x, y>>, <<n, x>> \in a
  PROVE  Lists(Append(lines, l), a)
<1>1. PICK s : Reach(lines, s, a) /\ s.path = <<>> /\ {First, Second} \subseteq DOMAIN s.values
  BY DEF Lists
<1>2. IsReader(s)
  BY <1>1, ReachWithin DEF Within
<1>3. Allowed(s, a, a, l)
  BY <1>1 DEF Allowed
<1>4. PICK r, v : r = Foothold!Reads(s, l) /\ v = l.val[1]
  OBVIOUS
<1>5. r.path = s.path /\ Sets(s.values, r.values, l.key, v)
  BY <1>2, <1>4, ReadsInner
<1>6. {First, Second} \subseteq DOMAIN r.values
  BY <1>1, <1>5 DEF Sets
<1> QED BY <1>1, <1>3, <1>4, <1>5, <1>6, ReachAppend DEF Lists

LEMMA ListsEnd ==
  ASSUME NEW lines, NEW a, Lists(lines, a), NEW l, l.kind = "end"
  PROVE  Lists(Append(lines, l), a)
<1>1. PICK s : Reach(lines, s, a) /\ s.path = <<>> /\ {First, Second} \subseteq DOMAIN s.values
  BY DEF Lists
<1>2. IsReader(s)
  BY <1>1, ReachWithin DEF Within
<1>3. Allowed(s, a, a, l)
  BY <1>1 DEF Allowed
<1>4. PICK r : r = Foothold!Reads(s, l)
  OBVIOUS
<1>5. r.path = s.path /\ r.values = s.values
  BY <1>2, <1>4, ReadsEnd
<1> QED BY <1>1, <1>3, <1>4, <1>5, ReachAppend DEF Lists

LEMMA SampleIsTidy == Tidy(Foothold!SampleFile)
<1>1. PICK l1, l2, l3, l4, l5, l6, l7, l8, l9, l10, l11, l12, l13 :
        /\ l1 = Foothold!Row("AiSkill", 1, "no", "yes")
        /\ l2 = Foothold!Line("pair", "Reward", <<1, 1>>, "no", "no")
        /\ l3 = Foothold!Opening("Prices") /\ l4 = Foothold!Row("tank", 1, "yes", "no")
        /\ l5 = Foothold!Row("jeep", 1, "yes", "yes") /\ l6 = Foothold!Closing
        /\ l7 = Foothold!Opening("Units") /\ l8 = Foothold!Line("item", "1", <<1>>, "yes", "no")
        /\ l9 = Foothold!Opening("Globals")
        /\ l10 = Foothold!Dotted(<<"Globals", "scaling">>, 1)
        /\ l11 = Foothold!DottedOpening(<<"Globals", "caps">>)
        /\ l12 = Foothold!InnerRow(<<"Globals", "caps", "Era">>, 1)
        /\ l13 = Foothold!InnerClosing
  OBVIOUS
<1>2. /\ l1.kind = "row" /\ l1.key = "AiSkill" /\ l1.val[1] # Foothold!Removed
      /\ l2.kind = "pair" /\ l2.key = "Reward" /\ Foothold!Removed \notin {l2.val[1], l2.val[2]}
      /\ l3.kind = "open" /\ l3.key = "Prices"
      /\ l4.kind = "row" /\ l4.key = "tank" /\ l4.val[1] # Foothold!Removed
      /\ l5.kind = "row" /\ l5.key = "jeep" /\ l5.val[1] # Foothold!Removed
      /\ l6.kind = "close" /\ l7.kind = "open" /\ l7.key = "Units"
      /\ l8.kind = "item" /\ l8.key = "1" /\ l8.val[1] # Foothold!Removed
      /\ l9.kind = "open" /\ l9.key = "Globals"
  <2>1. \A l, k, c, o : l = Foothold!Row(k, 1, c, o) =>
          l.kind = "row" /\ l.key = k /\ l.val[1] # Foothold!Removed
    <3> SUFFICES ASSUME NEW l, NEW k, NEW c, NEW o, l = Foothold!Row(k, 1, c, o)
                 PROVE  l.kind = "row" /\ l.key = k /\ l.val[1] # Foothold!Removed
      OBVIOUS
    <3>1. l.kind = "row" /\ l.key = k /\ l.val = <<1>>
      BY DEF Foothold!Row, Foothold!Line
    <3> QED BY <3>1 DEF Foothold!Removed
  <2>2. l2.kind = "pair" /\ l2.key = "Reward" /\ l2.val = <<1, 1>>
    BY ONLY <1>1 DEF Foothold!Line
  <2>3. Foothold!Removed \notin {l2.val[1], l2.val[2]}
    BY ONLY <2>2 DEF Foothold!Removed
  <2>4. \A k : Foothold!Opening(k).kind = "open" /\ Foothold!Opening(k).key = k
    BY DEF Foothold!Opening, Foothold!Line
  <2>5. l6.kind = "close"
    BY ONLY <1>1 DEF Foothold!Closing, Foothold!Line
  <2>6. l8.kind = "item" /\ l8.key = "1" /\ l8.val = <<1>>
    BY ONLY <1>1 DEF Foothold!Line
  <2>7. l8.val[1] # Foothold!Removed
    BY ONLY <2>6 DEF Foothold!Removed
  <2> QED BY <1>1, <2>1, <2>2, <2>3, <2>4, <2>5, <2>6, <2>7
<1>18. /\ l10.kind = "dotted" /\ l10.key = <<"Globals", "scaling">> /\ l10.val[1] # Foothold!Removed
       /\ l11.kind = "under" /\ l11.key = <<"Globals", "caps">>
       /\ l12.kind = "inner" /\ l12.key = <<"Globals", "caps", "Era">>
       /\ l12.val[1] # Foothold!Removed
       /\ l13.kind = "end"
  <2>1. l10.kind = "dotted" /\ l10.key = <<"Globals", "scaling">> /\ l10.val = <<1>>
    BY ONLY <1>1 DEF Foothold!Dotted, Foothold!Line
  <2>2. l11.kind = "under" /\ l11.key = <<"Globals", "caps">>
    BY ONLY <1>1 DEF Foothold!DottedOpening, Foothold!Line
  <2>3. l12.kind = "inner" /\ l12.key = <<"Globals", "caps", "Era">> /\ l12.val = <<1>>
    BY ONLY <1>1 DEF Foothold!InnerRow, Foothold!Line
  <2>4. l13.kind = "end"
    BY ONLY <1>1 DEF Foothold!InnerClosing, Foothold!Line
  <2>5. l10.val[1] # Foothold!Removed /\ l12.val[1] # Foothold!Removed
    BY ONLY <2>1, <2>3 DEF Foothold!Removed
  <2> QED BY ONLY <2>1, <2>2, <2>3, <2>4, <2>5
<1>3. PICK k1, k4, k5, k8 :
        /\ k1 = <<"AiSkill">> /\ k4 = <<"Prices", "tank">> /\ k5 = <<"Prices", "jeep">>
        /\ k8 = <<"Units", "1">>
  OBVIOUS
<1>4. /\ k1 = <<>> \o <<l1.key>> /\ k4 = <<"Prices">> \o <<l4.key>> /\ k5 = <<"Prices">> \o <<l5.key>>
      /\ k8 = <<"Units">> \o <<l8.key>>
  BY <1>2, <1>3, KeyParts
<1>5. k4 \notin {k1, First, Second} /\ k5 \notin {k1, First, Second, k4}
  BY <1>3 DEF First, Second
<1>6. Reaches(<<>>, <<>>, {}, {})
  <2>1. Began.path = <<>> /\ DOMAIN Began.values = {}
    BY DEF Began
  <2> QED BY <2>1, ReachEmpty DEF Reaches
<1>7. PICK s1, s2, s3, s4, s5, s6, s7, s8, s9, s10, s11, s12, s13, s14, s15 :
        /\ s1 = Append(<<>>, l1) /\ s2 = Append(s1, l2) /\ s3 = Append(s2, l3) /\ s4 = Append(s3, l4)
        /\ s5 = Append(s4, l5) /\ s6 = Append(s5, l6) /\ s7 = Append(s6, l7) /\ s8 = Append(s7, l8)
        /\ s9 = Append(s8, l6) /\ s10 = Append(s9, l9) /\ s11 = Append(s10, l6) /\ s12 = Append(s11, l10)
        /\ s13 = Append(s12, l11) /\ s14 = Append(s13, l12) /\ s15 = Append(s14, l13)
  OBVIOUS
<1>8. Reaches(s1, <<>>, {k1}, {})
  <2>1. l1.key # "Reward" /\ k1 \notin {}
    BY <1>2
  <2>2. Reaches(s1, <<>>, {} \cup {k1}, {})
    BY <1>2, <1>4, <1>6, <1>7, <2>1, ReachesRow
  <2> QED BY <2>2
<1>9. Reaches(s2, <<>>, {k1, First, Second}, {})
  <2>1. Reaches(s2, <<>>, {k1} \cup {First, Second}, {})
    BY <1>2, <1>7, <1>8, ReachesList
  <2> QED BY <2>1
<1>10. Reaches(s3, <<"Prices">>, {k1, First, Second}, {})
  BY <1>2, <1>7, <1>9, ReachesOpening
<1>11. Reaches(s4, <<"Prices">>, {k1, First, Second, k4}, {})
  <2>1. Reaches(s4, <<"Prices">>, {k1, First, Second} \cup {k4}, {})
    BY <1>2, <1>4, <1>5, <1>7, <1>10, ReachesRow
  <2> QED BY <2>1
<1>12. Reaches(s5, <<"Prices">>, {k1, First, Second, k4, k5}, {})
  <2>1. Reaches(s5, <<"Prices">>, {k1, First, Second, k4} \cup {k5}, {})
    BY <1>2, <1>4, <1>5, <1>7, <1>11, ReachesRow
  <2> QED BY <2>1
<1>13. Reaches(s6, <<>>, {k1, First, Second, k4, k5}, {<<"Prices">>})
  <2>1. Reaches(s6, <<>>, {k1, First, Second, k4, k5}, {} \cup {<<"Prices">>})
    BY <1>2, <1>7, <1>12, ReachesClosing
  <2> QED BY <2>1
<1>14. Reaches(s7, <<"Units">>, {k1, First, Second, k4, k5}, {<<"Prices">>})
  <2>1. <<"Units">> \notin {<<"Prices">>}
    OBVIOUS
  <2> QED BY <1>2, <1>7, <1>13, <2>1, ReachesOpening
<1>15. Reaches(s8, <<"Units">>, {k1, First, Second, k4, k5} \cup {k8}, {<<"Prices">>})
  <2>1. l8.key \in Foothold!NotNames
    BY <1>2 DEF Foothold!NotNames
  <2> QED BY <1>2, <1>4, <1>7, <1>14, <2>1, ReachesItem
<1>16. Reaches(s9, <<>>, {k1, First, Second, k4, k5} \cup {k8}, {<<"Prices">>} \cup {<<"Units">>})
  BY <1>2, <1>7, <1>15, ReachesClosing
<1>19. PICK keys, a : /\ keys = {k1, First, Second, k4, k5} \cup {k8}
                      /\ a = {<<"Prices">>} \cup {<<"Units">>}
  OBVIOUS
<1>20. Reaches(s10, <<"Globals">>, keys, a)
  <2>1. <<"Globals">> \notin a
    BY <1>19
  <2> QED BY <1>2, <1>7, <1>16, <1>19, <2>1, ReachesOpening
<1>21. PICK b, c, d : /\ b = a \cup {<<"Globals">>} /\ c = b \cup {<<"Globals", "scaling">>}
                      /\ d = c \cup {<<"Globals", "caps">>}
  OBVIOUS
<1>22. Lists(s11, b)
  <2>1. Reaches(s11, <<>>, keys, b)
    BY <1>2, <1>7, <1>20, <1>21, ReachesClosing
  <2>2. {First, Second} \subseteq keys
    BY <1>19
  <2> QED BY <2>1, <2>2 DEF Reaches, Lists
<1>23. Lists(s12, c)
  <2>1. <<"Globals">> \in b
    BY <1>21
  <2>3. /\ l10.kind \in {"dotted", "under"} /\ l10.key = <<"Globals", "scaling">>
        /\ l10.kind = "dotted" => l10.val[1] # Foothold!Removed
    BY ONLY <1>18
  <2>4. Lists(Append(s11, l10), b \cup {<<"Globals", "scaling">>})
    BY ONLY <1>22, <2>1, <2>3, ListsMark
  <2> QED BY ONLY <1>7, <1>21, <2>4
<1>24. Lists(s13, d)
  <2>1. <<"Globals">> \in c
    BY <1>21
  <2>3. /\ l11.kind \in {"dotted", "under"} /\ l11.key = <<"Globals", "caps">>
        /\ l11.kind = "dotted" => l11.val[1] # Foothold!Removed
    BY ONLY <1>18
  <2>4. Lists(Append(s12, l11), c \cup {<<"Globals", "caps">>})
    BY ONLY <1>23, <2>1, <2>3, ListsMark
  <2> QED BY ONLY <1>7, <1>21, <2>4
<1>25. Lists(s14, d)
  <2>1. <<"Globals", "caps">> \in d
    BY <1>21
  <2> QED BY <1>7, <1>18, <1>24, <2>1, ListsInner
<1>26. Lists(s15, d)
  BY <1>7, <1>18, <1>25, ListsEnd
<1>17. Foothold!SampleFile = s15
  <2> DEFINE S == {l1, l2, l3, l4, l5, l6, l7, l8, l9, l10, l11, l12, l13}
  <2>1. Foothold!SampleFile = <<l1, l2, l3, l4, l5, l6, l7, l8, l6, l9, l6, l10, l11, l12, l13>>
    BY <1>1 DEF Foothold!SampleFile
  <2>2. s1 = <<l1>>
    <3>1. PICK t : t = <<l1>>
      OBVIOUS
    <3>2. t \in Seq(S) /\ Len(t) = 1 /\ t[1] = l1
      BY <3>1
    <3>3. \A i \in 1..0 : t[i] = <<>>[i]
      OBVIOUS
    <3> QED BY <1>7, <3>1, <3>2, <3>3, AppendTo
  <2>3. s2 = <<l1, l2>>
    <3>1. PICK t : t = <<l1, l2>>
      OBVIOUS
    <3>2. t \in Seq(S) /\ Len(t) = 2 /\ t[2] = l2
      BY <3>1
    <3>3. \A i \in 1..1 : t[i] = s1[i]
      BY <2>2, <3>1
    <3>4. s1 \in Seq(S) /\ Len(s1) = 1
      BY <2>2
    <3>5. /\ Len(t) = Len(s1) + 1 /\ l2 = t[Len(t)]
          /\ \A i \in 1..Len(s1) : t[i] = s1[i]
      BY <3>2, <3>3, <3>4
    <3>6. s2 = Append(s1, l2)
      BY <1>7
    <3>7. Append(s1, l2) = t
      BY ONLY <3>2, <3>4, <3>5, AppendTo
    <3> QED BY ONLY <3>1, <3>6, <3>7
  <2>4. s3 = <<l1, l2, l3>>
    <3>1. PICK t : t = <<l1, l2, l3>>
      OBVIOUS
    <3>2. t \in Seq(S) /\ Len(t) = 3 /\ t[3] = l3
      BY <3>1
    <3>3. \A i \in 1..2 : t[i] = s2[i]
      BY <2>3, <3>1
    <3>4. s2 \in Seq(S) /\ Len(s2) = 2
      BY <2>3
    <3>5. /\ Len(t) = Len(s2) + 1 /\ l3 = t[Len(t)]
          /\ \A i \in 1..Len(s2) : t[i] = s2[i]
      BY <3>2, <3>3, <3>4
    <3>6. s3 = Append(s2, l3)
      BY <1>7
    <3>7. Append(s2, l3) = t
      BY ONLY <3>2, <3>4, <3>5, AppendTo
    <3> QED BY ONLY <3>1, <3>6, <3>7
  <2>5. s4 = <<l1, l2, l3, l4>>
    <3>1. PICK t : t = <<l1, l2, l3, l4>>
      OBVIOUS
    <3>2. t \in Seq(S) /\ Len(t) = 4 /\ t[4] = l4
      BY <3>1
    <3>3. \A i \in 1..3 : t[i] = s3[i]
      BY <2>4, <3>1
    <3>4. s3 \in Seq(S) /\ Len(s3) = 3
      BY <2>4
    <3>5. /\ Len(t) = Len(s3) + 1 /\ l4 = t[Len(t)]
          /\ \A i \in 1..Len(s3) : t[i] = s3[i]
      BY <3>2, <3>3, <3>4
    <3>6. s4 = Append(s3, l4)
      BY <1>7
    <3>7. Append(s3, l4) = t
      BY ONLY <3>2, <3>4, <3>5, AppendTo
    <3> QED BY ONLY <3>1, <3>6, <3>7
  <2>6. s5 = <<l1, l2, l3, l4, l5>>
    <3>1. PICK t : t = <<l1, l2, l3, l4, l5>>
      OBVIOUS
    <3>2. t \in Seq(S) /\ Len(t) = 5 /\ t[5] = l5
      BY <3>1
    <3>3. \A i \in 1..4 : t[i] = s4[i]
      BY <2>5, <3>1
    <3>4. s4 \in Seq(S) /\ Len(s4) = 4
      BY <2>5
    <3>5. /\ Len(t) = Len(s4) + 1 /\ l5 = t[Len(t)]
          /\ \A i \in 1..Len(s4) : t[i] = s4[i]
      BY <3>2, <3>3, <3>4
    <3>6. s5 = Append(s4, l5)
      BY <1>7
    <3>7. Append(s4, l5) = t
      BY ONLY <3>2, <3>4, <3>5, AppendTo
    <3> QED BY ONLY <3>1, <3>6, <3>7
  <2>7. s6 = <<l1, l2, l3, l4, l5, l6>>
    <3>1. PICK t : t = <<l1, l2, l3, l4, l5, l6>>
      OBVIOUS
    <3>2. t \in Seq(S) /\ Len(t) = 6 /\ t[6] = l6
      BY <3>1
    <3>3. \A i \in 1..5 : t[i] = s5[i]
      BY <2>6, <3>1
    <3>4. s5 \in Seq(S) /\ Len(s5) = 5
      BY <2>6
    <3>5. /\ Len(t) = Len(s5) + 1 /\ l6 = t[Len(t)]
          /\ \A i \in 1..Len(s5) : t[i] = s5[i]
      BY <3>2, <3>3, <3>4
    <3>6. s6 = Append(s5, l6)
      BY <1>7
    <3>7. Append(s5, l6) = t
      BY ONLY <3>2, <3>4, <3>5, AppendTo
    <3> QED BY ONLY <3>1, <3>6, <3>7
  <2>8. s7 = <<l1, l2, l3, l4, l5, l6, l7>>
    <3>1. PICK t : t = <<l1, l2, l3, l4, l5, l6, l7>>
      OBVIOUS
    <3>2. t \in Seq(S) /\ Len(t) = 7 /\ t[7] = l7
      BY <3>1
    <3>3. \A i \in 1..6 : t[i] = s6[i]
      BY <2>7, <3>1
    <3>4. s6 \in Seq(S) /\ Len(s6) = 6
      BY <2>7
    <3>5. /\ Len(t) = Len(s6) + 1 /\ l7 = t[Len(t)]
          /\ \A i \in 1..Len(s6) : t[i] = s6[i]
      BY <3>2, <3>3, <3>4
    <3>6. s7 = Append(s6, l7)
      BY <1>7
    <3>7. Append(s6, l7) = t
      BY ONLY <3>2, <3>4, <3>5, AppendTo
    <3> QED BY ONLY <3>1, <3>6, <3>7
  <2>9. s8 = <<l1, l2, l3, l4, l5, l6, l7, l8>>
    <3>1. PICK t : t = <<l1, l2, l3, l4, l5, l6, l7, l8>>
      OBVIOUS
    <3>2. t \in Seq(S) /\ Len(t) = 8 /\ t[8] = l8
      BY <3>1
    <3>3. \A i \in 1..7 : t[i] = s7[i]
      BY <2>8, <3>1
    <3>4. s7 \in Seq(S) /\ Len(s7) = 7
      BY <2>8
    <3>5. /\ Len(t) = Len(s7) + 1 /\ l8 = t[Len(t)]
          /\ \A i \in 1..Len(s7) : t[i] = s7[i]
      BY <3>2, <3>3, <3>4
    <3>6. s8 = Append(s7, l8)
      BY <1>7
    <3>7. Append(s7, l8) = t
      BY ONLY <3>2, <3>4, <3>5, AppendTo
    <3> QED BY ONLY <3>1, <3>6, <3>7
  <2>10. s9 = <<l1, l2, l3, l4, l5, l6, l7, l8, l6>>
    <3>1. PICK t : t = <<l1, l2, l3, l4, l5, l6, l7, l8, l6>>
      OBVIOUS
    <3>2. t \in Seq(S) /\ Len(t) = 9 /\ t[9] = l6
      BY <3>1
    <3>3. \A i \in 1..8 : t[i] = s8[i]
      BY <2>9, <3>1
    <3>4. s8 \in Seq(S) /\ Len(s8) = 8
      BY <2>9
    <3>5. /\ Len(t) = Len(s8) + 1 /\ l6 = t[Len(t)]
          /\ \A i \in 1..Len(s8) : t[i] = s8[i]
      BY <3>2, <3>3, <3>4
    <3>6. s9 = Append(s8, l6)
      BY <1>7
    <3>7. Append(s8, l6) = t
      BY ONLY <3>2, <3>4, <3>5, AppendTo
    <3> QED BY ONLY <3>1, <3>6, <3>7
  <2>11. s10 = <<l1, l2, l3, l4, l5, l6, l7, l8, l6, l9>>
    <3>1. PICK t : t = <<l1, l2, l3, l4, l5, l6, l7, l8, l6, l9>>
      OBVIOUS
    <3>2. t \in Seq(S) /\ Len(t) = 10 /\ t[10] = l9
      BY <3>1
    <3>3. \A i \in 1..9 : t[i] = s9[i]
      BY <2>10, <3>1
    <3>4. s9 \in Seq(S) /\ Len(s9) = 9
      BY <2>10
    <3>5. /\ Len(t) = Len(s9) + 1 /\ l9 = t[Len(t)]
          /\ \A i \in 1..Len(s9) : t[i] = s9[i]
      BY <3>2, <3>3, <3>4
    <3>6. s10 = Append(s9, l9)
      BY <1>7
    <3>7. Append(s9, l9) = t
      BY ONLY <3>2, <3>4, <3>5, AppendTo
    <3> QED BY ONLY <3>1, <3>6, <3>7
  <2>12. s11 = <<l1, l2, l3, l4, l5, l6, l7, l8, l6, l9, l6>>
    <3>1. PICK t : t = <<l1, l2, l3, l4, l5, l6, l7, l8, l6, l9, l6>>
      OBVIOUS
    <3>2. t \in Seq(S) /\ Len(t) = 11 /\ t[11] = l6
      BY <3>1
    <3>3. \A i \in 1..10 : t[i] = s10[i]
      BY <2>11, <3>1
    <3>4. s10 \in Seq(S) /\ Len(s10) = 10
      BY <2>11
    <3>5. /\ Len(t) = Len(s10) + 1 /\ l6 = t[Len(t)]
          /\ \A i \in 1..Len(s10) : t[i] = s10[i]
      BY <3>2, <3>3, <3>4
    <3>6. s11 = Append(s10, l6)
      BY <1>7
    <3>7. Append(s10, l6) = t
      BY ONLY <3>2, <3>4, <3>5, AppendTo
    <3> QED BY ONLY <3>1, <3>6, <3>7
  <2>13. s12 = <<l1, l2, l3, l4, l5, l6, l7, l8, l6, l9, l6, l10>>
    <3>1. PICK t : t = <<l1, l2, l3, l4, l5, l6, l7, l8, l6, l9, l6, l10>>
      OBVIOUS
    <3>2. t \in Seq(S) /\ Len(t) = 12 /\ t[12] = l10
      BY <3>1
    <3>3. \A i \in 1..11 : t[i] = s11[i]
      BY <2>12, <3>1
    <3>4. s11 \in Seq(S) /\ Len(s11) = 11
      BY <2>12
    <3>5. /\ Len(t) = Len(s11) + 1 /\ l10 = t[Len(t)]
          /\ \A i \in 1..Len(s11) : t[i] = s11[i]
      BY <3>2, <3>3, <3>4
    <3>6. s12 = Append(s11, l10)
      BY <1>7
    <3>7. Append(s11, l10) = t
      BY ONLY <3>2, <3>4, <3>5, AppendTo
    <3> QED BY ONLY <3>1, <3>6, <3>7
  <2>14. s13 = <<l1, l2, l3, l4, l5, l6, l7, l8, l6, l9, l6, l10, l11>>
    <3>1. PICK t : t = <<l1, l2, l3, l4, l5, l6, l7, l8, l6, l9, l6, l10, l11>>
      OBVIOUS
    <3>2. t \in Seq(S) /\ Len(t) = 13 /\ t[13] = l11
      BY <3>1
    <3>3. \A i \in 1..12 : t[i] = s12[i]
      BY <2>13, <3>1
    <3>4. s12 \in Seq(S) /\ Len(s12) = 12
      BY <2>13
    <3>5. /\ Len(t) = Len(s12) + 1 /\ l11 = t[Len(t)]
          /\ \A i \in 1..Len(s12) : t[i] = s12[i]
      BY <3>2, <3>3, <3>4
    <3>6. s13 = Append(s12, l11)
      BY <1>7
    <3>7. Append(s12, l11) = t
      BY ONLY <3>2, <3>4, <3>5, AppendTo
    <3> QED BY ONLY <3>1, <3>6, <3>7
  <2>15. s14 = <<l1, l2, l3, l4, l5, l6, l7, l8, l6, l9, l6, l10, l11, l12>>
    <3>1. PICK t : t = <<l1, l2, l3, l4, l5, l6, l7, l8, l6, l9, l6, l10, l11, l12>>
      OBVIOUS
    <3>2. t \in Seq(S) /\ Len(t) = 14 /\ t[14] = l12
      BY <3>1
    <3>3. \A i \in 1..13 : t[i] = s13[i]
      BY <2>14, <3>1
    <3>4. s13 \in Seq(S) /\ Len(s13) = 13
      BY <2>14
    <3>5. /\ Len(t) = Len(s13) + 1 /\ l12 = t[Len(t)]
          /\ \A i \in 1..Len(s13) : t[i] = s13[i]
      BY <3>2, <3>3, <3>4
    <3>6. s14 = Append(s13, l12)
      BY <1>7
    <3>7. Append(s13, l12) = t
      BY ONLY <3>2, <3>4, <3>5, AppendTo
    <3> QED BY ONLY <3>1, <3>6, <3>7
  <2>16. s15 = <<l1, l2, l3, l4, l5, l6, l7, l8, l6, l9, l6, l10, l11, l12, l13>>
    <3>1. PICK t : t = <<l1, l2, l3, l4, l5, l6, l7, l8, l6, l9, l6, l10, l11, l12, l13>>
      OBVIOUS
    <3>2. t \in Seq(S) /\ Len(t) = 15 /\ t[15] = l13
      BY <3>1
    <3>3. \A i \in 1..14 : t[i] = s14[i]
      BY <2>15, <3>1
    <3>4. s14 \in Seq(S) /\ Len(s14) = 14
      BY <2>15
    <3>5. /\ Len(t) = Len(s14) + 1 /\ l13 = t[Len(t)]
          /\ \A i \in 1..Len(s14) : t[i] = s14[i]
      BY <3>2, <3>3, <3>4
    <3>6. s15 = Append(s14, l13)
      BY <1>7
    <3>7. Append(s14, l13) = t
      BY ONLY <3>2, <3>4, <3>5, AppendTo
    <3> QED BY ONLY <3>1, <3>6, <3>7
  <2> QED BY <2>1, <2>16
<1> QED BY <1>17, <1>26 DEF Lists, Tidy

-----------------------------------------------------------------------------
(* Every file is tidy, the one a save has read too, and what a form holds  *)
(* or sends are fields of such a file.                                     *)

IsForm(config) == Fields(config) /\ (config = <<>> \/ {First, Second} \subseteq DOMAIN config)
FormsInv ==
  /\ Tidy(campaign)
  /\ \A p \in Forms : /\ IsForm(campaignForm[p].config) /\ Fields(save[p].updates)
                      /\ save[p].at = "read" => Tidy(save[p].read)

LEMMA NoFields == IsForm(<<>>) /\ Fields(<<>>)
<1>1. DOMAIN <<>> = {}
  OBVIOUS
<1> QED BY <1>1, FS_EmptySet DEF IsForm, Fields

\* What a form gets from a tidy file.
LEMMA FormRead == ASSUME NEW lines, Tidy(lines) PROVE IsForm(Foothold!Values(lines))
<1>1. PICK s, a : Reach(lines, s, a) /\ s.path = <<>> /\ {First, Second} \subseteq DOMAIN s.values
  BY DEF Tidy
<1>2. Foothold!Values(lines) = s.values
  BY <1>1, ReachLoaded DEF Foothold!Values
<1>3. Within(s, a)
  BY <1>1, ReachWithin
<1> QED BY <1>1, <1>2, <1>3 DEF Within, IsForm, Fields

\* A form with one more field, or one field with another value.
LEMMA FormEdited ==
  ASSUME NEW config, IsForm(config), config # <<>>, NEW key, IsKey(key), NEW v
  PROVE  IsForm(Foothold!Put(config, key, v))
<1>1. PICK more : more = Foothold!Put(config, key, v)
  OBVIOUS
<1>2. DOMAIN more = DOMAIN config \cup {key}
  BY <1>1 DEF Foothold!Put
<1>3. IsFiniteSet(DOMAIN config \cup {key})
  BY FS_AddElement DEF IsForm, Fields
<1> QED BY <1>1, <1>2, <1>3 DEF IsForm, Fields

\* The key that an edit sets is one of a form, which is not empty then.
LEMMA EditedKey ==
  ASSUME NEW p \in Forms, NEW config, config = campaignForm[p].config, IsForm(config),
         Foothold!Type(p) \/ Foothold!RemoveRow(p) \/ Foothold!AddRow(p)
  PROVE  \E key, v : IsKey(key) /\ config # <<>> /\ Foothold!Change(p, key, v)
<1>1. \A k \in DOMAIN config : IsKey(k)
  BY DEF IsForm, Fields
<1>2. \A x : \A name \in Foothold!Listed :
        /\ name # <<"Reward">> => IsKey(name) /\ IsKey(name \o <<x>>)
        /\ IsKey(name \o <<"1">>) /\ IsKey(name \o <<"2">>)
  <2> SUFFICES ASSUME NEW x, NEW name \in Foothold!Listed
               PROVE  /\ name # <<"Reward">> => IsKey(name) /\ IsKey(name \o <<x>>)
                      /\ IsKey(name \o <<"1">>) /\ IsKey(name \o <<"2">>)
    OBVIOUS
  <2>1. CASE \E n, m : name = <<n, m>> /\ n # "Reward"
    <3>1. PICK n, m : name = <<n, m>> /\ n # "Reward"
      BY <2>1
    <3>2. /\ name \o <<x>> = <<n, m, x>> /\ name \o <<"1">> = <<n, m, "1">>
          /\ name \o <<"2">> = <<n, m, "2">>
      BY ONLY <3>1, InnerParts
    <3> QED BY <3>1, <3>2 DEF IsKey
  <2>2. CASE \E n : name = <<n>>
    <3>1. PICK n : name = <<n>>
      BY <2>2
    <3>2. /\ name \o <<x>> = <<n, x>> /\ name \o <<"1">> = <<n, "1">>
          /\ name \o <<"2">> = <<n, "2">>
      BY ONLY <3>1, KeyParts
    <3>3. IsKey(<<n, "1">>) /\ IsKey(<<n, "2">>)
      BY DEF IsKey, Foothold!NotNames
    <3>4. n # "Reward" => IsKey(<<n>>) /\ IsKey(<<n, x>>)
      BY DEF IsKey
    <3> QED BY <3>1, <3>2, <3>3, <3>4
  <2> QED BY <2>1, <2>2 DEF Foothold!Listed
<1>4. \A name : Foothold!RowsOf(p, name) \subseteq DOMAIN config
  BY DEF Foothold!RowsOf
<1>5. config # <<>> => Foothold!IsArray(p, <<"Reward">>)
  <2>1. <<"Reward">> \o <<"1">> = First /\ <<"Reward">> \o <<"2">> = Second
    BY KeyParts DEF First, Second
  <2> QED BY <2>1 DEF Foothold!IsArray, IsForm
<1>6. \A name : Foothold!IsDictionary(p, name) => config # <<>> /\ name # <<"Reward">>
  <2> SUFFICES ASSUME NEW name, Foothold!IsDictionary(p, name)
               PROVE  config # <<>> /\ name # <<"Reward">>
    OBVIOUS
  <2>1. DOMAIN config # {}
    BY <1>4 DEF Foothold!IsDictionary
  <2>2. config # <<>>
    BY <2>1
  <2> QED BY <1>5, <2>2 DEF Foothold!IsDictionary
<1>7. CASE Foothold!Type(p)
  <2>1. PICK name \in Foothold!Listed, v \in 1 .. MaxValue + 1 :
          \E key \in Foothold!Inputs(p, name) : config # <<>> /\ Foothold!Change(p, key, v)
    BY <1>7 DEF Foothold!Type
  <2>2. PICK key \in Foothold!Inputs(p, name) : config # <<>> /\ Foothold!Change(p, key, v)
    BY <2>1
  <2>3. IsKey(key)
    BY <1>1, <1>2, <1>4, <1>5, <2>1, <2>2 DEF Foothold!Inputs
  <2> QED BY <2>2, <2>3
<1>8. CASE Foothold!RemoveRow(p)
  <2>1. PICK name \in Foothold!Listed : /\ Foothold!IsDictionary(p, name)
                                        /\ \E key \in Foothold!RowsOf(p, name) :
                                             Foothold!Change(p, key, Foothold!Removed)
    BY <1>8 DEF Foothold!RemoveRow
  <2> QED BY <1>1, <1>4, <1>6, <2>1
<1>9. CASE Foothold!AddRow(p)
  <2>1. PICK name \in Foothold!Listed, new \in Foothold!NewNames, v \in 1 .. MaxValue :
          Foothold!IsDictionary(p, name) /\ Foothold!Change(p, name \o <<new>>, v)
    BY <1>9 DEF Foothold!AddRow
  <2> QED BY <1>2, <1>6, <2>1
<1> QED BY <1>7, <1>8, <1>9

LEMMA FormsInit == Foothold!Init => FormsInv
<1> SUFFICES ASSUME Foothold!Init PROVE FormsInv
  OBVIOUS
<1>1. \A p \in Forms : /\ campaignForm[p].config = <<>> /\ save[p].updates = <<>>
                       /\ save[p].at = "none"
  BY DEF Foothold!Init, Foothold!Unloaded, Foothold!NoSave
<1>2. Tidy(campaign)
  BY SampleIsTidy DEF Foothold!Init
<1> QED BY <1>1, <1>2, NoFields DEF FormsInv

\* A step of one page that keeps its form and its request as they have to be.
LEMMA FormsKept ==
  ASSUME CampaignInv, FormsInv, NEW p \in Forms, NEW page, NEW post,
         IsForm(page.config), Fields(post.updates), post.at = "read" => Tidy(post.read),
         campaignForm' = [campaignForm EXCEPT ![p] = page], save' = [save EXCEPT ![p] = post],
         Tidy(campaign')
  PROVE  FormsInv'
<1>1. campaignForm'[p] = page /\ save'[p] = post
  BY DEF CampaignInv
<1>2. \A q \in Forms : q # p => campaignForm'[q] = campaignForm[q] /\ save'[q] = save[q]
  BY DEF CampaignInv
<1>3. ASSUME NEW q \in Forms
      PROVE  /\ IsForm(campaignForm'[q].config) /\ Fields(save'[q].updates)
             /\ save'[q].at = "read" => Tidy(save'[q].read)
  BY <1>1, <1>2 DEF FormsInv
<1> QED BY <1>3 DEF FormsInv

LEMMA FormOpens == ASSUME CampaignInv, FormsInv, NEW p \in Forms, Foothold!Open(p) PROVE FormsInv'
<1> DEFINE page == IF Foothold!Readable(campaign)
                   THEN [config |-> Foothold!Values(campaign),
                         original |-> Foothold!Values(campaign), said |-> "none"]
                   ELSE [Foothold!Unloaded EXCEPT !.said = "error"]
<1>1. IsForm(page.config)
  <2>1. IsForm(Foothold!Values(campaign))
    BY FormRead DEF FormsInv
  <2>2. page.config = Foothold!Values(campaign) \/ page.config = <<>>
    BY DEF Foothold!Unloaded
  <2> QED BY <2>1, <2>2, NoFields
<1>2. /\ campaignForm' = [campaignForm EXCEPT ![p] = page]
      /\ save' = [save EXCEPT ![p] = Foothold!NoSave] /\ campaign' = campaign
  BY DEF Foothold!Open
<1>3. Foothold!NoSave.updates = <<>> /\ Foothold!NoSave.at = "none"
  BY DEF Foothold!NoSave
<1> HIDE DEF page
<1>4. Tidy(campaign')
  BY <1>2 DEF FormsInv
<1> QED BY <1>1, <1>2, <1>3, <1>4, NoFields, FormsKept

LEMMA FormIsEdited ==
  ASSUME CampaignInv, FormsInv, NEW p \in Forms,
         Foothold!Type(p) \/ Foothold!RemoveRow(p) \/ Foothold!AddRow(p)
  PROVE  FormsInv'
<1>1. PICK config : config = campaignForm[p].config
  OBVIOUS
<1>2. IsForm(config)
  BY <1>1 DEF FormsInv
<1>3. PICK key, v : IsKey(key) /\ config # <<>> /\ Foothold!Change(p, key, v)
  BY <1>1, <1>2, EditedKey
<1>4. PICK more : more = Foothold!Put(config, key, v)
  OBVIOUS
<1> DEFINE page == [campaignForm[p] EXCEPT !.config = more]
<1>5. campaignForm' = [campaignForm EXCEPT ![p] = page] /\ save' = save /\ campaign' = campaign
  BY <1>1, <1>3, <1>4 DEF Foothold!Change
<1>6. page.config = more
  BY DEF CampaignInv, IsPage
<1>7. IsForm(more)
  BY <1>2, <1>3, <1>4, FormEdited
<1>8. save' = [save EXCEPT ![p] = save[p]]
  BY <1>5, CampaignUnchanged
<1>9. Tidy(campaign') /\ Fields(save[p].updates) /\ (save[p].at = "read" => Tidy(save[p].read))
  BY <1>5 DEF FormsInv
<1> HIDE DEF page
<1> QED BY <1>5, <1>6, <1>7, <1>8, <1>9, FormsKept

LEMMA FormIsSent == ASSUME CampaignInv, FormsInv, NEW p \in Forms, Foothold!Save(p) PROVE FormsInv'
<1>1. PICK config : config = campaignForm[p].config
  OBVIOUS
<1>2. PICK updates : updates = [k \in Foothold!Modified(p) |-> Foothold!OnWire(config[k])]
  OBVIOUS
<1>3. Fields(updates)
  <2>1. DOMAIN updates \subseteq DOMAIN config
    BY <1>1, <1>2 DEF Foothold!Modified
  <2>2. Fields(config)
    BY <1>1 DEF FormsInv, IsForm
  <2> QED BY <2>1, <2>2, FS_Subset DEF Fields
<1> DEFINE post == [at |-> "sent", config |-> config, read |-> <<>>, updates |-> updates]
           page == [campaignForm[p] EXCEPT !.said = "none"]
<1>4. /\ campaignForm' = [campaignForm EXCEPT ![p] = page] /\ save' = [save EXCEPT ![p] = post]
      /\ campaign' = campaign
  BY <1>1, <1>2 DEF Foothold!Save
<1>5. page.config = config /\ post.updates = updates /\ post.at = "sent"
  BY <1>1 DEF CampaignInv, IsPage
<1>6. Tidy(campaign') /\ IsForm(config)
  BY <1>1, <1>4 DEF FormsInv
<1> HIDE DEF page, post
<1> QED BY <1>3, <1>4, <1>5, <1>6, FormsKept

LEMMA FileIsRead == ASSUME CampaignInv, FormsInv, NEW p \in Forms, Foothold!Read(p) PROVE FormsInv'
<1> DEFINE post == [save[p] EXCEPT !.at = "read", !.read = campaign]
<1>1. campaignForm' = campaignForm /\ save' = [save EXCEPT ![p] = post] /\ campaign' = campaign
  BY DEF Foothold!Read
<1>2. campaignForm' = [campaignForm EXCEPT ![p] = campaignForm[p]]
  BY <1>1, CampaignUnchanged
<1>3. post.updates = save[p].updates /\ post.read = campaign
  BY DEF CampaignInv, IsSave
<1>4. Tidy(campaign) /\ IsForm(campaignForm[p].config) /\ Fields(save[p].updates)
  BY DEF FormsInv
<1> HIDE DEF post
<1> QED BY <1>1, <1>2, <1>3, <1>4, FormsKept

LEMMA FileIsWritten ==
  ASSUME CampaignInv, FormsInv, NEW p \in Forms, Foothold!Write(p)
  PROVE  FormsInv'
<1> DEFINE post == [save[p] EXCEPT !.at = "written"]
<1>1. /\ campaignForm' = campaignForm /\ save' = [save EXCEPT ![p] = post]
      /\ campaign' = Foothold!Rewritten(save[p].read, save[p].updates) /\ save[p].at = "read"
  BY DEF Foothold!Write
<1>2. campaignForm' = [campaignForm EXCEPT ![p] = campaignForm[p]]
  BY <1>1, CampaignUnchanged
<1>3. post.updates = save[p].updates /\ post.at = "written"
  BY DEF CampaignInv, IsSave
<1>4. IsForm(campaignForm[p].config) /\ Fields(save[p].updates) /\ Tidy(save[p].read)
  BY <1>1 DEF FormsInv
<1>5. Tidy(campaign')
  BY <1>1, <1>4, RewritingSaves
<1> HIDE DEF post
<1> QED BY <1>1, <1>2, <1>3, <1>4, <1>5, FormsKept

LEMMA SaveEnds ==
  ASSUME CampaignInv, FormsInv, NEW p \in Forms,
         Foothold!Saved(p) \/ Foothold!SaveFails(p) \/ Foothold!Fade(p)
  PROVE  FormsInv'
<1>1. PICK page : /\ campaignForm' = [campaignForm EXCEPT ![p] = page]
                  /\ page.config = campaignForm[p].config
  <2>1. PICK shown : shown = campaignForm[p]
    OBVIOUS
  <2>2. IsPage(shown)
    BY <2>1 DEF CampaignInv
  <2>3. \E original, said :
          campaignForm' =
            [campaignForm EXCEPT ![p] = [shown EXCEPT !.original = original, !.said = said]]
    <3>1. CASE Foothold!Saved(p)
      BY <2>1, <3>1 DEF Foothold!Saved
    <3>2. CASE Foothold!SaveFails(p) \/ Foothold!Fade(p)
      <4>1. \A x : [shown EXCEPT !.original = shown.original, !.said = x] = [shown EXCEPT !.said = x]
        BY <2>2 DEF IsPage
      <4>2. PICK x : campaignForm' = [campaignForm EXCEPT ![p] = [shown EXCEPT !.said = x]]
        BY <2>1, <3>2 DEF Foothold!SaveFails, Foothold!Fade
      <4> QED BY <4>1, <4>2
    <3> QED BY <3>1, <3>2
  <2>4. \A original, said : [shown EXCEPT !.original = original, !.said = said].config = shown.config
    BY <2>2 DEF IsPage
  <2>5. PICK original, said :
          campaignForm' =
            [campaignForm EXCEPT ![p] = [shown EXCEPT !.original = original, !.said = said]]
    BY <2>3
  <2>6. PICK page : page = [shown EXCEPT !.original = original, !.said = said]
    OBVIOUS
  <2>7. page.config = shown.config /\ campaignForm' = [campaignForm EXCEPT ![p] = page]
    BY <2>4, <2>5, <2>6
  <2> QED BY <2>1, <2>7
<1>2. save' = [save EXCEPT ![p] = Foothold!NoSave] \/ save' = [save EXCEPT ![p] = save[p]]
  BY CampaignUnchanged DEF Foothold!Saved, Foothold!SaveFails, Foothold!Fade
<1>3. Foothold!NoSave.updates = <<>> /\ Foothold!NoSave.at = "none"
  BY DEF Foothold!NoSave
<1>4. campaign' = campaign
  BY DEF Foothold!Saved, Foothold!SaveFails, Foothold!Fade
<1>5. Tidy(campaign') /\ IsForm(page.config)
  BY <1>1, <1>4 DEF FormsInv
<1>6. PICK post : /\ save' = [save EXCEPT ![p] = post] /\ Fields(post.updates)
                  /\ post.at = "read" => Tidy(post.read)
  BY <1>2, <1>3, NoFields DEF FormsInv
<1> QED BY <1>1, <1>5, <1>6, FormsKept

LEMMA FormsStep == CampaignInv /\ FormsInv /\ [Foothold!Next]_campaignVars => FormsInv'
<1> SUFFICES ASSUME CampaignInv, FormsInv, [Foothold!Next]_campaignVars PROVE FormsInv'
  OBVIOUS
<1>1. CASE UNCHANGED campaignVars
  BY <1>1 DEF campaignVars, FormsInv
<1>2. CASE Foothold!Next
  <2>1. PICK p \in Forms :
          \/ Foothold!Open(p) \/ Foothold!Type(p) \/ Foothold!RemoveRow(p) \/ Foothold!AddRow(p)
          \/ Foothold!Save(p) \/ Foothold!Read(p) \/ Foothold!Write(p) \/ Foothold!Saved(p)
          \/ Foothold!SaveFails(p) \/ Foothold!Fade(p)
    BY <1>2 DEF Foothold!Next
  <2> QED BY <2>1, FormOpens, FormIsEdited, FormIsSent, FileIsRead, FileIsWritten, SaveEnds
<1> QED BY <1>1, <1>2

LEMMA FormsInvariance == FilesSpec => []FormsInv
<1>1. FilesInit => CampaignInv /\ FormsInv
  BY CampaignInit, FormsInit DEF FilesInit
<1>2. CampaignInv /\ FormsInv /\ [FilesNext]_filesVars => FormsInv'
  <2>1. [FilesNext]_filesVars => [Foothold!Next]_campaignVars
    BY DEF FilesNext, Others, filesVars
  <2> QED BY <2>1, FormsStep
<1> QED BY <1>1, <1>2, CampaignInvariance, PTL DEF FilesSpec, filesVars

\* The one step of a save that ends in "written" is its write.
LEMMA WritesIsWrite ==
  ASSUME CampaignInv, [Foothold!Next]_campaignVars, NEW p \in Forms, Foothold!Writes(p)
  PROVE  campaign' = Foothold!Rewritten(save[p].read, save[p].updates)
<1>1. save[p].at = "read" /\ save'[p].at = "written"
  BY DEF Foothold!Writes
<1>2. PICK q \in Forms :
          \/ Foothold!Open(q) \/ Foothold!Type(q) \/ Foothold!RemoveRow(q) \/ Foothold!AddRow(q)
          \/ Foothold!Save(q) \/ Foothold!Read(q) \/ Foothold!Write(q) \/ Foothold!Saved(q)
          \/ Foothold!SaveFails(q) \/ Foothold!Fade(q)
  BY <1>1 DEF Foothold!Next, campaignVars
<1>3. PICK post : save' = [save EXCEPT ![q] = post]
  BY <1>2, CampaignSteps
<1>4. p = q
  BY <1>1, <1>3 DEF CampaignInv
<1>5. CASE Foothold!Write(q)
  BY <1>4, <1>5 DEF Foothold!Write
<1>6. CASE ~Foothold!Write(q)
  <2>1. save' # save
    BY <1>1
  <2>2. save[q].at = "read"
    BY <1>1, <1>4
  <2> QED BY <1>2, <1>6, <2>1, <2>2 DEF Foothold!Open, Foothold!Type, Foothold!RemoveRow,
            Foothold!AddRow, Foothold!Change, Foothold!Save, Foothold!Read, Foothold!Saved,
            Foothold!SaveFails, Foothold!Fade
<1> QED BY <1>5, <1>6

\* So a write has what RewritingSaves says of the file that was read.
LEMMA WritesSave ==
  ASSUME CampaignInv, FormsInv, [Foothold!Next]_campaignVars, NEW p \in Forms, Foothold!Writes(p),
         Foothold!IsClear(save[p].read, save[p].updates)
  PROVE  /\ \A k \in DOMAIN save[p].updates :
              (Foothold!HasPlace(save[p].read, k) /\ Foothold!Last(k) \notin Foothold!NotNames)
                => Foothold!Holds(campaign', k, save[p].updates[k])
         /\ \A k \in DOMAIN Foothold!Values(save[p].read) :
              (k \notin DOMAIN save[p].updates \/ Foothold!IsApart(save[p].read, k))
                => Foothold!Holds(campaign', k, Foothold!Values(save[p].read)[k])
         /\ DOMAIN Foothold!Values(campaign')
              \subseteq DOMAIN Foothold!Values(save[p].read) \cup DOMAIN save[p].updates
<1>1. campaign' = Foothold!Rewritten(save[p].read, save[p].updates)
  BY WritesIsWrite
<1>2. Tidy(save[p].read) /\ Fields(save[p].updates)
  BY DEF FormsInv, Foothold!Writes
<1> QED BY <1>1, <1>2, RewritingSaves

\* For any number of browsers whose saves interleave: a save of Foothold's form
\* writes the fields that were edited and have a place in the file, new rows of
\* its tables among them, and leaves the rest of the file as it reads. It leaves
\* what dotted names have set as well, edited or not, and nothing is said of a
\* save with a field named like a row of a table that a dotted name opened
\* (update_foothold_config).
THEOREM EditsAreSaved == FilesSpec => Foothold!SavesWhatWasEdited
<1>1. CampaignInv /\ FormsInv /\ [FilesNext]_filesVars =>
        [\A p \in Forms :
           Foothold!Writes(p) /\ Foothold!Readable(campaign')
             /\ Foothold!IsClear(save[p].read, save[p].updates) =>
           /\ \A k \in DOMAIN save[p].updates :
                (Foothold!HasPlace(save[p].read, k) /\ Foothold!Last(k) \notin Foothold!NotNames)
                  => Foothold!Holds(campaign', k, save[p].updates[k])
           /\ \A k \in DOMAIN Foothold!Values(save[p].read) :
                (k \notin DOMAIN save[p].updates \/ Foothold!IsApart(save[p].read, k))
                  => Foothold!Holds(campaign', k, Foothold!Values(save[p].read)[k])
           /\ DOMAIN Foothold!Values(campaign')
                \subseteq DOMAIN Foothold!Values(save[p].read) \cup DOMAIN save[p].updates
        ]_(Foothold!vars)
  <2>1. [FilesNext]_filesVars => [Foothold!Next]_campaignVars
    BY DEF FilesNext, Others, filesVars
  <2> QED BY <2>1, WritesSave
<1> QED BY <1>1, CampaignInvariance, FormsInvariance, PTL
        DEF FilesSpec, filesVars, Foothold!SavesWhatWasEdited

\* For any number of browsers: a save of Foothold's form writes what was edited
\* and has a place in the file, leaves the rest of it, what dotted names have set
\* included, and what was edited meanwhile stays unsaved; what the SRS form saved
\* is what it reads back (update_foothold_config, handleSave and post_settings).
THEOREM FormsSaved == FilesSpec => FormsAreSaved
BY EditsAreSaved, EditsAreNotForgotten, SettingsReadBack DEF FormsAreSaved

-----------------------------------------------------------------------------
(* Types                                                                   *)

LEMMA LogTypes == LogInv => Audit!TypeOK
<1> SUFFICES ASSUME LogInv PROVE Audit!TypeOK
  OBVIOUS
<1>1. Audit!IsFile(log, LAMBDA logs : logs \in Seq(Nat) /\ Len(logs) <= MaxLogs)
  BY LogFiles DEF LogInv, LogShape, Audit!IsFile, Entries
<1> QED BY <1>1, LoginTypes DEF LogInv, LogShape, Audit!TypeOK, LoginJob, Entries

LEMMA WeatherTypes == WeatherInv => Weather!TypeOK
<1> SUFFICES ASSUME WeatherInv PROVE Weather!TypeOK
  OBVIOUS
<1>1. \A r \in Applies :
        apply[r] \in [at : {"idle", "resolved", "generating", "orphan", "generated", "success"},
                      target : Weather!Slots, apply : Nat] \cup {Weather!Idle}
  BY DEF WeatherInv, WeatherShape, Generation
<1> QED BY <1>1 DEF WeatherInv, WeatherShape, Weather!TypeOK

LEMMA CampaignTypes == CampaignInv => Foothold!TypeOK
BY DEF CampaignInv, IsPage, IsSave, Foothold!TypeOK

LEMMA SrsTypes == SrsInv => Srs!TypeOK
BY SrsBasics DEF SrsInv, Srs!TypeOK

LEMMA FilesAreSettings == FilesSpec => Spec
<1>1. [FilesNext]_filesVars => [Next]_vars
  BY DEF FilesNext, Others, filesVars
<1> QED BY <1>1, PTL DEF FilesSpec, FilesInit, Spec, filesVars

LEMMA FilesInvariance == FilesSpec => [](LogInv /\ WeatherInv)
<1>1. FilesInit => LogInv /\ WeatherInv
  BY LogInit, WeatherInit DEF FilesInit
<1>2. LogInv /\ WeatherInv /\ [FilesNext]_filesVars => LogInv' /\ WeatherInv'
  <2>1. [FilesNext]_filesVars => [Audit!Next]_loginVars /\ [Weather!Next]_weatherVars
    BY DEF FilesNext, Others, filesVars
  <2> QED BY <2>1, LogStep, WeatherStep
<1> QED BY <1>1, <1>2, PTL DEF FilesSpec, filesVars

\* The types of all the files, forms and requests, for any sets and bounds.
THEOREM FilesTypeCorrect == FilesSpec => []FilesTypeOK
<1>1. TypeOK /\ LogInv /\ WeatherInv /\ CampaignInv /\ SrsInv => FilesTypeOK
  BY LogTypes, WeatherTypes, CampaignTypes, SrsTypes DEF FilesTypeOK
<1> QED BY <1>1, FilesAreSettings, SettingsTypeCorrect, FilesInvariance, CampaignInvariance,
           SrsInvariance, PTL
================================================================================
