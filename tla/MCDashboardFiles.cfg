SPECIFICATION FilesSpec
CONSTANTS
  Editors = {p1, p2}
  Admins = {q1}
  Edits = {"renamed"}
  Missions = {m1, m2}
  Braced = {m2}
  Logins = {r1, r2}
  MaxLogs = 2
  MaxEntries = 4
  Applies = {r1, r2}
  MaxApplies = 4
  Forms = {f1, f2}
  MaxValue = 1
  MaxEdits = 2
INVARIANTS
  FilesTypeOK
  NoDuplicates
  FileIsAsAsked
  FileIsReadable
PROPERTIES
  LogIsKept
  WeatherIsSafe
  FormsAreSaved
CHECK_DEADLOCK FALSE
