SPECIFICATION MCSpec
CONSTANTS
  Requests = {r1, r2}
  Flaky = TRUE
  MaxProcesses = 2
  Windows = {t1, t2}
  Calls = {c1, c2}
  MaxTokens = 2
  MaxVersion = 2
  MaxInFlight = 2
  MaxActions = 2
  Feeds = {p1, p2}
  MaxBuffer = 2
  MaxMessages = 3
  MaxMissions = 2
INVARIANTS
  HostTypeOK
  OneProcessPerStarter
  OwnActionsAreShown
  FeedIsFaithful
PROPERTIES
  SettledStopHolds
  CrashIsRepaired
  SessionsEndForAReason
  SessionEndsEverywhere
  PagesSettle
CHECK_DEADLOCK FALSE
