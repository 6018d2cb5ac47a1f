SPECIFICATION AirbossSpec
CONSTANTS
  Ship = Ship
  OtherShip = OtherShip
  Circuit = Circuit
  NoRecovery = NoRecovery
  Groups <- OneShip
  Pictures <- WorldOfOneShip
  Delegable <- OneShip
  Compass = 4
  Speeds = {1, 2}
  Tolerance = 0
  TurnDelay = 2
  AlignTimeout = 2
  AlignStable = 1
  Duration = 2
  Reserve = 2
  FastPoll = 1
  SlowPoll = 2
  QuietTime = 3
  MaxTime = 9
  MaxStarts = 2
  Briefings = {m1}
  Targets = {t1, t2}
  Posts = {r1, r2}
  MaxLaunches = 1
  MaxChoices = 2
  Panels = {lincoln, tarawa}
  Ids = {1, 2, 3}
  MaxDeckClicks = 1
  Hulls = {"tarawa", "invincible"}
  MaxFrames = 3
SYMMETRY Alike
INVARIANTS
  AirbossTypeOK
  OneMonitorPerRecovery
  CircuitIsNeverLost
  RecoveryIsBounded
  AckedIsTheShips
  DecksAreRight
PROPERTIES
  TurnsAsAnnounced
  LayoutsAreKept
CHECK_DEADLOCK FALSE
