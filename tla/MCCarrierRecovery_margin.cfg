SPECIFICATION Spec
CONSTANTS
  Ship = Ship
  OtherShip = OtherShip
  Circuit = Circuit
  NoRecovery = NoRecovery
  Groups <- OneShip
  Pictures <- WorldOfChangingWind
  Delegable = {}
  Compass = 4
  Speeds = {1, 2}
  Tolerance = 0
  TurnDelay = 2
  AlignTimeout = 3
  AlignStable = 1
  Duration = 3
  Reserve = 2
  FastPoll = 1
  SlowPoll = 2
  QuietTime = 3
  MaxTime = 10
  MaxStarts = 1
PROPERTY EscapeMargin
