SPECIFICATION Spec
CONSTANTS
  Pages = {p1, p2}
  MaxBuffer = 2
  MaxMessages = 3
  MaxMissions = 2
INVARIANT NothingSkipped
