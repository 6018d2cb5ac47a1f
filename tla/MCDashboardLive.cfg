SPECIFICATION LiveSpec
CONSTANTS
  Carriers = {lincoln, tarawa}
  Lookalikes = {ferry}
  MaxSpawns = 1
  MaxLosses = 1
  a = a
  b = b
  c1 = c1
  c2 = c2
  Units = {a, b}
  Categories = {c1, c2}
  Category <- TwoCategories
  MaxQueue = 2
  MaxChanges = 4
  MaxReloads = 1
  Ships = {a, b}
  Polls = {q1, q2}
  MaxClicks = 2
INVARIANTS
  LiveTypeOK
  BatchIsFaithful
  NothingGoesMissing
  RejectionsAreRight
PROPERTIES
  ShowsTheWorld
  CarriersSettle
  UnsyncedIsFrozen
  LossIsShown
CHECK_DEADLOCK FALSE
