SPECIFICATION PagesSpec
CONSTANTS
  Tabs = {t1, t2}
  Releases <- PanelReleases
  Pinned = {"status"}
  MaxChanges = 3
  TableReleases <- ColumnReleases
  PassKinds <- Namesakes
  Tree <- MissionTree
  Removable <- RemovableFiles
  Uploadable = {"dawn"}
  MaxQueue = 1
  NoUcid = "none"
  NoPoints = 99
  PageLimit = 2
  PerPilot = 1
  MaxPasses = 3
  MaxInFlight = 2
INVARIANTS
  PagesTypeOK
  EntriesOnce
  ControlsDoAsAimed
  BoardIsRight
  StatisticsAddUp
PROPERTIES
  HidingIsKept
  PagesCatchUp
CHECK_DEADLOCK FALSE
