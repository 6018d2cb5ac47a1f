SPECIFICATION Spec
CONSTANTS
  Pages = {p1}
  MaxValue = 2
  MaxEdits = 2
PROPERTY SavedIsWritten
CHECK_DEADLOCK FALSE
