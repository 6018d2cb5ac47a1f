SPECIFICATION SessionSpec
CONSTANTS
  Windows = {t1, t2}
  Calls = {c1, c2}
  MaxTokens = 2
PROPERTY OnlyItsRejectionEndsASession
