SPECIFICATION ProcessSpec
CONSTANTS
  Requests = {r1}
  Flaky = FALSE
  MaxProcesses = 2
PROPERTY FlagIsHonoured
