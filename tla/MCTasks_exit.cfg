CONSTANTS
  NumTerminals = 2
  NumTasks = 4
  EarlyInput = FALSE
  VidmapCallers = {}
SPECIFICATION Spec
INVARIANT ExitStatus
