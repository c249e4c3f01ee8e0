CONSTANTS
  NumTerminals = 2
  NumTasks = 3
  EarlyInput = FALSE
  VidmapCallers = {}
SPECIFICATION FairSpec
PROPERTIES
  EveryTerminalScheduled
  ReaderServed
  FaultFinishes
