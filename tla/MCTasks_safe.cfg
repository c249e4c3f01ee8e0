CONSTANTS
  NumTerminals = 2
  NumTasks = 5
  EarlyInput = FALSE
  VidmapCallers = {"foreground"}
SPECIFICATION Spec
VIEW LiveState
INVARIANTS
  TypeOK
  SlotOwnership
  StackShape
  BootOrder
  BaseShells
  ParentLinks
  CpuMatchesRunning
  SuspendedResumable
PROPERTIES
  Isolation
  ImplementsStacks
