CONSTANTS
  Terminals = {0, 1}
  NUM_ROWS = 2
  NUM_COLS = 2
  BUFFERLENGTH = 1
  Chars = {"a"}
  MaxBytes = 2
  MouseCells = {1}
  MaxWord = 2
SPECIFICATION Spec
INVARIANTS
  TypeOK
PROPERTIES
  StaysMirrored
  KeepsPromiseOtherwise
