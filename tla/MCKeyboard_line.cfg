CONSTANTS
  Terminals = {0, 1}
  BUFFERLENGTH = 2
  BUFFER_SIZE = 1
  Chars = {a, b}
  Patient = TRUE
  FullLines = FALSE
SPECIFICATION Spec
SYMMETRY Symmetry
VIEW LiveState
INVARIANTS
  TypeOK
  Editing
  LineDelivered
