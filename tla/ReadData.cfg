CONSTANTS
  Word = 16
  BlockSize = 2
  DataBlocks = 3
  MaxLength = 5
  MaxRequest = 4
SPECIFICATION FairSpec
CHECK_DEADLOCK FALSE
INVARIANTS
  TypeOK
  Copied
  Promise
PROPERTY Terminates
