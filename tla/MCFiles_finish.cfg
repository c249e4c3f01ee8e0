CONSTANTS
  Procs = {0, 3}
  Shells = {0}
  NumFds = 3
  Dentries <- MCDentries
  Length <- MCLength
  ReadSizes = {1, 2}
  Freqs = {}
  Word = 16
  Exclusive = TRUE
  MaxNames = 1
SPECIFICATION FairSpec
PROPERTY ReaderFinishes
