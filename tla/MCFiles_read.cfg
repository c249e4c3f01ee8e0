CONSTANTS
  Procs = {0, 3}
  Shells = {0}
  NumFds = 4
  Dentries <- FewDentries
  Length <- MCLength
  ReadSizes = {2}
  Freqs = {1, 3}
  Word = 16
  Exclusive = TRUE
  MaxNames = 1
SPECIFICATION Spec
INVARIANTS
  TypeOK
  DescriptorsSound
  WholeFile
