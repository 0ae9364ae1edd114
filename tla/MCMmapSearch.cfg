SPECIFICATION Spec
CONSTANTS
  WordBits = 3
  MaxBits = 10
INVARIANTS
  TypeOK
  FirstFit
  AssertsHold
PROPERTIES
  SearchEnds
CHECK_DEADLOCK FALSE
