\* Every call of MCRequests. A call ends.
CONSTANTS
  RegWrap <- MCRegWrap
  Char <- MCChar
  MAX_ARG_CNT = 2
  Requests <- MCRequests
SPECIFICATION Spec
INVARIANTS
  ReadAsWritten
  WritesWhatIsAsked
  CutsOnlyWhenFull
  OnlyNumbersOverrun
CHECK_DEADLOCK FALSE
