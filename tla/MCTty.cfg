SPECIFICATION Spec
CONSTANTS
  Chars <- MCChars
  Said <- MCSaid
  Writes <- MCWrites
  Messages <- MCMessages
  Room = 4
  MaxDepth = 2
INVARIANTS
  LinesAreStamped
  WritesAreKept
