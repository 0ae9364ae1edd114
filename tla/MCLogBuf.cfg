SPECIFICATION Spec
CONSTANTS
  Chars = {"a", "b"}
  Msgs <- MCMsgs
  EARLY_SIZE = 4
  Sizes = {3, 5}
INVARIANTS
  BufferOK
PROPERTIES
  ImplementsLog
