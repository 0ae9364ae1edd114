\* One type of flags, whose objects have an unnamed bit that is wanted to be 1.
SPECIFICATION Spec
CONSTANTS
  Types <- MCModifyPages
  Threads = {t1}
  MaxCalls = 1
INVARIANT SetsAreOfFields
CHECK_DEADLOCK FALSE
