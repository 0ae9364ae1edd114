SPECIFICATION FairSpec
CONSTANTS
  Types <- TypeTable
  Threads = {t1, t2}
  MaxCalls = 2
INVARIANTS
  WordAgreesWithFields
  StaysProper
PROPERTIES
  ImplementsRecord
  AtomicCallReturns
CHECK_DEADLOCK FALSE
