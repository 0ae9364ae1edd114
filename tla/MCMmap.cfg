SPECIFICATION Spec
CONSTANTS
  AddrPages = 16
  WordBits = 3
  PageBytes = 7
  NodeBytes = 4
  RegBytes = 1
  BrkHeap <- MCBrkHeap
  MemRanges <- MCMemRanges
  Lens <- MCLens
  Addrs <- MCAddrs
INVARIANTS
  TypeOK
  PagesAccountedFor
  StructuresHold
  StatsAreTrue
PROPERTIES
  NoFalseENOMEM
  BreakYieldsLast
  RemovedHeapIsUnused
  ImplementsPageOwner
