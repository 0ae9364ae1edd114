SPECIFICATION FairSpec
CONSTANTS
  GIC_SGI_END = 1
  GIC_PPI_END = 4
  GIC_SPI_END = 11
  PLATFORM_NUM_IRQS = 11
  RegIrqs = 4
  PLATFORM_TIMER_IRQ = 3
  AppIrqs = {2, 5}
  ResetStates <- MCResetStates
  MaxEvents = 2
  MaxDepth = 2
INVARIANTS
  TypeOK
  NoNesting
  ActiveIsHandled
  RuntimeIsMasked
  QuietStaysDisabled
  EdgesAreKept
PROPERTIES
  SilentAfterExit
  DispatcherReturns
  WaitEnds
