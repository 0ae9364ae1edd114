SPECIFICATION FairSleepSpec
CONSTANTS
  GIC_SGI_END = 1
  GIC_PPI_END = 4
  GIC_SPI_END = 8
  PLATFORM_NUM_IRQS = 8
  RegIrqs = 4
  PLATFORM_TIMER_IRQ = 3
  AppIrqs = {5}
  ResetStates <- MCResetStates
  MaxEvents = 1
  MaxDepth = 2
  TickWrap = 16
  NS_PER_S = 4
  timer_freq = 3
  MaxRestarts = 2
  MaxTicks = 4
  Requests <- MCRequests
INVARIANTS
  SleepTypeOK
  NoStaleTimer
  NeverEarly
  RemainingIsExact
PROPERTIES
  TimedWaitReturns
