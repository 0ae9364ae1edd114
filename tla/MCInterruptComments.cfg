SPECIFICATION Spec
CONSTANTS
  GIC_SGI_END = 1
  GIC_PPI_END = 4
  GIC_SPI_END = 11
  PLATFORM_NUM_IRQS = 11
  RegIrqs = 4
  PLATFORM_TIMER_IRQ = 3
  AppIrqs = {1}
  ResetStates <- MCEnabledState
  MaxEvents = 1
  MaxDepth = 2
INVARIANT DriverIsAsCommented
