SPECIFICATION Spec
CONSTANTS
  NUM_FDS = 5
  BITMAP_WORD_BITS = 2
  Devices = {"mem", "console", "exit"}
  AccModes = {"O_RDWR"}
  Callbacks = {"app"}
INVARIANTS
  DescriptorsAgree
PROPERTIES
  OpeningTakesTheLeast
CHECK_DEADLOCK FALSE
