SPECIFICATION Spec
CONSTANTS
  PAGE_SIZE = 4
  NUM_KERNEL_PAGES = 8
  MemoryMap <- MCMemoryMap
  BitmapPages = 1
  NUM_KERNEL_PAGE_TABLES = 1
  SmallStep = 2
  SmallMax = 2
  LargeStep = 2
  Sizes = {1, 3, 5}
  Alignments = {1, 4}
  DmaSizes = {8}
  DevicePages = {20}
  MaxBlks = 2
INVARIANTS
  FramesConsistent
PROPERTIES
  AllocationsStable
CHECK_DEADLOCK FALSE
