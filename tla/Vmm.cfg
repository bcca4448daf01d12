SPECIFICATION Spec
CONSTANTS
  MemMaps <- TwoEntries
  BitmapSize = 2
  Sizes <- SmallSizes
  PAGE_SIZE = 2
  FANOUT = 4
  DEPTH = 2
  Low = 3
  hhdm_offset = 33
  KernelBase = 57
  PhysicalBase = 1
  Absent = Absent
INVARIANTS
  TablesFormATree
  SectionsProtected
  MemoryMapped
PROPERTIES
  ImplementsAddressSpace
CHECK_DEADLOCK FALSE
