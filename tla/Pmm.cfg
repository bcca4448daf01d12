SPECIFICATION Spec
CONSTANTS
  MemMaps <- EveryMap
  PAGE_SIZE = 2
  BITS = 2
  Requests <- OneOrThree
INVARIANTS
  IInv
  Conservation
  BitmapProtected
  SearchIsFirstFit
  MissesOnlyAcrossTheCache
  StraysOnlyAtTheEdges
PROPERTIES
  ImplementsAllocator
CHECK_DEADLOCK FALSE
