SPECIFICATION Spec
CONSTANTS
  bsp = bsp
  ap1 = ap1
  ap2 = ap2
  Nobody = Nobody
  cpus <- BspSecond
  Bsp = bsp
  HighestPage = 10
  FreePages <- EnoughOrTooFew
  StackPages = 1
  BITS = 4
INVARIANTS
  InitMeansAllStarted
  OwnTaskState
  RunsWithItsOwnRecord
  ExactUnlessContended
PROPERTIES
  BootFinishes
CHECK_DEADLOCK FALSE
