SPECIFICATION Spec
CONSTANTS
  bsp = bsp
  ap1 = ap1
  ap2 = ap2
  CPUs <- ThreeCPUs
  Machines <- FewTroubles
  Bsp = bsp
  LapicMoved = TRUE
INVARIANTS
  TextUnbroken
  HaltedUnlessTrouble
  PreparedColourKept
  HaltedHoldNothing
PROPERTIES
  PanicReported
  KernelEndsInAPanic
CHECK_DEADLOCK FALSE
