SPECIFICATION Spec
CONSTANTS
  bsp = bsp
  ap1 = ap1
  ap2 = ap2
  CPUs <- ThreeCPUs
  Machines <- OneTrouble
  Bsp = bsp
  LapicMoved = TRUE
INVARIANTS
  PrintfIsReentrant
CHECK_DEADLOCK FALSE
