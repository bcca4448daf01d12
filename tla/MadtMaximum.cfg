SPECIFICATION Spec
CONSTANTS
  SMP_MAX_CORES = 2
  IOAPIC_MAX_RECORDS = 1
  Firmwares <- RootsAndMadts
  NULL = NULL
INVARIANTS
  NeverMoreThanTheMaximum
CHECK_DEADLOCK FALSE
