SPECIFICATION Spec
CONSTANTS
  SMP_MAX_CORES = 2
  IOAPIC_MAX_RECORDS = 1
  Firmwares <- RootsAndMadts
  NULL = NULL
INVARIANTS
  TypeOK
  HeaderVerified
  RecordsByTypeNumber
  StopsOnlyForCause
PROPERTIES
  TablesAreRead
CHECK_DEADLOCK FALSE
