SPECIFICATION Spec
CONSTANTS
  Half = 4
  Text <- SevenFunctions
  Static = {"cpu_init", "cpu_state_assembler"}
  TextStart = 40
  Size = 2
  isr_table <- Stubs
  halt_handler = 140
  MaxFrames = 3
  MaxExceptions = 2
  NestedVectors = {6, 14}
INVARIANTS
  CpuStateIsRight
  TraceNamesCallers
PROPERTIES
  TraceEnds
CHECK_DEADLOCK FALSE
