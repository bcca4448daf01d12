SPECIFICATION TimerSpec
CONSTANTS
  Word = 32
  Dword = 32
  Moduli = {8, 32}
  Period = 3
  FsPerNs = 2
  Requests <- SomeRequests
  Calibration <- OneCalibration
  PerSecond = 2
  Rates = {1, 3}
  MaxStall = 2
INVARIANTS
  SleepInBounds
PROPERTIES
  SleepEnds
  FrequencyInBounds
