CONSTANTS
  c1 = c1
  c2 = c2
  Callers = {c1, c2}
  Dangling = Dangling
  Disks = 2
  Signals = {"ALRM"}
  VmallocFails = FALSE
  MmapFails = FALSE
  MaxCredits = 3
SPECIFICATION QuietSpec
CHECK_DEADLOCK FALSE
INVARIANT ExitAnswersComputed
