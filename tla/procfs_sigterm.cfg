CONSTANTS
  c1 = c1
  c2 = c2
  Callers = {c1, c2}
  Dangling = Dangling
  Disks = 2
  Signals = {"TERM"}
  VmallocFails = FALSE
  MmapFails = FALSE
SPECIFICATION Spec
CHECK_DEADLOCK FALSE
INVARIANT AnswerMeansDone
