CONSTANTS
  c1 = c1
  c2 = c2
  Callers = {c1, c2}
  Dangling = Dangling
  Disks = 2
  Signals = {"TERM", "ALRM"}
  VmallocFails = TRUE
  MmapFails = TRUE
SPECIFICATION FairSpec
CHECK_DEADLOCK FALSE
INVARIANTS TypeOK PublishedStable ServesPublished ReturnComputed ExitAnswersComputed
PROPERTIES CallReturns ImplementsService
