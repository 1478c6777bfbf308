CONSTANTS
  c1 = c1
  c2 = c2
  Callers = {c1, c2}
  Dangling = Dangling
  Disks = 2
  Signals = {"TERM", "ALRM"}
  VmallocFails = TRUE
  MmapFails = TRUE
  MaxCredits = 3
SPECIFICATION FairSpec
CHECK_DEADLOCK FALSE
INVARIANTS PublishedStable AnnouncedIsAwaited ReturnComputed
PROPERTIES CallReturns ImplementsService
