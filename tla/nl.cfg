CONSTANTS
  c1 = c1
  c2 = c2
  Callers = {c1, c2}
  Dangling = Dangling
  Disks = 2
  Signals = {"TERM", "ALRM"}
  VmallocFails = TRUE
  MmapFails = TRUE
  Address <- PlainAddress
  StalePids = TRUE
  SkbFails = TRUE
  UnicastFails = TRUE
SPECIFICATION FairSpec
CHECK_DEADLOCK FALSE
INVARIANTS ServesPublished ReturnComputed
PROPERTIES AckAccepted ImplementsService
