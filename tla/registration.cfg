CONSTANTS
  d1 = d1
  d2 = d2
  Daemons = {d1, d2}
  None = None
  Overlaps = TRUE
  Crashes = TRUE
  Deletes = TRUE
  Strangers = TRUE
SPECIFICATION Spec
INVARIANTS TypeOK GenOpenedOnce ConfFreeUntilConfigured
PROPERTY FirstStartEnds
