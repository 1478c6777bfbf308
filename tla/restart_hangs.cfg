CONSTANTS
  d1 = d1
  d2 = d2
  Daemons = {d1, d2}
  None = None
  Overlaps = FALSE
  Crashes = FALSE
  Deletes = FALSE
  Strangers = FALSE
SPECIFICATION Spec
PROPERTY StartEnds
