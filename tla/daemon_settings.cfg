CONSTANTS
  Builds = {4}
  Arguments <- Words
  LastDisks = 5
SPECIFICATION FrontSpec
CHECK_DEADLOCK FALSE
INVARIANT DaemonTakesSettings
