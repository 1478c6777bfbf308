CONSTANTS
  Builds = {4, 5}
  Arguments <- Words
  LastDisks = 6
  Rounds = 2
  HZ = 2
  JiffyWrap = 8
  MaxTicks = 3
  Tests = 2
  Runs = 2
  Processes = 3
  BlockBytes = 7
SPECIFICATION FairSpec
CHECK_DEADLOCK FALSE
INVARIANTS BenchmarkIsDriver ValidatorSeparates StopsQuiescent TimerIsElapsed PingSeen BlocksFinal
PROPERTIES TestEnds PingsEnd
