CONSTANTS
  WordBytes = 2
  DataWords <- SomeWords
  Leftovers <- Cleared
  MaxDisks = 3
SPECIFICATION WordSpec
CHECK_DEADLOCK FALSE
INVARIANT CardGeneratesSyndrome
