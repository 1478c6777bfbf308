CONSTANTS
  DataBytes = {0, 1, 2, 142}
  HighDisks = {1, 2}
  LogBeyond = {0}
SPECIFICATION RsSpec
CHECK_DEADLOCK FALSE
INVARIANT CheckBytesExact
