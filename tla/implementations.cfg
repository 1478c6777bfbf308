CONSTANTS
  WordBytes = 2
  DataWords <- SomeWords
  Leftovers <- SomeWords
  MaxDisks = 3
  DataBytes <- Bytes
  HighDisks = {1, 3}
  LogBeyond = {0, 175}
  DMA_BLOCKSIZE = 4
  THREAD_BLOCKSIZE = 2
  Sizes = {0, 1, 2, 3, 4, 5, 7, 8, 9, 11, 12, 14, 16, 18, 20, 21}
  MaxCalls = 2
  Loaders = 3
  Threads = 4
  WarpSize = 2
  HighDisk = 1
  NSIZE = 4
  StripeSizes = {0, 2, 8, 12, 16}
  CpuCounts = {1, 2, 3}
  CreateFails = TRUE
SPECIFICATION Spec
CHECK_DEADLOCK FALSE
INVARIANTS ParityIsReference TwoErasures RowsExact ParityPlaced CopiesInside KernelSums SmpTypeOK ReturnCovers StoresBounded StoresInside
PROPERTY CallEnds
