SPECIFICATION Spec
CONSTANTS
  MaxTime = 4
  SegmentCount = 2
  Capacity = 3
  IndexStride = 2
  WriteBufferSize = 2
  SequenceMask = 4
  BootMask = 2
  Ticks = {1, 2}
  Catalogs <- MCCatalogs
  Requests <- MCRequests
  MaxGeneration = 3
INVARIANTS TypeOK NothingSkipped
PROPERTIES ReadMatchesScan
