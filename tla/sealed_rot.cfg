SPECIFICATION Spec
CONSTANTS
  SegmentCount = 2
  Capacity = 2
  WriteBufferSize = 2
  EntrySizes = {1}
  BootEntrySize = 1
  IndexStride = 2
  SequenceMask = 3
  BootMask = 2
  MaxGeneration = 4
  Faults = {"index", "data"}
  MaxFaults = 2
  Garbage = Garbage
INVARIANTS SealedNotTruncated
