SPECIFICATION Spec
CONSTANTS
  SegmentCount = 2
  Capacity = 3
  WriteBufferSize = 2
  EntrySizes = {1, 2}
  BootEntrySize = 1
  IndexStride = 2
  SequenceMask = 3
  BootMask = 2
  MaxGeneration = 4
  Faults = {"io"}
  MaxFaults = 1
  Garbage = Garbage
INVARIANTS AckedDurable
