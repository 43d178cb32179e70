SPECIFICATION Spec
CONSTANTS
  SegmentCount = 2
  Capacity = 4
  WriteBufferSize = 2
  EntrySizes = {1, 3}
  BootEntrySize = 1
  IndexStride = 2
  SequenceMask = 3
  BootMask = 2
  MaxGeneration = 5
  Faults = {"index"}
  MaxFaults = 1
  Garbage = Garbage
INVARIANTS TypeOK AckedDurable GenerationsOrdered IdsNeverReissued SnapshotReadable DataFits
PROPERTIES RetiredBeforeReuse
