SPECIFICATION Spec
CONSTANTS
  TimeAnchorCount = 3
  SegmentCount = 2
  MaxTime = 3
  Measured = {0, 2}
  Faults = {"anchor"}
  MaxErrors = 1
  MaxSequence = 5
  MaxBoot = 3
  MaxGeneration = 4
  Garbage = Garbage
INVARIANTS TypeOK SequencesNotReused EpochsTile RefusedOnlyWhenFull
PROPERTIES RetainedAnchorsKept ClocksStable
\* The bounds on boots, generations and sequences are reached.
CHECK_DEADLOCK FALSE
