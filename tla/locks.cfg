SPECIFICATION FairSpec
CONSTANTS
  Tasks = {t1, t2, t3}
  Free = Free
  SegmentCount = 2
  Capacity = 1
  MaxGeneration = 4
  MaxCalls = 4
INVARIANTS TypeOK NoUseAfterClose ChangesExclusive ReadersPinned ReadersLetAppendsIn IdleHoldsNothing
PROPERTIES CallsReturn
\* The calls of a run are bounded, and when all have returned nothing is left to do.
CHECK_DEADLOCK FALSE
