SPECIFICATION Spec
CONSTANTS
  Values = {v1, v2, v3}
  MaxGeneration = 8
  MaxErrors = 2
  Garbage = Garbage
INVARIANTS TypeOK NewestIsSheltered
PROPERTIES ImplementsCheckpoint
\* Both copies may be lost, and then the store cannot be opened.
CHECK_DEADLOCK FALSE
