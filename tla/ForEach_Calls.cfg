\* Two threads, slices of two indices, a ragged last slice; then one job.
CONSTANTS
  Begin = 0
  End = 17
  Jobs = 2
  Begin1 = 3
  End1 = 9
SPECIFICATION MCSpec
INVARIANTS TypeOK EachUnitOnce WorkerPrivate
PROPERTIES ImplementsUnitPool BothReturn
