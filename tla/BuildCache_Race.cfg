\* Two processes, three builds, one failure, files of two chunks.
CONSTANTS
  Procs = {p1, p2}
  Plans <- RacingBuilds
  Edits <- OneEdit
  Noisy <- Warned
  Broken <- Failed
  Borrowing = FALSE
  Chunks = 2
  MaxBuilds = 3
  MaxCrashes = 1
SYMMETRY Symmetry
SPECIFICATION Spec
CHECK_DEADLOCK FALSE
INVARIANTS TypeOK LoweredIsFresh HitHidesNothing
