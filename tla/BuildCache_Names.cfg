\* A run stores the binary's entry; the build after it hits and then compiles the library.
CONSTANTS
  Procs = {p1}
  Plans <- BuildAndRun
  Edits <- NoEdit
  Noisy = {}
  Broken = {}
  Borrowing = TRUE
  Chunks = 1
  MaxBuilds = 2
  MaxCrashes = 0
SPECIFICATION Spec
CHECK_DEADLOCK FALSE
INVARIANTS NamesOutliveTheTree
