\* A small request is admitted, and a large one admitted before it is taken first and fills the arena.
CONSTANTS
  Capacity = 40
  Jobs = 2
  Requests <- TwoSizes
SPECIFICATION Spec
INVARIANTS NeverTraps
