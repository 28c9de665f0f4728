\* Three parsers over lanes of six nodes each and a pool of seven, with a byte to spare.
CONSTANTS
  Capacity = 51
  NodeSize = 2
  Jobs = 3
SPECIFICATION Spec
INVARIANTS TypeOK NeverOverruns IndicesDistinct WalkIsExact RefusedOnlyWhenFilled
