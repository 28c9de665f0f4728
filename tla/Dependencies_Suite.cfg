SPECIFICATION FairSpec
CONSTANTS
  Packages = {"a", "b", "c", "d"}
  Suites = {"s"}
  Members <- MCMembers
  Worlds <- MCWorlds
  MaxRoots = 2
INVARIANTS
  TypeOK
  CyclesAreRefused
  ClosureInTraversalOrder
  OneIdentity
  SummariesAreInTheKey
PROPERTIES
  Ends
