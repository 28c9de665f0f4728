\* Ample arenas: the only thing that can go wrong is where a repair lands.
CONSTANTS
  InitialCapacity = 2
  MaxCapacity = 1000
  Align = 2
  EntryBytes = 2
  LabelBytes = 2
  TextBytes = 1
  FixBytes = 1
  MaxMessageBytes = 3
  Hash <- OneSlot
  Reports <- ThreeReports
  Checks = {"lint"}
  RunRoom = 110
  UnitRoom = 24
  MaxSteps = 5
SPECIFICATION Spec
PROPERTIES MergeCopiesRepairs
