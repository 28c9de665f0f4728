\* Arenas that hold everything and arenas that run out are both reached: the
\* worker's holds about four entries, the run's a little more than that.
CONSTANTS
  InitialCapacity = 2
  MaxCapacity = 1000
  Align = 2
  EntryBytes = 2
  LabelBytes = 2
  TextBytes = 1
  FixBytes = 1
  MaxMessageBytes = 3
  Hash <- OneSlot
  Reports <- ThreeReports
  Checks = {"lint"}
  RunRoom = 110
  UnitRoom = 24
  MaxSteps = 7
SPECIFICATION Spec
INVARIANTS CountsAgree ArenasHold ErrorsFailTheRun
PROPERTIES MergeAppends DedupKeepsFirsts
