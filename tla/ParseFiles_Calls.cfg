\* One thread, or three wanted and lanes cut for two, and an arena the files may
\* or may not fit in.
CONSTANTS
  InitialCapacity = 2
  MaxCapacity = 1000
  Align = 1
  EntryBytes = 2
  LabelBytes = 2
  TextBytes = 1
  FixBytes = 1
  MaxMessageBytes = 9
  Hash <- One
  NFiles = 3
  Calls <- BothCalls
  Capacity = 24
  WorkerRoom = 200
  RunRoom = 400
SPECIFICATION FairSpec
INVARIANTS TypeOK ReportsWholeFilesInOrder OkMeansWholeTrees RefusalIsOfTheInput
PROPERTIES Ends
