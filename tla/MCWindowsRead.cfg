SPECIFICATION Spec
CONSTANTS
  f1 = f1
  Files <- MCFiles
  MaxDepth = 2
  Limit = 1
  MaxSize = 2
  MaxWrites = 1
  MaxMoves = 2
  Hosts <- MCHosts
INVARIANTS
  TypeOK
  NothingLeaked
PROPERTIES
  ReadOnPath
  ImplementsSnapshotRead
CHECK_DEADLOCK FALSE
