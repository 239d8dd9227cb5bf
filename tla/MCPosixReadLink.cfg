SPECIFICATION FairSpec
CONSTANTS
  f1 = f1
  Files <- MCFiles
  MaxDepth = 2
  Limit = 2
  MaxSize = 3
  MaxWrites = 1
  MaxMoves = 1
  CoarseClock = FALSE
  LinkErrno = "ENOTDIR"
INVARIANT LinkDenied
CHECK_DEADLOCK FALSE
