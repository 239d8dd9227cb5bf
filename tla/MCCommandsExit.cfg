SPECIFICATION FairSpec
CONSTANT MaxFindings = 2
INVARIANT ExitDocumented
CHECK_DEADLOCK FALSE
