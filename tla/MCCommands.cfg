SPECIFICATION FairSpec
CONSTANT MaxFindings = 2
INVARIANTS
  TypeOK
  GatedReading
  FirstFailureDecides
  ExitMatchesFindings
  AcceptedOnlyComplete
  VerdictDelivered
PROPERTY
  Exits
CHECK_DEADLOCK FALSE
