SPECIFICATION Spec
CONSTANTS
  Packages <- MCPackages
  Platforms <- MCPlatforms
  Approved <- MCApproved
  Stray = {"PyYAML_other"}
  MaxRuns = 2
INVARIANTS
  TypeOK
  AuditIsTrue
  NoReuse
PROPERTIES
  AuditedFrozen
