SPECIFICATION Spec
CONSTANTS
  MaxEvents = 205
  MaxDepth = 4
  Respelt <- MCRespelt
  Roles <- MCRoles
  Profiles <- MCProfiles
  LiveProfile <- MCLiveProfile
  ConnectorIds <- MCConnectorIds
  CredentialRefs <- MCCredentialRefs
  DeniedKeys <- MCDeniedKeys
  RecursionLimit = 7
  Prose <- MCProse
  Secrets <- MCSecrets
  Unscannable <- MCUnscannable
  ConsoleDenied <- MCDeniedKeys
  LegacySecretKeys <- MCLegacySecretKeys
  Reference <- MCReference
  Source <- MCSource
  Edits <- MCEdits
  MaxEdits = 3
INVARIANTS
  TypeOK
  EligibilityOnlyBlocks
  RoutingPinned
  RequiredRolesStay
  PrintedConfigAccepted
  ImportsFixed
CHECK_DEADLOCK FALSE
