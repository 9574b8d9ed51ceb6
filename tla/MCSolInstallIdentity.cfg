SPECIFICATION InstallSpec
CONSTANTS
  None = None
  Configs <- MCConfigs
  MaxModels = 4
INVARIANT IdentityKnown
CHECK_DEADLOCK FALSE
