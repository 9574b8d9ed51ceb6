SPECIFICATION InstallSpec
CONSTANTS
  None = None
  Configs <- MCConfigs
  MaxModels = 4
INVARIANT CallbacksDropped
CHECK_DEADLOCK FALSE
