SPECIFICATION HostSpec
CONSTANTS
  None = None
  BlockLen = 2
  GroupSize = 2
  Blocks <- MCBlocks
  ChunkSize = 4
  StreamFactor = 2
  MaxBlocks = 3
  GateRows = 2
  MetricRows = 1
  ProbeRows = 1
  Faulty <- MCFaulty
  Configs <- MCConfigs
  MaxModels = 5
  flash = flash
  NBlocks = 2
  DenseEvaluations = 1
  DenseLayers = 1
  Providers = {flash}
  Situations <- MCSituations
  MaxSteps = 5
INVARIANTS
  TypesOK
  PolicyMerged
  NeverRefused
  OwnerNamesInstallation
  ForecastSound
  ProofsScoped
  StreamedAsWhole
  KernelsQualified
  
PROPERTIES
  BranchesIsolated
