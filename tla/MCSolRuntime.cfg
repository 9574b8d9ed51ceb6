SPECIFICATION Spec
CONSTANTS
  r1 = r1
  r2 = r2
  p = p
  Requests <- MCRequests
  None = None
  NBlocks = 2
  DenseEvaluations = 1
  DenseLayers = 1
  Leaves = {p}
  Domains = {"d"}
  Options <- MCOptions
  Inputs <- MCInputs
  MaxForwards <- MCMaxForwards
  MaxReceipts <- MCMaxReceipts
INVARIANTS
  TypeOK
  ScopesNest
  EvaluationCharged
  SparseOnlyPastWarmup
  ReceiptTruthful
  PreprocessedOnce
  WeightedKeepsMeasure
  GateFailureIsFatal
PROPERTIES
  RequestIsolation
  FailuresStay
CHECK_DEADLOCK FALSE
