CONSTANTS
  BlockSize = 2
  MaxIntervalWidth = 4
  None = None
  Unavailable = Unavailable
  Nothing = 0
  Junk = Junk
  Streams = {s0, s1}
  s0 = s0
  s1 = s1
  Blocks = {1, 2, 3}
  Pairs = {p0, p1}
  p0 = p0
  p1 = p1
  DenseEvaluations = 1
  MaxBias <- MCMaxBias
  MaxMapped <- MCMaxMapped
  MaxPlans = 1
  MaxWeighted = 1
  MaxEvaluations = 2
  Lengths <- MCLengths
  MaxDepth = 3
  Calls <- MCCalls
SPECIFICATION Spec
INVARIANTS ActiveScratchKept
CHECK_DEADLOCK FALSE
SYMMETRY MCSymmetry
