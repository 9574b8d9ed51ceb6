CONSTANTS
  Warps = {w0, w1, w2}
  Producer = w0
  Tokens = 9
  BlockLen = 2
  GroupSize = 2
  None = None
  Mma = Mma
  Tma = Tma
  Junk = Junk
  Stages = 2
  w0 = w0
  w1 = w1
  w2 = w2
  Tiles <- MCTiles
  Calls <- MCCalls
SPECIFICATION Spec
INVARIANTS TypeOK RacesOnlyWithOutput SummariesPrepared
PROPERTIES TilesHandedOver KeepsPromise Finishes
CHECK_DEADLOCK FALSE
