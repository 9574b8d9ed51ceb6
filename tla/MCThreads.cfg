SPECIFICATION ThreadsSpec
CONSTANTS
  None = None
  Threads = {t1, t2, t3}
  Requests = {r1, r2}
  Identities = {i1, i2}
  Keys = {k}
  MaxCalls = 3
  MaxChanges = 1
  Askers = {t1, t2}
  Providers = {p1, p2, p3}
  Addresses = {a1, a2}
  MaxQuestions = 4
  MaxFailures = 1
  CollectWhileLocked = TRUE
INVARIANTS
  TypesOK
  LaunchesVerified
  WorkShared
  GenerationsKept
  NoInheritedPlan
PROPERTIES
  CallsEnd
  DecidesAtOnce
  OnlyCollectionBlocks
\* A callback the collector runs inside the lock stops its thread for good.
CHECK_DEADLOCK FALSE
