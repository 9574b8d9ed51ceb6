\* One thread and two providers: the collector may run the callback of one while
\* the thread registers the other, and so holds the lock.
SPECIFICATION Spec
CONSTANTS
  None = None
  Threads = {t1}
  Providers = {p1, p2}
  Addresses = {a1, a2}
  MaxCalls = 2
  MaxFailures = 0
  CollectWhileLocked = TRUE
PROPERTIES
  GenerationGiven
CHECK_DEADLOCK FALSE
