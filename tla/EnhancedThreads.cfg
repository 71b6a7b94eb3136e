CONSTANTS
  NULL = NULL
  Ready = Ready
  Thread = {t1, t2, t3, t4}
  Parent = {p1, p2}
  Item <- MCItem
  Semaphore = {s}
  InputValue <- MCInputValue
  MaxCount = 2
  MainBlocks = FALSE
  MinReady = 2
SYMMETRY MCSymmetry
SPECIFICATION Spec
INVARIANTS
  CountsLiveThreads
  EveryoneAccounted
PROPERTIES
  CleanupRunsNext
\* A program ends when main() returns, and dies when everybody is blocked.
CHECK_DEADLOCK FALSE
