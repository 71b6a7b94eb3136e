CONSTANTS
  mutex = mutex
  signal = signal
  Main = Main
  NULL = NULL
  Thread = {t1, t2, t3, t4, t5}
  Semaphore = {mutex, signal}
  InputValue <- MCInputValue
  MaxCount = 3
SPECIFICATION FairSpec
INVARIANTS
  TypeOK
  OnePlace
  CountMatchesWaiters
PROPERTIES
  DiesOnlyWhenAllBlocked
  ReadyInOrder
  ImplementsSemaphores
  ReadyRuns
\* The process really stops when every thread is blocked.
CHECK_DEADLOCK FALSE
