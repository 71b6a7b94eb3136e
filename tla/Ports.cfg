CONSTANTS
  Main = Main
  NULL = NULL
  NoMsg = NoMsg
  Thread = {t1, t2, t3}
  Port = {p1}
  N = 2
  Msg = {m1, m2}
  Semaphore <- MCSemaphore
  InputValue <- MCInputValue
SPECIFICATION FairSpec
INVARIANTS
  RingHoldsChannel
  BufferHoldsChannel
  TokensAccounted
PROPERTIES
  ImplementsChannels
  UsesKernel
  BlockedGetOn
\* The process really stops when every thread is blocked.
CHECK_DEADLOCK FALSE
