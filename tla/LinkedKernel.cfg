CONSTANTS
  mutex = mutex
  signal = signal
  Main = Main
  NULL = NULL
  Ready = Ready
  Item = {t1, t2, t3, t4, t5}
  Semaphore = {mutex, signal}
  InputValue <- MCInputValue
  MaxCount = 2
SYMMETRY MCSymmetry
SPECIFICATION Spec
INVARIANTS
  Rings
PROPERTIES
  ImplementsKernel
\* The process really stops when every thread is blocked.
CHECK_DEADLOCK FALSE
