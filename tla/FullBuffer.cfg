CONSTANTS
  Child = {c1, c2}
  Main = Main
  N = 2
  Wrap = 4
  Increments = 3
  BUFFER_LEN = 4
  Orders <- MCOrders
SPECIFICATION Spec
INVARIANTS
  ProducerFillsBuffer
