CONSTANTS
  Child = {c1, c2, c3, c4}
  Main = Main
  N = 2
  Wrap = 4
  Increments = 3
  BUFFER_LEN = 4
  Orders <- MCOrders
SPECIFICATION FairSpec
INVARIANTS
  NobodyPassesEarly
  BufferExact
  DamageBounded
  FinalValue
PROPERTIES
  EveryonePasses
  ItemsInOrder
  ItemsFlow
  OncePerRound
