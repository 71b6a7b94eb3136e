CONSTANTS
  Reader = {r1, r2}
  Writer = {w1, w2}
SPECIFICATION FairSpec
INVARIANTS
  Exclusion
  OneBaton
  CountersExact
  NobodyForgotten
PROPERTIES
  NobodyStarves
