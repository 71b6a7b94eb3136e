CONSTANTS
  Reader = {r1, r2}
  Writer = {w1, w2}
SPECIFICATION Spec
INVARIANTS
  Exclusion
