SPECIFICATION Spec
CONSTANTS
  MaxPages = 3
  PageMin = 2
  Covers = {k1, k2}
  NoCover = NoCover
  Calls = {c1, c2}
  MaxActs = 5
SYMMETRY Symmetry
INVARIANTS NumbersDistinct CoverAsChosen
CHECK_DEADLOCK FALSE
