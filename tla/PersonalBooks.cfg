SPECIFICATION Spec
CONSTANTS
  Members = {m1}
  Photos = {f1, f2}
  Likeness <- FaintLikeness
  MinPages = 1
  MaxLevel = 1
  PerLevel = 2
  MaxRows = 2
  MaxUids = 2
  NoMember = NoMember
  Calls = {c1, c2}
  MayCrash = TRUE
SYMMETRY CallSymmetry
 
PROPERTIES NewBookIsLive FinalizedIsKept ThresholdRises
\* The rows, books and photos of an instance run out.
CHECK_DEADLOCK FALSE
