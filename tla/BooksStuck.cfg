SPECIFICATION FairSpec
CONSTANTS
  Pages = {g1, g2}
  Uids = {u1, u2}
  NoUid = NoUid
  PageMin = 1
  PageMax = 3
  PageIncrement = 2
  Calls = {c1}
  Personal = TRUE
  Attempts = 2
  MayCrash = FALSE
PROPERTIES
  FinalizeSettles
\* A deleted book takes no more requests.
CHECK_DEADLOCK FALSE
