SPECIFICATION Spec
CONSTANTS
  c1 = c1
  c2 = c2
  u1 = u1
  u2 = u2
  Pages = {g1}
  Uids = {u1, u2}
  NoUid = NoUid
  PageMin = 2
  PageMax = 2
  PageIncrement = 2
  Calls = {c1, c2}
  Personal = FALSE
  Attempts = 2
  MayCrash = TRUE
SYMMETRY Symmetry
INVARIANTS
  TypeOK
  PrintedOnce
  ReadyWasFinalized
  TargetFits
  BilledBookIsReady
\* A deleted book takes no more requests.
CHECK_DEADLOCK FALSE
