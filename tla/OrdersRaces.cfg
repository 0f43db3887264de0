SPECIFICATION Spec
CONSTANTS
  m1 = m1
  m2 = m2
  r1 = r1
  r2 = r2
  r3 = r3
  Members <- MCMembers
  Rows <- MCPairRows
  Orderer <- MCPairOrderer
  Nobody = Nobody
  NoRow = NoRow
  BookOwner = Nobody
  Calls = {c1, c2}
  MayCrash = TRUE
INVARIANTS
  TypeOK
  ChargedOnce
  PaidIsCharged
  RefundIsReal
  NoChargeWhileCollecting
PROPERTIES
  CollectingNeverReopens
  KeepsBilling
\* A group that is ordered and whose orders are settled takes no more requests.
CHECK_DEADLOCK FALSE
