SPECIFICATION Spec
CONSTANTS
  m1 = m1
  m2 = m2
  r1 = r1
  r2 = r2
  r3 = r3
  Members <- MCMembers
  Rows <- MCPairRows
  Orderer <- MCPairOrderer
  Nobody = Nobody
  NoRow = NoRow
  BookOwner = Nobody
  Calls = {c1}
  MayCrash = FALSE
INVARIANTS
  OrderedHasNoFailure
\* A group that is ordered and whose orders are settled takes no more requests.
CHECK_DEADLOCK FALSE
