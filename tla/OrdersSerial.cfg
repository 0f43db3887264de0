SPECIFICATION FairSpec
CONSTANTS
  m1 = m1
  m2 = m2
  r1 = r1
  r2 = r2
  r3 = r3
  Members <- MCMembers
  Rows <- MCRows
  Orderer <- MCOrderer
  Nobody = Nobody
  NoRow = NoRow
  BookOwner = Nobody
  Calls = {c1}
  MayCrash = TRUE
INVARIANTS
  OpenRowsUnbilled
  OneRowPerMember
PROPERTIES
  OrderedIsFinal
  RequestsReturn
\* A group that is ordered and whose orders are settled takes no more requests.
CHECK_DEADLOCK FALSE
