SPECIFICATION Spec
CONSTANTS
  u1 = u1
  u2 = u2
  c1 = c1
  c2 = c2
  Users = {u1, u2}
  NoUser = NoUser
  MaxRows = 3
  Calls = {c1, c2}
  MayCrash = TRUE
  Cands = {k1}
SYMMETRY Symmetry
INVARIANTS
  TypeOK
  OneOwner
  RoleWasGiven
  ConfirmedByOwner
  VotesCount
PROPERTY
  DeletedForGood
\* A dissolved group takes no more requests.
CHECK_DEADLOCK FALSE
