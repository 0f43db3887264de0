SPECIFICATION FairSpec
CONSTANTS
  Browsers = {b1, b2}
  NoBrowser = NoBrowser
  Requests = {q1, q2}
  AccessLife = 1
  MaxTime = 3
  Lossy = TRUE
INVARIANT SessionHolds
PROPERTIES SignedOutStays RequestsEnd
