SPECIFICATION FairSpec
CONSTANTS
  Path <- MCPath
  Watched = "shipping.delivered"
  Hooks = {h1}
  MayCrash = TRUE
INVARIANTS
  HandledOnce
  ShownWasTrue
PROPERTIES
  DeliveredIsShown
\* An order that has reached its end is left alone.
CHECK_DEADLOCK FALSE
