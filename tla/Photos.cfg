SPECIFICATION FairSpec
CONSTANTS
  Photos = {f1, f2}
  Calls = {c1, c2}
  MayCrash = TRUE
INVARIANTS
  TypeOK
  KeptPhotoHasFiles
  FacesOfPhotosThere
  FacesOnce
PROPERTY
  QueueDrains
\* When every photo has come and gone there is nothing left to do.
CHECK_DEADLOCK FALSE
