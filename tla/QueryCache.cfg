SPECIFICATION CacheSpec
CONSTANTS
  Requests = {c1, c2}
  MaxVersion = 4
INVARIANTS FreshWhenQuiet
