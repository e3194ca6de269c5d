SPECIFICATION MCSpec
CONSTANTS
  Threads = {h1, h2}
  Edits = {e1, e2}
  MaxDesired = 1
  MaxObjects = 3
  MaxFragments = 1
  MaxRestarts = 1
  NoContent = NoContent
SYMMETRY Symmetry
INVARIANTS
  CacheCoherent
PROPERTIES
  EditsKept
CHECK_DEADLOCK FALSE
