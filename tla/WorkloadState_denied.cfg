SPECIFICATION Spec
CONSTANTS
  Threads = {h1}
  Edits = {e1}
  MaxDesired = 1
  MaxObjects = 1
  MaxFragments = 0
  MaxRestarts = 0
  NoContent = NoContent
INVARIANTS
  DeniedNeverStored
CHECK_DEADLOCK FALSE
