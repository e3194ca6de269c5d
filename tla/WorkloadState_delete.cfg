SPECIFICATION Spec
CONSTANTS
  Threads = {h1}
  Edits = {e1}
  MaxDesired = 1
  MaxObjects = 1
  MaxFragments = 1
  MaxRestarts = 0
  NoContent = NoContent
INVARIANTS
  DeleteStopsReplicas
CHECK_DEADLOCK FALSE
