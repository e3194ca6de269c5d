SPECIFICATION FairSpec
CONSTANTS
  Nodes = {n1}
  Tokens = {t1}
  NodesOf <- MCNodesOf
  MaxUses = 2
  HeartbeatTimeout = 1
  CheckInterval = 1
  OfflineExpiry = 3
  MaxAssignments = 0
  MaxRestarts = 1
  NoEnrolment = NoEnrolment
INVARIANTS
  EnrolmentsWithinLimit
  EnrolmentTargetIdle
  
  

  
