SPECIFICATION AgentFairSpec
CONSTANTS
  Nodes = {n1}
  Tokens = {t1}
  NodesOf <- MCNodesOf
  MaxUses = 1
  HeartbeatTimeout = 1
  CheckInterval = 1
  OfflineExpiry = 3
  MaxAssignments = 0
  MaxRestarts = 0
  NoEnrolment = NoEnrolment
PROPERTIES
  DrainCommandSent
