SPECIFICATION DeliverySpec
CONSTANTS
  Nodes = {n1}
  Tokens = {t1}
  NodesOf <- MCNodesOf
  MaxUses = 2
  HeartbeatTimeout = 0
  CheckInterval = 1
  OfflineExpiry = 2
  MaxAssignments = 3
  MaxRestarts = 1
  NoEnrolment = NoEnrolment
INVARIANTS
  OrderedDelivery
