SPECIFICATION MCSpec
CONSTANTS
  Goroutines = {g1, g2, g3}
  Calls <- AllCalls
  NoThread = NoThread
  n1 = n1
  n2 = n2
  r2 = r2
  MonitorNodes = {n1, n2}
  ReplicaIds = {r1, r2}
  DesiredReplicas = 2
  MinReady = 1
  MaxRuns = 1
  ReplicaNodes = {n1, n2}
  Workers = {w1}
  ReplicationFactor = 2
  QuorumWrites = TRUE
  QueueCap = 1
  MaxReplicaRecords = 6
  MaxFaults = 1
  MaxReads = 1
  Updates = {u1}
  Rebalancers = {g1, g2}
  RebalanceLoop = g1
  NodeRecords = {r1, r2, r3}
INVARIANTS
  OnlyTwoDeadlocks
  
  OneRebalancing
PROPERTIES
  CallsReturn
  FailureAnswered
  RepairConverges
  StopReturns
  HealthFollowsStats
CHECK_DEADLOCK FALSE
