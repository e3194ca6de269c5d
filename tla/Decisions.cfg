SPECIFICATION MCSpec
CONSTANTS
  MaxReplicas = 4
  Strategies <- AllStrategies
  ScoredNodes <- NodesToScore
  ScoredWorkloads <- WorkloadsToScore
  WeightConfigs <- WeightsToUse
  n1 = n1
  n2 = n2
  n3 = n3
  n4 = n4
  w1 = w1
  w2 = w2
  w3 = w3
  SchedNodes = {n1, n2, n3}
  NodeInfo <- ThreeNodes
  WorkloadNames = {w1, w2, w3}
  WorkloadSpecOf <- ThreeWorkloads
  PackStrategies <- PackingsToUse
  MaxPlaced = 3
  StorageNodes = {n1, n2, n3, n4}
  Zone <- ThreeZones
  NodeIOPS <- ThreeClasses
  Capacity = 2
  MaxReplicaCount = 3
  MaxDown = 1
  MaxChunkIds = 3
  MaxLeaves = 4
INVARIANTS
  OldReplaced
  SpareReplicasSuffice
  
  Fits
  StorageSpreads
  

  
CHECK_DEADLOCK FALSE
