SPECIFICATION MCSpec
CONSTANTS
  s1 = s1
  r1 = r1
  r2 = r2
  n1 = n1
  Servers = {s1, s2}
  PlainKeys = {b, o}
  TtlKeys = {e}
  Values = {v}
  NoValue = NoValue
  MaxLog = 3
  MaxClock = 2
  MaxTtl = 0
  MetaCalls <- TwoCalls
  BucketKey = b
  ObjectKey = o
  RegistryHosts <- Hosts
  MatchedHosts <- AzureHosts
  Requests <- TwoCalls
  Submitted <- SomeWorkloads
  DirectSpecs <- SomeSpecs
  AddedPolicies <- SomePolicies
  MaxPolicyChanges = 1
  SecretNames = {n1, n2}
  Readers <- TwoCalls
  TokenIds = {1}
  TokenUses = 1
  MaxWrites = 2
  MaxMasterKeys = 2
  Fetches <- TwoCalls
  TokenLife = 3
  RefreshThreshold = 1
  MaxUpdates = 2
  MaxAgentClock = 4
  RegistryCalls <- TwoCalls
  ServiceNames = {"s", "t"}
  EndpointIds = {"e"}
  NetworkBits = 2
  MaxRegistrations = 3
  MaxEndpointCalls = 1
  MaxRegistryRestarts = 1
  LBRequests <- TwoCalls
  Clients = {"k"}
  EndpointOrder <- TwoEndpoints
  Weight <- Weights
  Region <- Regions
  Algorithms = {"WeightedRoundRobin", "LeastConnections", "LocalityAware"}
  SessionAffinity = TRUE
  MaxPicks = 3
SYMMETRY Symmetry
INVARIANTS
  
  AnswersAreCurrent
  SecretsReadable
  TokenReadsItsData
  StalenessBounded
  VirtualIPsDistinct
  
  
  ConnectionsCounted

  
CHECK_DEADLOCK FALSE
