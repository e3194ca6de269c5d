SPECIFICATION MCSpec
CONSTANTS
  Containers = {c1, c2}
  Workers = {w1}
  Assignments = {"run", "stop"}
  ProbeTypes = {"readiness"}
  FailureThreshold = 1
  MaxRestarts = 1
  RestartWindow = 1
  MaxClock = 0
  NoContainer = NoContainer
  ChunkCalls = {t1, t2, t3}
  Chunks = {d1}
  Compressible = {d1}
  MaxChunkRecords = 3
  MaxHolders = 3
  MaxChunkRestarts = 1
  c1 = c1
  b1 = b1
  b2 = b2
  StoreCalls = {t1, t2}
  Keys = {k1}
  UploadKey = k1
  Contents <- SmallContents
  PartNumbers = {1}
  Quota = 2
  DataShards = 1
  ParityShards = 1
  MaxStored = 2
  MaxCopies = 4
  VolumeCalls = {t1, t2, t3}
  VolumeOwners = {w1}
  IdsReused = FALSE
  MaxVolumes = 2
  MaxVolumeLocks = 5
  MaxVolumeRestarts = 1
SYMMETRY Symmetry
INVARIANTS
  ReadinessReported
  ChunksAccounted
  
  
  
CHECK_DEADLOCK FALSE
