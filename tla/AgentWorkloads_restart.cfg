SPECIFICATION FairSpec
CONSTANTS
  Containers = {c1}
  Workers = {w1, w2}
  Assignments = {"run", "update", "kill"}
  ProbeTypes = {"liveness"}
  FailureThreshold = 1
  MaxRestarts = 1
  RestartWindow = 1
  MaxClock = 2
  NoContainer = NoContainer
INVARIANTS
  RestartRate
PROPERTIES
  RestartRetried
