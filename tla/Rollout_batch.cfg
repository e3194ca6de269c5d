SPECIFICATION RolloutSpec
CONSTANTS
  MaxReplicas = 3
  Strategies = {"RollingUpdate"}
PROPERTY NeverBelowMinAvailable
CHECK_DEADLOCK FALSE
