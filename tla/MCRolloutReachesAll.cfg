CONSTANTS
  n1 = n1
  n2 = n2
  Nodes <- TwoNodes
  Current <- SomeCurrent
  Desired = {"agent", "control-plane-agent"}
  Canary = 1
  MaxInFlight = 1
  UpdatesFail = FALSE
  MaxFaults = 0
  MaxOps = 0
  Window = 1

SPECIFICATION FairSpec

PROPERTIES
  RolloutReachesAll
