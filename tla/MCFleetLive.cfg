CONSTANTS
  n1 = n1
  n2 = n2
  Nodes <- OneNode
  Current <- SomeCurrent
  Desired = {"agent"}
  Canary = 1
  MaxInFlight = 1
  UpdatesFail = FALSE
  MaxFaults = 1
  MaxOps = 2
  Window = 1

SPECIFICATION FairSpec

PROPERTIES
  FleetSettles
