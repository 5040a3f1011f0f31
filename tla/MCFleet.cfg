CONSTANTS
  n1 = n1
  n2 = n2
  Nodes <- TwoNodes
  Current <- SomeCurrent
  Desired = {"agent", "control-plane-agent"}
  Canary = 1
  MaxInFlight = 1
  UpdatesFail = TRUE
  MaxFaults = 1
  MaxOps = 0
  Window = 1

SPECIFICATION Spec

INVARIANTS
  TypeOK
  RolloutIsBounded

PROPERTIES
  LeaseSpec
