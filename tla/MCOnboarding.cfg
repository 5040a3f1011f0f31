CONSTANTS
  m1 = m1
  m2 = m2
  n1 = n1
  n2 = n2
  t1 = t1
  t2 = t2
  Tables <- BothTables
  NoRows <- EmptyTables
  Drivers = {"localjson", "sqlite"}
  Tokens = {t1, t2}
  Reusable = {}
  NodeIds = {n1, n2}
  Scope <- AnyNode
  Builds = {"b1", "b2"}
  Signed = {"b1"}
  PlaneChecks = FALSE
  Machines = {m1}
  IdOf <- OwnNode
  NodesCheck = TRUE
  MaxFaults <- FaultsOf
  MaxRuns = 2

SYMMETRY EitherToken

SPECIFICATION Spec

INVARIANTS
  TypeOK
  TokenEnrollsOnce
  MemoryIsWritten
  CodeIsPublished

PROPERTIES
  LedgerSpec

CHECK_DEADLOCK FALSE
