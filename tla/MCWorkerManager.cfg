CONSTANTS
  Procs = {p1, p2, p3, p4}
  Versions = {v0, v1}
  Initial = v0
  MaxJobs = 1
  MaxCrashes = 1
  MaxUpdates = 1
  MaxRestarts = 1

SPECIFICATION Spec

INVARIANTS
  TypeOK
  ReadyIsHeld
  OutageIsPassing
  LinkIsInstalled

PROPERTIES
  UpdateSpec
  WorkerComesBack
