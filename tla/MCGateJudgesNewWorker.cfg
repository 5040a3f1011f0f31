CONSTANTS
  Procs = {p1, p2, p3}
  Versions = {v0, v1}
  Initial = v0
  MaxJobs = 0
  MaxCrashes = 1
  MaxUpdates = 1
  MaxRestarts = 0

SPECIFICATION Spec

INVARIANT GateJudgesNewWorker
