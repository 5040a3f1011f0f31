CONSTANTS
  d1 = d1
  g1 = g1
  Nodes = {d1, g1}
  Runs = {r1}
  Urls = {u1, u2}
  TypeOf <- MCTypeOf
  Policy <- MCPolicy

SPECIFICATION Spec

INVARIANTS
  TypeOK
  CompletionGate
  BrowserValidationGate
  JobSentOnce
  VerdictMatchesEvidence
  PacketIsFinalEvidence
  HealthyIsEarned
  VerdictHasQuorum
  CompletedRunIsSettled
  BlameHasEvidence

PROPERTIES
  RunCompletesWithLastUrl
  FlowSpec
  AnsweredUrlsSettle
