SPECIFICATION Spec
CHECK_DEADLOCK FALSE
CONSTANTS
  e3 = e3
  r1 = r1
  r2 = r2
  p2 = p2
  t3 = t3
  ParallelRuns = {r1}
  Executions = {e1, e2, e3}
  Runs = {r1, r2}
  RunOf <- MCRunOf
  RevisionOf <- MCRevisionOf
  ActualConcurrency <- MCActualConcurrency
  ConfiguredMax <- MCConfiguredMax
  DelayedRuns = {r1}
  Preflight = {}
  Legacy = {e3}
  Processes = {p1, p2}
  Threads = {t1, t2}
  ProcessOf <- MCProcessOf
  NoExecution = NoExecution
  NoProcess = NoProcess
  MaxStops = 1
  MaxLateHeartbeats = 1
INVARIANTS
  TypeOK
  ClaimStateConstraint
  AtMostOneRequest
  SubmissionInv
  FencingTokens
  SingleOwner
  RunAggregation
PROPERTIES
  ObservationsImmutable
  SnapshotFirstWriteWins
  ImplementsLedger
