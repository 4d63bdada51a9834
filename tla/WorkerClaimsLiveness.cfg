SPECIFICATION FairSpec
CHECK_DEADLOCK FALSE
CONSTANTS
  e3 = e3
  r1 = r1
  r2 = r2
  p2 = p2
  t3 = t3
  ParallelRuns = {}
  Executions = {e1, e3}
  Runs = {r1, r2}
  RunOf <- MCRunOf
  RevisionOf <- MCRevisionOf
  ActualConcurrency <- MCActualConcurrency
  ConfiguredMax <- MCSharedSlot
  DelayedRuns = {r1}
  Preflight = {e3}
  Legacy = {}
  Processes = {p1, p2}
  Threads = {t1, t3}
  ProcessOf <- MCProcessOf
  NoExecution = NoExecution
  NoProcess = NoProcess
  MaxStops = 2
  MaxLateHeartbeats = 1
INVARIANTS
  CapacityWhileTimely
PROPERTIES
  AllRunsFinish
