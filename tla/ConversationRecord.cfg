SPECIFICATION ConversationSpec
CHECK_DEADLOCK FALSE
CONSTANTS
  e1 = e1
  e2 = e2
  r1 = r1
  p2 = p2
  t2 = t2
  Executions = {e1, e2}
  Runs = {r1}
  RunOf <- MCRunOf
  RevisionOf <- MCRevisionOf
  ActualConcurrency <- MCOne
  ConfiguredMax <- MCTwo
  Ordinal <- MCOrdinal
  DelayedRuns = {}
  Preflight = {}
  Legacy = {}
  Processes = {p1, p2}
  Threads = {t1}
  ProcessOf <- MCProcessOf
  NoExecution = NoExecution
  NoProcess = NoProcess
  MaxStops = 0
  MaxLateHeartbeats = 0
INVARIANTS
  BrokenContinuityRecorded
