SPECIFICATION TargetSpec
CHECK_DEADLOCK FALSE
SYMMETRY MCSymmetry
CONSTANTS
  e1 = e1
  e2 = e2
  r1 = r1
  p2 = p2
  t2 = t2
  Executions = {e1, e2, e3}
  Runs = {r1}
  RunOf <- MCRunOf
  RevisionOf <- MCRevisionOf
  ActualConcurrency <- MCOne
  ConfiguredMax <- MCTwo
  Ordinal <- MCOrdinal
  DelayedRuns = {r1}
  Preflight = {}
  Legacy = {}
  Processes = {p1, p2}
  Threads = {t1, t2}
  ProcessOf <- MCProcessOf
  NoExecution = NoExecution
  NoProcess = NoProcess
  MaxStops = 1
  MaxLateHeartbeats = 1
INVARIANTS
  ConversationTypeOK
  DoubtEndsConversation
  AttemptEndsWithoutCrash
  ContextComplete
PROPERTIES
  TurnsSentInOrder
  OneSessionPerAttempt
  ContinuityIsTrue
  ImplementsConversation
