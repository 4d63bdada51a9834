SPECIFICATION FairSpec
CHECK_DEADLOCK FALSE
CONSTANTS
  worker = worker
  web = web
  Executions = {x1}
  Kinds = {"EVALUATOR", "JUDGE"}
  MaxInvocations = 2
  Processes = {worker, web}
  PoolThreads = {t1, t2}
  InlineThreads = {w1}
  ProcessOf <- MCProcessOf
  NoProcess = NoProcess
  NoSubject = NoSubject
  MaxStops = 1
  MaxLateHeartbeats = 1
INVARIANTS
  QueueTypeOK
  InvocationClaimState
  OneResultPerInvocation
  SupersessionChain
PROPERTIES
  ImplementsEvaluations
  EveryInvocationCompletes
