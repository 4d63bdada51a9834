------------------------- MODULE WorkerClaimsProofs -------------------------
(***************************************************************************)
(* Proofs about WorkerClaims for any number of executions, runs, processes *)
(* and threads.                                                            *)
(***************************************************************************)
EXTENDS WorkerClaims, FiniteSetTheorems, TLAPS

LEMMA IdleTaskType == IdleTask \in Tasks
BY DEF IdleTask, Tasks, Pcs

LEMMA IdleTaskIsIdle == IdleTask.pc = "idle"
BY DEF IdleTask

TaskOK ==
  /\ task \in [Threads -> Tasks]
  /\ \A t \in Threads : task[t].pc # "idle" => task[t].exec \in Executions
  /\ \A t \in Threads : task[t].pc = "answered" => task[t].result \in TerminalOutcomes

\* What the step of thread t leaves alone in the tasks: everything of the other
\* threads, and the claim t works on.
OthersKept(t) == \A u \in Threads \ {t} : task'[u] = task[u]
ClaimKept(t) == task'[t].exec = task[t].exec /\ task'[t].token = task[t].token

LEMMA GoToStep ==
  ASSUME TypeOK, NEW t \in Threads, NEW l \in Pcs \ {"answered"}, GoTo(t, l), task[t].pc # "idle"
  PROVE  TaskOK' /\ OthersKept(t) /\ ClaimKept(t) /\ task'[t].pc = l
<1> DEFINE moved == [task[t] EXCEPT !.pc = l]
<1>1. task[t] \in Tasks
  BY DEF TypeOK
<1>2. moved \in Tasks
  BY <1>1 DEF Tasks
<1>3. moved.exec = task[t].exec /\ moved.token = task[t].token /\ moved.pc = l
  BY <1>1 DEF Tasks
<1>4. task' = [task EXCEPT ![t] = moved]
  BY DEF GoTo, TypeOK
<1> HIDE DEF moved
<1>5. QED
  BY <1>2, <1>3, <1>4 DEF TypeOK, TaskOK, OthersKept, ClaimKept

LEMMA ObservedStep ==
  ASSUME TypeOK, NEW t \in Threads, NEW q \in TerminalOutcomes, Observed(t, q), task[t].pc # "idle"
  PROVE  TaskOK' /\ OthersKept(t) /\ ClaimKept(t) /\ task'[t].pc = "answered"
<1> DEFINE done == [task[t] EXCEPT !.pc = "answered", !.result = q]
<1>1. task[t] \in Tasks
  BY DEF TypeOK
<1>2. done \in Tasks
  BY <1>1 DEF Tasks, Pcs
<1>3. /\ done.exec = task[t].exec /\ done.token = task[t].token
      /\ done.pc = "answered" /\ done.result = q
  BY <1>1 DEF Tasks
<1>4. task' = [task EXCEPT ![t] = done]
  BY DEF Observed, TypeOK
<1> HIDE DEF done
<1>5. QED
  BY <1>2, <1>3, <1>4 DEF TypeOK, TaskOK, OthersKept, ClaimKept

LEMMA ReleaseStep ==
  ASSUME TypeOK, NEW t \in Threads, Release(t)
  PROVE  TaskOK' /\ OthersKept(t) /\ task'[t].pc = "idle"
BY IdleTaskType, IdleTaskIsIdle DEF Release, TypeOK, TaskOK, OthersKept

LEMMA FinalStateType ==
  ASSUME TypeOK, NEW out, NEW r \in Runs
  PROVE  FinalState(out, r) \in {"PENDING", "RUNNING"} \cup TerminalRunStates
BY DEF FinalState, TypeOK, TerminalRunStates

LEMMA FinalizeRunsType ==
  ASSUME TypeOK, NEW R, FinalizeRuns(R)
  PROVE  runState' \in [Runs -> {"PENDING", "RUNNING"} \cup TerminalRunStates]
<1>1. ASSUME NEW r \in Runs
      PROVE  (IF r \in R THEN FinalState(outcome', r) ELSE runState[r])
               \in {"PENDING", "RUNNING"} \cup TerminalRunStates
  BY FinalStateType DEF TypeOK
<1>2. QED
  BY <1>1 DEF FinalizeRuns

\* Every step of the worker keeps the types.
LEMMA TypeStep ==
  ASSUME TypeOK, [Next]_vars
  PROVE  TypeOK'
<1> USE ManifestAssumption, ProcessAssumption
    DEF rowVars, runVars, boundVars, TerminalOutcomes, ClaimPhases, TerminalRunStates
<1>1. ASSUME NEW t \in Threads, NEW e \in Executions, Claim(t, e)
      PROVE  TypeOK'
  BY <1>1 DEF Claim, NextToken, TypeOK, Tasks, Pcs
<1>2. ASSUME NEW p \in Processes, NEW S \in SUBSET Executions, Reconcile(p, S)
      PROVE  TypeOK'
  <2>1. runState' \in [Runs -> {"PENDING", "RUNNING"} \cup TerminalRunStates]
    BY <1>2, FinalizeRunsType DEF Reconcile
  <2>2. QED
    BY <1>2, <2>1 DEF Reconcile, ClaimsCleared, NoClaim, TypeOK
<1>3. ASSUME NEW t \in Threads, Prepare(t)
      PROVE  TypeOK'
  <2>1. TaskOK'
    BY <1>3, GoToStep, ObservedStep, ReleaseStep DEF Prepare, Pcs
  <2>2. QED
    BY <1>3, <2>1 DEF Prepare, TypeOK, TaskOK
<1>4. ASSUME NEW t \in Threads, SetupFails(t)
      PROVE  TypeOK'
  <2>1. TaskOK'
    BY <1>4, ObservedStep DEF SetupFails
  <2>2. QED
    BY <1>4, <2>1 DEF SetupFails, TypeOK, TaskOK
<1>5. ASSUME NEW t \in Threads, RecordRuntimeMetadata(t)
      PROVE  TypeOK'
  <2>1. TaskOK'
    BY <1>5, GoToStep, ObservedStep DEF RecordRuntimeMetadata, Pcs
  <2>2. QED
    BY <1>5, <2>1 DEF RecordRuntimeMetadata, TypeOK, TaskOK
<1>6. ASSUME NEW t \in Threads, MarkSubmissionStarted(t)
      PROVE  TypeOK'
  <2>1. TaskOK'
    BY <1>6, GoToStep, ReleaseStep DEF MarkSubmissionStarted, Pcs
  <2>2. task[t].exec \in Executions
    BY <1>6 DEF MarkSubmissionStarted, TypeOK
  <2>3. /\ phase' \in [Executions -> {"NONE", "LEGACY_UNKNOWN", "TERMINAL"} \cup ClaimPhases]
        /\ leased' \in [Executions -> BOOLEAN]
    <3>1. CASE UNCHANGED <<phase, leased>>
      BY <3>1 DEF TypeOK
    <3>2. CASE /\ phase' = [phase EXCEPT ![task[t].exec] = "SUBMISSION_STARTED"]
               /\ leased' = [leased EXCEPT ![task[t].exec] = TRUE]
      BY <2>2, <3>2 DEF TypeOK
    <3>3. QED
      BY <1>6, <3>1, <3>2 DEF MarkSubmissionStarted
  <2>4. QED
    BY <1>6, <2>1, <2>3 DEF MarkSubmissionStarted, TypeOK, TaskOK
<1>7. ASSUME NEW t \in Threads, SubmitQuestion(t)
      PROVE  TypeOK'
  <2>1. TaskOK'
    BY <1>7, GoToStep DEF SubmitQuestion, Pcs
  <2>2. QED
    BY <1>7, <2>1 DEF SubmitQuestion, TypeOK, TaskOK
<1>8. ASSUME NEW t \in Threads, NEW result \in TerminalOutcomes, TargetAnswers(t, result)
      PROVE  TypeOK'
  <2>1. TaskOK'
    BY <1>8, ObservedStep DEF TargetAnswers
  <2>2. QED
    BY <1>8, <2>1 DEF TargetAnswers, TypeOK, TaskOK
<1>9. ASSUME NEW t \in Threads, CompleteExecution(t)
      PROVE  TypeOK'
  <2>1. runState' \in [Runs -> {"PENDING", "RUNNING"} \cup TerminalRunStates]
    BY <1>9, FinalizeRunsType DEF CompleteExecution, TypeOK
  <2>2. TaskOK'
    BY <1>9, ReleaseStep DEF CompleteExecution
  <2>3. task[t].exec \in Executions
    BY <1>9 DEF CompleteExecution, TypeOK
  <2>4. QED
    <3>1. CASE Owns(t)
      <4>1. task[t].result \in TerminalOutcomes
        BY <1>9 DEF CompleteExecution, TypeOK
      <4>2. outcome' \in [Executions -> {"PENDING", "RUNNING"} \cup TerminalOutcomes]
        BY <1>9, <2>3, <3>1, <4>1 DEF CompleteExecution, TypeOK
      <4>3. phase' \in [Executions -> {"NONE", "LEGACY_UNKNOWN", "TERMINAL"} \cup ClaimPhases]
        BY <1>9, <2>3, <3>1 DEF CompleteExecution, TypeOK
      <4>4. leased' \in [Executions -> BOOLEAN]
        BY <1>9, <2>3, <3>1 DEF CompleteExecution, TypeOK
      <4>5. dispatchHeld' \in [Runs -> BOOLEAN]
        <5> DEFINE r == RunOf[task[t].exec]
                   held == runState'[r] \notin TerminalRunStates /\ (r \in DelayedRuns \/ dispatchHeld[r])
        <5>1. dispatchHeld' = [dispatchHeld EXCEPT ![r] = held]
          BY <1>9, <3>1 DEF CompleteExecution
        <5>2. held \in BOOLEAN
          BY DEF TypeOK
        <5> HIDE DEF held
        <5>3. QED
          BY <5>1, <5>2 DEF TypeOK
      <4>6. QED
        BY <1>9, <2>1, <2>2, <4>2, <4>3, <4>4, <4>5 DEF CompleteExecution, TypeOK, TaskOK
    <3>2. CASE ~Owns(t)
      BY <1>9, <2>2, <3>2 DEF CompleteExecution, TypeOK, TaskOK
    <3>3. QED
      BY <3>1, <3>2
<1>10. ASSUME NEW t \in Threads, RefreshClaimLease(t)
       PROVE  TypeOK'
  BY <1>10 DEF RefreshClaimLease, TypeOK
<1>11. ASSUME NEW e \in Executions, LeaseExpires(e)
       PROVE  TypeOK'
  BY <1>11 DEF LeaseExpires, TypeOK
<1>12. ASSUME NEW r \in Runs, DelayElapses(r)
       PROVE  TypeOK'
  BY <1>12 DEF DelayElapses, TypeOK
<1>13. ASSUME NEW p \in Processes, Crash(p) \/ Stop(p) \/ Exit(p) \/ Restart(p)
       PROVE  TypeOK'
  <2>1. CASE Crash(p)
    BY <2>1, IdleTaskType, IdleTaskIsIdle DEF Crash, TypeOK
  <2>2. CASE Stop(p) \/ Exit(p) \/ Restart(p)
    BY <2>2 DEF Stop, Exit, Restart, TypeOK
  <2>3. QED
    BY <1>13, <2>1, <2>2
<1>14. ASSUME NEW t \in Threads, TaskEscapes(t)
       PROVE  TypeOK'
  <2>1. TaskOK'
    BY <1>14, ReleaseStep DEF TaskEscapes
  <2>2. QED
    BY <1>14, <2>1 DEF TaskEscapes, TypeOK, TaskOK
<1>15. CASE UNCHANGED vars
  BY <1>15 DEF vars, TypeOK
<1>16. QED
  BY <1>1, <1>2, <1>3, <1>4, <1>5, <1>6, <1>7, <1>8, <1>9, <1>10, <1>11, <1>12, <1>13, <1>14,
     <1>15
  DEF Next, ThreadStep

\* WorkerClaims keeps every variable in its type (the columns of Execution,
\* EvaluationRun and BuildSnapshot, and the state of processes and threads).
THEOREM TypeCorrect == Spec => []TypeOK
<1>1. Init => TypeOK
  BY ManifestAssumption, ProcessAssumption, IdleTaskType
  DEF Init, TypeOK, NoClaim, TerminalOutcomes, ClaimPhases, TerminalRunStates, MembersOf, IdleTask
<1>2. TypeOK /\ [Next]_vars => TypeOK'
  BY TypeStep
<1>3. QED
  BY <1>1, <1>2, PTL DEF Spec

-----------------------------------------------------------------------------

\* The check constraint is inductive over the worker's steps.
LEMMA ClaimStateStep ==
  ASSUME TypeOK, ClaimStateConstraint, [Next]_vars
  PROVE  ClaimStateConstraint'
<1> USE DEF ClaimStateConstraint, rowVars, runVars
<1>1. ASSUME NEW t \in Threads, NEW e \in Executions, Claim(t, e)
      PROVE  ClaimStateConstraint'
  <2>1. [worker |-> ProcessOf[t], token |-> NextToken(e)] # NoClaim
    BY ProcessAssumption DEF NoClaim
  <2>2. QED
    BY <1>1, <2>1 DEF Claim, ClaimPhases, TypeOK
<1>2. ASSUME NEW p \in Processes, NEW S \in SUBSET Executions, Reconcile(p, S)
      PROVE  ClaimStateConstraint'
  BY <1>2 DEF Reconcile, ClaimsCleared, Stale, SafeToReclaim, TypeOK, TerminalOutcomes, ClaimPhases
<1>3. ASSUME NEW t \in Threads, MarkSubmissionStarted(t)
      PROVE  ClaimStateConstraint'
  BY <1>3 DEF MarkSubmissionStarted, Owns, TypeOK, ClaimPhases
<1>4. ASSUME NEW t \in Threads, CompleteExecution(t)
      PROVE  ClaimStateConstraint'
  <2>1. CASE Owns(t)
    <3>1. task[t].result \in TerminalOutcomes
      BY <1>4 DEF CompleteExecution, TypeOK
    <3>2. QED
      BY <1>4, <2>1, <3>1 DEF CompleteExecution, TypeOK, TerminalOutcomes, ClaimPhases
  <2>2. CASE ~Owns(t)
    BY <1>4, <2>2 DEF CompleteExecution
  <2>3. QED
    BY <2>1, <2>2
<1>5. ASSUME UNCHANGED <<outcome, phase, claim>>
      PROVE  ClaimStateConstraint'
  BY <1>5
<1>6. QED
  BY <1>1, <1>2, <1>3, <1>4, <1>5
  DEF Next, ThreadStep, Prepare, SetupFails, RecordRuntimeMetadata, SubmitQuestion, TargetAnswers,
      RefreshClaimLease, LeaseExpires, DelayElapses, Crash, TaskEscapes, Stop, Exit, Restart, vars

\* No transaction is refused by the check constraint on the claim columns.
THEOREM ClaimStateCorrect == Spec => []ClaimStateConstraint
<1>1. Init => ClaimStateConstraint
  BY DEF Init, ClaimStateConstraint
<1>2. TypeOK /\ ClaimStateConstraint /\ [Next]_vars => ClaimStateConstraint'
  BY ClaimStateStep
<1>3. QED
  BY <1>1, <1>2, TypeCorrect, PTL DEF Spec

-----------------------------------------------------------------------------
(* The submission boundary.                                                *)

\* A step that sends nothing, brings no row back before the boundary and
\* lets no thread cross it keeps the invariant.
LEMMA SubmissionKept ==
  ASSUME TypeOK, SubmissionInv, UNCHANGED requests,
         \A e \in Executions : phase'[e] \in {"NONE", "CLAIMED"} => phase[e] \in {"NONE", "CLAIMED"},
         \A t \in Threads : task'[t].pc = "started" =>
           task[t].pc = "started" /\ task'[t].exec = task[t].exec
  PROVE  SubmissionInv'
<1>1. \A t \in Threads : task[t].pc = "started" => task[t].exec \in Executions
  BY DEF TypeOK
<1>2. QED
  BY <1>1 DEF SubmissionInv

\* A step of thread t that ends before or after the boundary crosses nothing.
LEMMA NotStarted ==
  ASSUME NEW t \in Threads, OthersKept(t), task'[t].pc # "started"
  PROVE  \A u \in Threads : task'[u].pc = "started" =>
           task[u].pc = "started" /\ task'[u].exec = task[u].exec
BY DEF OthersKept

\* SubmissionInv is inductive over the worker's steps.
LEMMA SubmissionStep ==
  ASSUME TypeOK, ClaimStateConstraint, SubmissionInv, [Next]_vars
  PROVE  SubmissionInv'
<1> USE DEF rowVars, runVars
<1>1. ASSUME NEW t \in Threads, NEW e \in Executions, Claim(t, e)
      PROVE  SubmissionInv'
  <2>1. phase[e] = "NONE"
    BY <1>1 DEF Claim, Eligible, ClaimStateConstraint, TerminalOutcomes
  <2>2. \A f \in Executions : phase'[f] \in {"NONE", "CLAIMED"} => phase[f] \in {"NONE", "CLAIMED"}
    BY <1>1, <2>1 DEF Claim, TypeOK
  <2>3. OthersKept(t) /\ task'[t].pc # "started"
    BY <1>1 DEF Claim, TypeOK, OthersKept
  <2>4. QED
    BY <1>1, <2>2, <2>3, NotStarted, SubmissionKept DEF Claim
<1>2. ASSUME NEW p \in Processes, NEW S \in SUBSET Executions, Reconcile(p, S)
      PROVE  SubmissionInv'
  <2>1. \A f \in Executions : phase'[f] \in {"NONE", "CLAIMED"} => phase[f] \in {"NONE", "CLAIMED"}
    BY <1>2 DEF Reconcile, SafeToReclaim
  <2>2. QED
    BY <1>2, <2>1, SubmissionKept DEF Reconcile
<1>3. ASSUME NEW t \in Threads, Prepare(t)
      PROVE  SubmissionInv'
  <2>1. OthersKept(t) /\ task'[t].pc # "started"
    BY <1>3, GoToStep, ObservedStep, ReleaseStep DEF Prepare, Pcs, TerminalOutcomes
  <2>2. QED
    BY <1>3, <2>1, NotStarted, SubmissionKept DEF Prepare
<1>4. ASSUME NEW t \in Threads, SetupFails(t)
      PROVE  SubmissionInv'
  <2>1. OthersKept(t) /\ task'[t].pc # "started"
    BY <1>4, ObservedStep DEF SetupFails, TerminalOutcomes
  <2>2. QED
    BY <1>4, <2>1, NotStarted, SubmissionKept DEF SetupFails
<1>5. ASSUME NEW t \in Threads, RecordRuntimeMetadata(t)
      PROVE  SubmissionInv'
  <2>1. OthersKept(t) /\ task'[t].pc # "started"
    BY <1>5, GoToStep, ObservedStep DEF RecordRuntimeMetadata, Pcs, TerminalOutcomes
  <2>2. QED
    BY <1>5, <2>1, NotStarted, SubmissionKept DEF RecordRuntimeMetadata
<1>6. ASSUME NEW t \in Threads, MarkSubmissionStarted(t)
      PROVE  SubmissionInv'
  <2> DEFINE e == task[t].exec
  <2>1. e \in Executions
    BY <1>6 DEF MarkSubmissionStarted, TypeOK
  <2>2. CASE Owns(t) /\ phase[e] = "CLAIMED"
    <3>1. /\ OthersKept(t) /\ ClaimKept(t) /\ task'[t].pc = "started"
          /\ phase' = [phase EXCEPT ![e] = "SUBMISSION_STARTED"]
          /\ requests' = requests
      BY <1>6, <2>2, GoToStep DEF MarkSubmissionStarted, Pcs
    <3>2. requests[e] = 0 /\ \A u \in Threads : task[u].pc = "started" => task[u].exec # e
      BY <2>1, <2>2 DEF SubmissionInv
    <3> HIDE DEF e
    <3>3. \A f \in Executions : phase'[f] = IF f = e THEN "SUBMISSION_STARTED" ELSE phase[f]
      BY <3>1 DEF TypeOK
    <3>4. task'[t].exec = e /\ \A u \in Threads \ {t} : task'[u] = task[u]
      BY <3>1 DEF ClaimKept, OthersKept, e
    <3>5. \A u \in Threads : task[u].pc = "started" => task[u].exec \in Executions
      BY DEF TypeOK
    <3>6. QED
      BY <2>1, <3>1, <3>2, <3>3, <3>4, <3>5 DEF SubmissionInv
  <2>3. CASE ~(Owns(t) /\ phase[e] = "CLAIMED")
    <3>1. /\ OthersKept(t) /\ task'[t].pc # "started"
          /\ UNCHANGED <<phase, requests>>
      BY <1>6, <2>3, ReleaseStep DEF MarkSubmissionStarted
    <3>2. QED
      BY <3>1, NotStarted, SubmissionKept
  <2>4. QED
    BY <2>2, <2>3
<1>7. ASSUME NEW t \in Threads, SubmitQuestion(t)
      PROVE  SubmissionInv'
  <2> DEFINE e == task[t].exec
  <2>1. e \in Executions /\ task[t].pc = "started"
    BY <1>7 DEF SubmitQuestion, TypeOK
  <2>2. OthersKept(t) /\ task'[t].pc = "waiting"
    BY <1>7, GoToStep DEF SubmitQuestion, Pcs
  <2>3. /\ requests[e] = 0 /\ phase[e] \notin {"NONE", "CLAIMED"}
        /\ \A u \in Threads \ {t} : task[u].pc = "started" => task[u].exec # e
    BY <2>1 DEF SubmissionInv
  <2>4. requests' = [requests EXCEPT ![e] = requests[e] + 1] /\ phase' = phase
    BY <1>7 DEF SubmitQuestion
  <2> HIDE DEF e
  <2>5. \A f \in Executions : requests'[f] = IF f = e THEN 1 ELSE requests[f]
    BY <2>1, <2>3, <2>4 DEF TypeOK
  <2>6. \A u \in Threads : task'[u].pc = "started" =>
          task[u].pc = "started" /\ u # t /\ task'[u] = task[u]
    BY <2>2 DEF OthersKept
  <2>7. \A u \in Threads : task[u].pc = "started" => task[u].exec \in Executions
    BY DEF TypeOK
  <2>8. QED
    BY <2>3, <2>4, <2>5, <2>6, <2>7 DEF SubmissionInv
<1>8. ASSUME NEW t \in Threads, NEW result \in TerminalOutcomes, TargetAnswers(t, result)
      PROVE  SubmissionInv'
  <2>1. OthersKept(t) /\ task'[t].pc # "started"
    BY <1>8, ObservedStep DEF TargetAnswers
  <2>2. QED
    BY <1>8, <2>1, NotStarted, SubmissionKept DEF TargetAnswers
<1>9. ASSUME NEW t \in Threads, CompleteExecution(t)
      PROVE  SubmissionInv'
  <2>1. OthersKept(t) /\ task'[t].pc # "started"
    BY <1>9, ReleaseStep DEF CompleteExecution
  <2>2. task[t].exec \in Executions
    BY <1>9 DEF CompleteExecution, TypeOK
  <2>3. \A f \in Executions : phase'[f] \in {"NONE", "CLAIMED"} => phase[f] \in {"NONE", "CLAIMED"}
    BY <1>9, <2>2 DEF CompleteExecution, TypeOK
  <2>4. QED
    BY <1>9, <2>1, <2>3, NotStarted, SubmissionKept DEF CompleteExecution
<1>10. ASSUME NEW p \in Processes, Crash(p)
       PROVE  SubmissionInv'
  <2>1. \A t \in Threads : task'[t].pc = "started" =>
          task[t].pc = "started" /\ task'[t].exec = task[t].exec
    BY <1>10, IdleTaskIsIdle DEF Crash
  <2>2. QED
    BY <1>10, <2>1, SubmissionKept DEF Crash
<1>11. ASSUME NEW t \in Threads, TaskEscapes(t)
       PROVE  SubmissionInv'
  <2>1. OthersKept(t) /\ task'[t].pc # "started"
    BY <1>11, ReleaseStep DEF TaskEscapes
  <2>2. QED
    BY <1>11, <2>1, NotStarted, SubmissionKept DEF TaskEscapes
<1>12. ASSUME UNCHANGED <<phase, task, requests>>
       PROVE  SubmissionInv'
  BY <1>12, SubmissionKept
<1>13. QED
  BY <1>1, <1>2, <1>3, <1>4, <1>5, <1>6, <1>7, <1>8, <1>9, <1>10, <1>11, <1>12
  DEF Next, ThreadStep, RefreshClaimLease, LeaseExpires, DelayElapses, Stop, Exit, Restart, vars

\* Whatever crashes, stalls and recoveries happen, a row that may go back to
\* the queue was never sent, and one thread at most is about to send it.
THEOREM SubmissionCorrect == Spec => []SubmissionInv
<1>1. Init => SubmissionInv
  BY IdleTaskIsIdle DEF Init, SubmissionInv
<1>2. QED
  BY <1>1, SubmissionStep, TypeCorrect, ClaimStateCorrect, PTL DEF Spec

\* The target is asked a planned question at most once.
THEOREM AtMostOnce == Spec => []AtMostOneRequest
<1>1. SubmissionInv => AtMostOneRequest
  BY DEF SubmissionInv, AtMostOneRequest
<1>2. QED
  BY <1>1, SubmissionCorrect, PTL

-----------------------------------------------------------------------------
(* Fencing: one owner per claim.                                           *)

\* A step that keeps the attempts and gives out no claim keeps the tokens.
LEMMA TokensKept ==
  ASSUME TypeOK, FencingTokens, UNCHANGED attempt,
         \A t \in Threads : task'[t].pc # "idle" =>
           /\ task[t].pc # "idle"
           /\ task'[t].exec = task[t].exec
           /\ task'[t].token = task[t].token
  PROVE  FencingTokens'
BY DEF FencingTokens

\* A step of thread t that keeps its claim or gives it back gives out none.
LEMMA NoNewClaim ==
  ASSUME NEW t \in Threads, OthersKept(t),
         task'[t].pc = "idle" \/ (task[t].pc # "idle" /\ ClaimKept(t))
  PROVE  \A u \in Threads : task'[u].pc # "idle" =>
           task[u].pc # "idle" /\ task'[u].exec = task[u].exec /\ task'[u].token = task[u].token
BY DEF OthersKept, ClaimKept

\* What a pool thread does with its task.
LEMMA OwnStep ==
  ASSUME TypeOK, NEW t \in Threads, ThreadStep(t) \/ SetupFails(t) \/ TaskEscapes(t)
  PROVE  OthersKept(t) /\ (task'[t].pc = "idle" \/ (task[t].pc # "idle" /\ ClaimKept(t)))
<1>1. CASE Prepare(t)
  BY <1>1, GoToStep, ObservedStep, ReleaseStep DEF Prepare, Pcs, TerminalOutcomes
<1>2. CASE RecordRuntimeMetadata(t)
  BY <1>2, GoToStep, ObservedStep DEF RecordRuntimeMetadata, Pcs, TerminalOutcomes
<1>3. CASE MarkSubmissionStarted(t)
  BY <1>3, GoToStep, ReleaseStep DEF MarkSubmissionStarted, Pcs
<1>4. CASE SubmitQuestion(t)
  BY <1>4, GoToStep DEF SubmitQuestion, Pcs
<1>5. CASE \E result \in TerminalOutcomes : TargetAnswers(t, result)
  BY <1>5, ObservedStep DEF TargetAnswers
<1>6. CASE CompleteExecution(t) \/ TaskEscapes(t)
  BY <1>6, ReleaseStep DEF CompleteExecution, TaskEscapes
<1>7. CASE SetupFails(t)
  BY <1>7, ObservedStep DEF SetupFails, TerminalOutcomes
<1>8. QED
  BY <1>1, <1>2, <1>3, <1>4, <1>5, <1>6, <1>7 DEF ThreadStep

\* FencingTokens is inductive over the worker's steps.
LEMMA FencingStep ==
  ASSUME TypeOK, FencingTokens, [Next]_vars
  PROVE  FencingTokens'
<1> USE DEF rowVars, runVars
<1>1. ASSUME NEW t \in Threads, NEW e \in Executions, Claim(t, e)
      PROVE  FencingTokens'
  <2>1. /\ \A u \in Threads \ {t} : task'[u] = task[u]
        /\ task'[t].pc = "claimed" /\ task'[t].exec = e /\ task'[t].token = attempt[e] + 1
    BY <1>1 DEF Claim, NextToken, TypeOK
  <2>2. \A f \in Executions : attempt'[f] = IF f = e THEN attempt[e] + 1 ELSE attempt[f]
    BY <1>1 DEF Claim, TypeOK
  <2>3. \A u \in Threads : task[u].pc # "idle" => task[u].exec \in Executions /\ task[u].token \in Nat
    BY DEF TypeOK, Tasks
  <2>4. \A f \in Executions : attempt[f] \in Nat
    BY DEF TypeOK
  <2>5. QED
    BY <2>1, <2>2, <2>3, <2>4 DEF FencingTokens
<1>2. ASSUME NEW t \in Threads, ThreadStep(t) \/ SetupFails(t) \/ TaskEscapes(t)
      PROVE  FencingTokens'
  <2>1. UNCHANGED attempt
    BY <1>2 DEF ThreadStep, Prepare, RecordRuntimeMetadata, MarkSubmissionStarted, SubmitQuestion,
                TargetAnswers, CompleteExecution, SetupFails, TaskEscapes
  <2>2. OthersKept(t) /\ (task'[t].pc = "idle" \/ (task[t].pc # "idle" /\ ClaimKept(t)))
    BY <1>2, OwnStep
  <2>3. QED
    BY <2>1, <2>2, NoNewClaim, TokensKept
<1>3. ASSUME NEW p \in Processes, Crash(p)
      PROVE  FencingTokens'
  <2>1. \A u \in Threads : task'[u].pc # "idle" =>
          task[u].pc # "idle" /\ task'[u].exec = task[u].exec /\ task'[u].token = task[u].token
    BY <1>3, IdleTaskIsIdle DEF Crash
  <2>2. QED
    BY <1>3, <2>1, TokensKept DEF Crash
<1>4. ASSUME UNCHANGED <<attempt, task>>
      PROVE  FencingTokens'
  BY <1>4, TokensKept
<1>5. QED
  BY <1>1, <1>2, <1>3, <1>4
  DEF Next, Reconcile, RefreshClaimLease, LeaseExpires, DelayElapses, Stop, Exit, Restart, vars

\* No two threads ever hold the same claim, in one process or in two.
THEOREM FencingCorrect == Spec => []FencingTokens
<1>1. Init => FencingTokens
  BY IdleTaskIsIdle DEF Init, FencingTokens
<1>2. QED
  BY <1>1, FencingStep, TypeCorrect, PTL DEF Spec

\* Of all the threads that ever claimed a row, at most one can still write it.
THEOREM OneOwner == Spec => []SingleOwner
<1>1. FencingTokens => SingleOwner
  BY DEF FencingTokens, SingleOwner, Owns
<1>2. QED
  BY <1>1, FencingCorrect, PTL

-----------------------------------------------------------------------------
(* Runs and their members.                                                 *)

\* A transaction that moves only open members, and finalizes the open runs of
\* those it made terminal, keeps runs and members in step.
LEMMA FinalizeKept ==
  ASSUME TypeOK, RunAggregation, NEW R, FinalizeRuns(R),
         \A e \in Executions : outcome'[e] # outcome[e] =>
           outcome[e] \notin TerminalOutcomes /\ (outcome'[e] \in TerminalOutcomes => RunOf[e] \in R),
         \A r \in R : \E e \in MembersOf(r) : outcome[e] \notin TerminalOutcomes,
         outcome' \in [Executions -> {"PENDING", "RUNNING"} \cup TerminalOutcomes]
  PROVE  RunAggregation'
<1> SUFFICES ASSUME NEW r \in Runs
             PROVE
    /\ runState'[r] \in TerminalRunStates <=>
         \A e \in MembersOf(r) : outcome'[e] \in TerminalOutcomes
    /\ runState'[r] = "COMPLETED" => \A e \in MembersOf(r) : outcome'[e] = "SUCCESS"
    /\ runState'[r] = "COMPLETED_WITH_ERRORS" => \E e \in MembersOf(r) : outcome'[e] # "SUCCESS"
  BY DEF RunAggregation
<1>1. \A e \in MembersOf(r) : e \in Executions /\ RunOf[e] = r
  BY DEF MembersOf
<1>2. CASE r \in R
  <2>1. runState[r] \notin TerminalRunStates
    BY <1>2 DEF RunAggregation, TerminalOutcomes
  <2>2. runState'[r] = FinalState(outcome', r)
    BY <1>2 DEF FinalizeRuns
  <2>3. \A e \in MembersOf(r) : outcome'[e] \in {"PENDING", "RUNNING"} \cup TerminalOutcomes
    BY <1>1
  <2>4. QED
    BY <2>1, <2>2, <2>3 DEF FinalState, TerminalOutcomes, TerminalRunStates
<1>3. CASE r \notin R
  <2>1. runState'[r] = runState[r]
    BY <1>3 DEF FinalizeRuns
  <2>2. CASE runState[r] \in TerminalRunStates
    <3>1. \A e \in MembersOf(r) : outcome'[e] = outcome[e]
      BY <1>1, <2>2 DEF RunAggregation, TerminalOutcomes
    <3>2. QED
      BY <2>1, <3>1 DEF RunAggregation
  <2>3. CASE runState[r] \notin TerminalRunStates
    <3>1. PICK e \in MembersOf(r) : outcome[e] \notin TerminalOutcomes
      BY <2>3 DEF RunAggregation
    <3>2. outcome'[e] \notin TerminalOutcomes
      BY <1>1, <1>3, <3>1
    <3>3. QED
      BY <2>1, <2>3, <3>2 DEF TerminalRunStates
  <2>4. QED
    BY <2>2, <2>3
<1>4. QED
  BY <1>2, <1>3

\* The rows a worker's step touches are PENDING (a claim) or RUNNING.
LEMMA ReconcileEffect ==
  ASSUME TypeOK, NEW p \in Processes, NEW S \in SUBSET Executions, Reconcile(p, S)
  PROVE  /\ \A e \in Executions : outcome'[e] # outcome[e] =>
              /\ outcome[e] = "RUNNING"
              /\ outcome'[e] \in TerminalOutcomes => RunOf[e] \in {RunOf[f] : f \in {g \in S : ~SafeToReclaim(g)}}
         /\ \A e \in Executions : outcome[e] # "RUNNING" => outcome'[e] = outcome[e] /\ claim'[e] = claim[e]
         /\ \A r \in {RunOf[f] : f \in {g \in S : ~SafeToReclaim(g)}} :
              \E e \in MembersOf(r) : outcome[e] = "RUNNING"
         /\ FinalizeRuns({RunOf[f] : f \in {g \in S : ~SafeToReclaim(g)}})
<1> DEFINE ambiguous == S \ {e \in S : SafeToReclaim(e)}
           stale == {g \in S : ~SafeToReclaim(g)}
<1>1. ambiguous = stale
  OBVIOUS
<1>2. \A e \in S : outcome[e] = "RUNNING"
  BY DEF Reconcile, Stale
<1>3. \A e \in Executions : outcome'[e] =
        IF e \in S /\ SafeToReclaim(e) THEN "PENDING" ELSE IF e \in stale THEN "ERROR" ELSE outcome[e]
  BY DEF Reconcile
<1>4. \A e \in Executions : e \notin S => claim'[e] = claim[e]
  BY DEF Reconcile, ClaimsCleared
<1>5. FinalizeRuns({RunOf[f] : f \in stale})
  BY <1>1 DEF Reconcile
<1>6. \A f \in stale : f \in S /\ f \in Executions /\ f \in MembersOf(RunOf[f])
  BY DEF MembersOf
<1> HIDE DEF stale
<1>7. \A r \in {RunOf[f] : f \in stale} : \E e \in MembersOf(r) : outcome[e] = "RUNNING"
  BY <1>2, <1>6
<1>8. \A e \in Executions : outcome'[e] # outcome[e] =>
        outcome[e] = "RUNNING" /\ (outcome'[e] \in TerminalOutcomes => e \in stale)
  BY <1>2, <1>3, <1>6 DEF TerminalOutcomes
<1>9. \A e \in Executions : outcome'[e] # outcome[e] =>
        outcome[e] = "RUNNING" /\ (outcome'[e] \in TerminalOutcomes => RunOf[e] \in {RunOf[f] : f \in stale})
  BY <1>8
<1>10. \A e \in Executions : outcome[e] # "RUNNING" => outcome'[e] = outcome[e] /\ claim'[e] = claim[e]
  BY <1>2, <1>4, <1>8
<1>11. QED
  BY <1>5, <1>7, <1>9, <1>10 DEF stale

LEMMA CompleteEffect ==
  ASSUME TypeOK, NEW t \in Threads, CompleteExecution(t), Owns(t)
  PROVE  /\ task[t].exec \in Executions
         /\ outcome[task[t].exec] = "RUNNING"
         /\ task[t].result \in TerminalOutcomes
         /\ outcome' = [outcome EXCEPT ![task[t].exec] = task[t].result]
         /\ outcome' \in [Executions -> {"PENDING", "RUNNING"} \cup TerminalOutcomes]
         /\ FinalizeRuns({RunOf[task[t].exec]})
         /\ UNCHANGED claim
<1>1. task[t].exec \in Executions /\ task[t].result \in TerminalOutcomes
  BY DEF CompleteExecution, TypeOK
<1>2. /\ outcome' = [outcome EXCEPT ![task[t].exec] = task[t].result]
      /\ FinalizeRuns({RunOf[task[t].exec]})
      /\ UNCHANGED claim
  BY DEF CompleteExecution
<1>3. outcome[task[t].exec] = "RUNNING"
  BY DEF Owns
<1>4. outcome' \in [Executions -> {"PENDING", "RUNNING"} \cup TerminalOutcomes]
  BY <1>1, <1>2 DEF TypeOK
<1>5. QED
  BY <1>1, <1>2, <1>3, <1>4

\* RunAggregation is inductive over the worker's steps.
LEMMA AggregationStep ==
  ASSUME TypeOK, TypeOK', RunAggregation, [Next]_vars
  PROVE  RunAggregation'
<1> USE DEF rowVars, runVars
<1>1. ASSUME NEW t \in Threads, NEW e \in Executions, Claim(t, e)
      PROVE  RunAggregation'
  <2>1. RunOf[e] \in Runs /\ e \in MembersOf(RunOf[e])
    BY ManifestAssumption DEF MembersOf
  <2>2. /\ \A f \in Executions : outcome'[f] = IF f = e THEN "RUNNING" ELSE outcome[f]
        /\ \A r \in Runs : runState'[r] = IF r = RunOf[e] THEN "RUNNING" ELSE runState[r]
    BY <1>1 DEF Claim, TypeOK
  <2>3. \A r \in Runs : \A f \in MembersOf(r) : f \in Executions /\ RunOf[f] = r
    BY DEF MembersOf
  <2> QED
    BY <2>1, <2>2, <2>3 DEF RunAggregation, TerminalOutcomes, TerminalRunStates
<1>2. ASSUME NEW p \in Processes, NEW S \in SUBSET Executions, Reconcile(p, S)
      PROVE  RunAggregation'
  <2> DEFINE R == {RunOf[f] : f \in {g \in S : ~SafeToReclaim(g)}}
  <2>1. \A r \in R : \E e \in MembersOf(r) : outcome[e] = "RUNNING"
    BY <1>2, ReconcileEffect
  <2>2. /\ FinalizeRuns(R)
        /\ \A e \in Executions : outcome'[e] # outcome[e] =>
             outcome[e] = "RUNNING" /\ (outcome'[e] \in TerminalOutcomes => RunOf[e] \in R)
    BY <1>2, ReconcileEffect
  <2>3. outcome' \in [Executions -> {"PENDING", "RUNNING"} \cup TerminalOutcomes]
    BY DEF TypeOK
  <2> HIDE DEF R
  <2>4. /\ \A r \in R : \E e \in MembersOf(r) : outcome[e] \notin TerminalOutcomes
        /\ \A e \in Executions : outcome'[e] # outcome[e] => outcome[e] \notin TerminalOutcomes
    BY <2>1, <2>2 DEF TerminalOutcomes
  <2>5. QED
    BY <2>2, <2>3, <2>4, FinalizeKept
<1>3. ASSUME NEW t \in Threads, CompleteExecution(t)
      PROVE  RunAggregation'
  <2>1. CASE Owns(t)
    <3>1. \A r \in {RunOf[task[t].exec]} : \E e \in MembersOf(r) : outcome[e] \notin TerminalOutcomes
      BY <1>3, <2>1, CompleteEffect DEF MembersOf, TerminalOutcomes
    <3>2. \A e \in Executions : outcome'[e] # outcome[e] =>
            /\ outcome[e] \notin TerminalOutcomes
            /\ outcome'[e] \in TerminalOutcomes => RunOf[e] \in {RunOf[task[t].exec]}
      BY <1>3, <2>1, CompleteEffect DEF TypeOK, TerminalOutcomes
    <3>3. QED
      BY <1>3, <2>1, <3>1, <3>2, CompleteEffect, FinalizeKept
  <2>2. CASE ~Owns(t)
    BY <1>3, <2>2 DEF CompleteExecution, RunAggregation
  <2>3. QED
    BY <2>1, <2>2
<1>4. ASSUME UNCHANGED <<outcome, runState>>
      PROVE  RunAggregation'
  BY <1>4 DEF RunAggregation
<1>5. QED
  BY <1>1, <1>2, <1>3, <1>4
  DEF Next, ThreadStep, Prepare, SetupFails, RecordRuntimeMetadata, MarkSubmissionStarted,
      SubmitQuestion, TargetAnswers, RefreshClaimLease, LeaseExpires, DelayElapses, Crash,
      TaskEscapes, Stop, Exit, Restart, vars

\* A run is finished exactly when its last member is, with errors exactly
\* when a member failed.
THEOREM AggregationCorrect == Spec => []RunAggregation
<1>1. Init => RunAggregation
  <2> SUFFICES ASSUME Init
               PROVE  RunAggregation
    OBVIOUS
  <2>1. \A r \in Runs : runState[r] \in {"PENDING", "RUNNING"}
    BY DEF Init
  <2>2. \A r \in Runs : \E e \in MembersOf(r) : outcome[e] \in {"PENDING", "RUNNING"}
    BY ManifestAssumption DEF Init, MembersOf
  <2>3. QED
    BY <2>1, <2>2 DEF RunAggregation, TerminalOutcomes, TerminalRunStates
<1>2. QED
  BY <1>1, AggregationStep, TypeCorrect, PTL DEF Spec

\* Every step of the worker keeps captured observations and finished runs.
LEMMA ObservationsStep ==
  ASSUME TypeOK, RunAggregation, [Next]_vars
  PROVE  [ObservationsKept]_vars
<1> USE DEF rowVars, runVars, ObservationsKept
<1>1. ASSUME NEW t \in Threads, NEW e \in Executions, Claim(t, e)
      PROVE  ObservationsKept
  BY <1>1 DEF Claim, Eligible, TypeOK, TerminalOutcomes, TerminalRunStates
<1>2. ASSUME NEW R, FinalizeRuns(R), \A r \in R : \E e \in MembersOf(r) : outcome[e] = "RUNNING"
      PROVE  \A r \in Runs : runState[r] \in TerminalRunStates => runState'[r] = runState[r]
  BY <1>2 DEF FinalizeRuns, RunAggregation, TerminalOutcomes
<1>3. ASSUME NEW p \in Processes, NEW S \in SUBSET Executions, Reconcile(p, S)
      PROVE  ObservationsKept
  <2> DEFINE R == {RunOf[f] : f \in {g \in S : ~SafeToReclaim(g)}}
  <2>1. FinalizeRuns(R) /\ \A r \in R : \E e \in MembersOf(r) : outcome[e] = "RUNNING"
    BY <1>3, ReconcileEffect
  <2> HIDE DEF R
  <2>2. \A e \in Executions : outcome[e] # "RUNNING" => outcome'[e] = outcome[e] /\ claim'[e] = claim[e]
    BY <1>3, ReconcileEffect
  <2>3. QED
    BY <1>2, <2>1, <2>2 DEF TerminalOutcomes
<1>4. ASSUME NEW t \in Threads, CompleteExecution(t)
      PROVE  ObservationsKept
  <2>1. CASE Owns(t)
    <3>1. \A r \in {RunOf[task[t].exec]} : \E e \in MembersOf(r) : outcome[e] = "RUNNING"
      BY <1>4, <2>1, CompleteEffect DEF MembersOf
    <3>2. \A e \in Executions : outcome[e] # "RUNNING" => outcome'[e] = outcome[e] /\ claim'[e] = claim[e]
      BY <1>4, <2>1, CompleteEffect DEF TypeOK
    <3>3. QED
      BY <1>2, <1>4, <2>1, <3>1, <3>2, CompleteEffect DEF TerminalOutcomes
  <2>2. CASE ~Owns(t)
    BY <1>4, <2>2 DEF CompleteExecution
  <2>3. QED
    BY <2>1, <2>2
<1>5. ASSUME UNCHANGED <<outcome, claim, runState>>
      PROVE  ObservationsKept
  BY <1>5
<1>6. QED
  BY <1>1, <1>3, <1>4, <1>5
  DEF Next, ThreadStep, Prepare, SetupFails, RecordRuntimeMetadata, MarkSubmissionStarted,
      SubmitQuestion, TargetAnswers, RefreshClaimLease, LeaseExpires, DelayElapses, Crash,
      TaskEscapes, Stop, Exit, Restart, vars

\* A captured observation is never overwritten and a finished run never
\* changes.
THEOREM ObservationsFinal == Spec => ObservationsImmutable
<1>1. TypeOK /\ RunAggregation /\ [Next]_vars => [ObservationsKept]_vars
  BY ObservationsStep
<1>2. QED
  BY <1>1, TypeCorrect, AggregationCorrect, PTL DEF Spec, ObservationsImmutable

-----------------------------------------------------------------------------
(* Capacity, while heartbeats are on time.                                 *)

\* The lease of every thread that owns its row is unexpired.
OwnersLeased == \A t \in Threads : task[t].pc # "idle" /\ Owns(t) => leased[task[t].exec]

\* No claim is given out or found again, and none of those kept loses its lease.
LEMMA LeasesKept ==
  ASSUME OwnersLeased, TypeOK,
         \A t \in Threads : task'[t].pc # "idle" =>
           task[t].pc # "idle" /\ task'[t].exec = task[t].exec /\ task'[t].token = task[t].token,
         \A e \in Executions : outcome'[e] = "RUNNING" =>
           outcome[e] = "RUNNING" /\ claim'[e] = claim[e] /\ (leased[e] => leased'[e])
  PROVE  OwnersLeased'
BY DEF OwnersLeased, Owns, TypeOK

\* No row begins to count against capacity.
NoneActivated ==
  \A e \in Executions : outcome'[e] = "RUNNING" /\ phase'[e] \in ClaimPhases /\ leased'[e] =>
    outcome[e] = "RUNNING" /\ phase[e] \in ClaimPhases /\ leased[e]

LEMMA CapacityKept ==
  ASSUME TypeOK, CapacityRespected, NoneActivated
  PROVE  CapacityRespected'
<1>1. ASSUME NEW S \in SUBSET Executions, NEW n \in Nat, Cardinality(ActiveClaims(S)) <= n
      PROVE  Cardinality(ActiveClaims(S)') <= n
  <2>1. ActiveClaims(S)' \subseteq ActiveClaims(S) /\ ActiveClaims(S) \subseteq Executions
    BY DEF NoneActivated, ActiveClaims
  <2>2. IsFiniteSet(ActiveClaims(S)) /\ IsFiniteSet(ActiveClaims(S)')
    BY <2>1, FS_Subset, CapacityAssumption
  <2>3. Cardinality(ActiveClaims(S)') <= Cardinality(ActiveClaims(S))
    BY <2>1, <2>2, FS_Subset
  <2>4. Cardinality(ActiveClaims(S)') \in Nat /\ Cardinality(ActiveClaims(S)) \in Nat
    BY <2>2, FS_CardinalityType
  <2>5. QED
    BY <1>1, <2>3, <2>4
<1>2. \A r \in Runs : /\ MembersOf(r) \subseteq Executions /\ OnRevision(RevisionOf[r]) \subseteq Executions
                      /\ ActualConcurrency[r] \in Nat /\ ConfiguredMax[r] \in Nat
  BY ManifestAssumption DEF MembersOf, OnRevision
<1>3. QED
  BY <1>1, <1>2 DEF CapacityRespected

\* A claim fills at most the slot that its guard found free.
LEMMA ClaimWithinCapacity ==
  ASSUME TypeOK, CapacityRespected,
         NEW t \in Threads, NEW e \in Executions, Claim(t, e)
  PROVE  CapacityRespected'
<1>1. \A f \in Executions \ {e} : outcome'[f] = outcome[f] /\ phase'[f] = phase[f] /\ leased'[f] = leased[f]
  BY DEF Claim, TypeOK
<1>2. ASSUME NEW S \in SUBSET Executions, NEW n \in Nat, Cardinality(ActiveClaims(S)) <= n,
             e \in S => Cardinality(ActiveClaims(S)) < n
      PROVE  Cardinality(ActiveClaims(S)') <= n
  <2> DEFINE A == ActiveClaims(S)
             B == ActiveClaims(S)'
  <2>1. A \subseteq Executions /\ B \subseteq A \cup {e} /\ (e \notin S => B \subseteq A)
    BY <1>1 DEF ActiveClaims
  <2>2. IsFiniteSet(A) /\ IsFiniteSet(A \cup {e})
    BY <2>1, FS_Subset, FS_AddElement, CapacityAssumption
  <2> HIDE DEF A, B
  <2>3. Cardinality(A) \in Nat /\ Cardinality(A \cup {e}) \in Nat /\ Cardinality(A \cup {e}) <= Cardinality(A) + 1
    BY <2>2, FS_AddElement, FS_CardinalityType
  <2>4. IsFiniteSet(B) /\ Cardinality(B) <= Cardinality(A \cup {e})
    BY <2>1, <2>2, FS_Subset
  <2>5. e \notin S => Cardinality(B) <= Cardinality(A)
    BY <2>1, <2>2, FS_Subset
  <2>6. Cardinality(B) \in Nat
    BY <2>4, FS_CardinalityType
  <2>7. Cardinality(A) <= n /\ (e \in S => Cardinality(A) < n)
    BY <1>2 DEF A
  <2>8. Cardinality(B) <= n
    BY <2>3, <2>4, <2>5, <2>6, <2>7
  <2>9. QED
    BY <2>8 DEF B
<1>3. \A r \in Runs : /\ MembersOf(r) \subseteq Executions /\ OnRevision(RevisionOf[r]) \subseteq Executions
                      /\ ActualConcurrency[r] \in Nat /\ ConfiguredMax[r] \in Nat
                      /\ e \in MembersOf(r) => RunOf[e] = r
  BY ManifestAssumption DEF MembersOf, OnRevision
<1>4. ASSUME NEW r \in Runs
      PROVE  Cardinality(ActiveClaims(MembersOf(r))') <= ActualConcurrency[r]
  BY <1>2, <1>3 DEF Claim, Eligible, CapacityRespected
<1>5. ASSUME NEW r \in Runs
      PROVE  Cardinality(ActiveClaims(OnRevision(RevisionOf[r]))') <= ConfiguredMax[r]
  <2>1. CASE e \notin OnRevision(RevisionOf[r])
    BY <1>2, <1>3, <2>1 DEF CapacityRespected
  <2>2. CASE e \in OnRevision(RevisionOf[r])
    <3>1. RevisionOf[RunOf[e]] = RevisionOf[r] /\ RunOf[e] \in Runs
      BY <2>2, ManifestAssumption DEF OnRevision
    <3>2. Cardinality(ActiveClaims(OnRevision(RevisionOf[r]))) < ConfiguredMax[r]
      BY <3>1, CapacityAssumption DEF Claim, Eligible
    <3>3. QED
      BY <1>2, <1>3, <3>2 DEF CapacityRespected
  <2>3. QED
    BY <2>1, <2>2
<1>6. QED
  BY <1>4, <1>5 DEF CapacityRespected

\* Every owner holds an unexpired lease and capacity is respected, as long as
\* no lease expired under a live owner.
TimelyInv == late = 0 => OwnersLeased /\ CapacityRespected

LEMMA TimelyStep ==
  ASSUME TypeOK, ClaimStateConstraint, TimelyInv, [Next]_vars, late' = 0
  PROVE  OwnersLeased' /\ CapacityRespected'
<1> USE DEF rowVars, runVars, boundVars
<1>1. ASSUME late' = late
      PROVE  OwnersLeased /\ CapacityRespected
  BY <1>1 DEF TimelyInv
<1>2. ASSUME NEW t \in Threads, NEW e \in Executions, Claim(t, e)
      PROVE  OwnersLeased' /\ CapacityRespected'
  <2>1. OwnersLeased /\ CapacityRespected
    BY <1>1, <1>2 DEF Claim
  <2>2. /\ \A u \in Threads \ {t} : task'[u] = task[u]
        /\ task'[t].exec = e /\ leased'[e]
        /\ \A f \in Executions \ {e} :
             outcome'[f] = outcome[f] /\ claim'[f] = claim[f] /\ leased'[f] = leased[f]
    BY <1>2 DEF Claim, TypeOK
  <2>3. OwnersLeased'
    BY <2>1, <2>2 DEF OwnersLeased, Owns, TypeOK
  <2>4. QED
    BY <1>2, <2>1, <2>3, ClaimWithinCapacity
<1>3. ASSUME NEW p \in Processes, NEW S \in SUBSET Executions, Reconcile(p, S)
      PROVE  OwnersLeased' /\ CapacityRespected'
  <2>1. OwnersLeased /\ CapacityRespected /\ UNCHANGED <<task, leased>>
    BY <1>1, <1>3 DEF Reconcile
  <2>2. \A f \in Executions : outcome'[f] = "RUNNING" =>
          outcome[f] = "RUNNING" /\ claim'[f] = claim[f] /\ phase'[f] = phase[f]
    BY <1>3 DEF Reconcile, ClaimsCleared
  <2>3. NoneActivated
    BY <2>1, <2>2 DEF NoneActivated
  <2>4. QED
    BY <2>1, <2>2, <2>3, LeasesKept, CapacityKept
<1>4. ASSUME NEW t \in Threads, ThreadStep(t) \/ SetupFails(t) \/ TaskEscapes(t)
      PROVE  OwnersLeased' /\ CapacityRespected'
  <2>1. late' = late
    BY <1>4 DEF ThreadStep, Prepare, RecordRuntimeMetadata, MarkSubmissionStarted, SubmitQuestion,
                TargetAnswers, CompleteExecution, SetupFails, TaskEscapes
  <2>2. OwnersLeased /\ CapacityRespected
    BY <1>1, <2>1
  <2>3. \A u \in Threads : task'[u].pc # "idle" =>
          task[u].pc # "idle" /\ task'[u].exec = task[u].exec /\ task'[u].token = task[u].token
    BY <1>4, OwnStep, NoNewClaim
  <2>4. CASE MarkSubmissionStarted(t)
    <3>1. \A f \in Executions : outcome'[f] = outcome[f] /\ claim'[f] = claim[f]
                               /\ leased'[f] = leased[f]
                               /\ (phase'[f] \in ClaimPhases => phase[f] \in ClaimPhases)
      BY <2>2, <2>4 DEF MarkSubmissionStarted, OwnersLeased, TypeOK, ClaimPhases
    <3>2. NoneActivated
      BY <3>1 DEF NoneActivated
    <3>3. QED
      BY <2>2, <2>3, <3>1, <3>2, LeasesKept, CapacityKept
  <2>5. CASE CompleteExecution(t)
    <3>1. \A f \in Executions : outcome'[f] = "RUNNING" =>
            /\ outcome[f] = "RUNNING" /\ claim'[f] = claim[f]
            /\ leased'[f] = leased[f] /\ phase'[f] = phase[f]
      BY <2>5 DEF CompleteExecution, TypeOK, TerminalOutcomes
    <3>2. NoneActivated
      BY <3>1 DEF NoneActivated
    <3>3. QED
      BY <2>2, <2>3, <3>1, <3>2, LeasesKept, CapacityKept
  <2>6. CASE UNCHANGED <<outcome, phase, claim, leased>>
    BY <2>2, <2>3, <2>6, LeasesKept, CapacityKept DEF NoneActivated
  <2>7. QED
    BY <1>4, <2>4, <2>5, <2>6
    DEF ThreadStep, Prepare, RecordRuntimeMetadata, SubmitQuestion, TargetAnswers, SetupFails, TaskEscapes
<1>5. ASSUME NEW t \in Threads, RefreshClaimLease(t)
      PROVE  FALSE
  BY <1>1, <1>5 DEF RefreshClaimLease, OwnersLeased
<1>6. ASSUME NEW e \in Executions, LeaseExpires(e)
      PROVE  OwnersLeased' /\ CapacityRespected'
  <2>1. ~HasLiveOwner(e) /\ late' = late
    BY <1>6 DEF LeaseExpires, TypeOK
  <2>2. OwnersLeased /\ CapacityRespected
    BY <1>1, <2>1
  <2>3. \A f \in Executions \ {e} : leased'[f] = leased[f]
    BY <1>6 DEF LeaseExpires, TypeOK
  <2>4. UNCHANGED <<outcome, phase, claim, task>> /\ leased[e]
    BY <1>6 DEF LeaseExpires
  <2>5. OwnersLeased'
    BY <2>1, <2>2, <2>3, <2>4 DEF OwnersLeased, HasLiveOwner, Owns, TypeOK
  <2>6. NoneActivated
    BY <2>3, <2>4 DEF NoneActivated
  <2>7. QED
    BY <2>2, <2>5, <2>6, CapacityKept
<1>7. ASSUME NEW p \in Processes, Crash(p)
      PROVE  OwnersLeased' /\ CapacityRespected'
  <2>1. OwnersLeased /\ CapacityRespected
    BY <1>1, <1>7 DEF Crash
  <2>2. \A u \in Threads : task'[u].pc # "idle" =>
          task[u].pc # "idle" /\ task'[u].exec = task[u].exec /\ task'[u].token = task[u].token
    BY <1>7, IdleTaskIsIdle DEF Crash
  <2>3. QED
    BY <1>7, <2>1, <2>2, LeasesKept, CapacityKept DEF Crash, NoneActivated
<1>8. ASSUME UNCHANGED <<outcome, phase, claim, leased, task, late>>
      PROVE  OwnersLeased' /\ CapacityRespected'
  BY <1>1, <1>8, LeasesKept, CapacityKept DEF NoneActivated
<1>9. QED
  BY <1>2, <1>3, <1>4, <1>5, <1>6, <1>7, <1>8 DEF Next, DelayElapses, Stop, Exit, Restart, vars

\* Nothing is claimed at first.
LEMMA TimelyInvInit == Init => TimelyInv
<1> SUFFICES ASSUME Init PROVE OwnersLeased /\ CapacityRespected
  BY DEF TimelyInv
<1>1. \A S \in SUBSET Executions : ActiveClaims(S) = {}
  BY DEF Init, ActiveClaims, ClaimPhases
<1>2. OwnersLeased
  BY IdleTaskIsIdle DEF Init, OwnersLeased
<1>3. \A S \in SUBSET Executions : Cardinality(ActiveClaims(S)) = 0
  BY <1>1, FS_EmptySet
<1>4. \A r \in Runs : /\ MembersOf(r) \in SUBSET Executions
                      /\ OnRevision(RevisionOf[r]) \in SUBSET Executions
                      /\ 0 <= ActualConcurrency[r] /\ 0 <= ConfiguredMax[r]
  BY ManifestAssumption DEF MembersOf, OnRevision
<1>5. QED
  BY <1>2, <1>3, <1>4 DEF CapacityRespected

\* Crashes, recovery and fresh claims never take a run or a revision of the
\* target over its maximum, as long as heartbeats are on time.
THEOREM CapacityCorrect == Spec => []CapacityWhileTimely
<1>1. Init => TimelyInv
  BY TimelyInvInit
<1>2. TypeOK /\ ClaimStateConstraint /\ TimelyInv /\ [Next]_vars => TimelyInv'
  BY TimelyStep DEF TimelyInv
<1>3. TimelyInv => CapacityWhileTimely
  BY DEF TimelyInv, CapacityWhileTimely
<1>4. QED
  BY <1>1, <1>2, <1>3, TypeCorrect, ClaimStateCorrect, PTL DEF Spec

-----------------------------------------------------------------------------
(* The snapshot.                                                           *)

\* Once a worker recorded the runtime metadata of a Run, no other worker's
\* observation replaces it, however late its remote call returns.
THEOREM FirstSnapshotStays == Spec => SnapshotFirstWriteWins
<1>1. ASSUME TypeOK, [Next]_vars, NEW r \in Runs, snapshot[r] # NoExecution
      PROVE  snapshot'[r] = snapshot[r]
  <2> USE DEF rowVars, runVars
  <2>1. ASSUME NEW t \in Threads, RecordRuntimeMetadata(t)
        PROVE  snapshot'[r] = snapshot[r]
    BY <1>1, <2>1 DEF RecordRuntimeMetadata, Recordable, TypeOK
  <2>2. CASE UNCHANGED snapshot
    BY <2>2
  <2>3. QED
    BY <1>1, <2>1, <2>2
    DEF Next, Claim, Reconcile, ThreadStep, Prepare, MarkSubmissionStarted, SubmitQuestion,
        TargetAnswers, CompleteExecution, SetupFails, RefreshClaimLease, TaskEscapes, LeaseExpires,
        DelayElapses, Crash, Stop, Exit, Restart, vars
<1>2. TypeOK /\ [Next]_vars =>
        [\A r \in Runs : snapshot[r] # NoExecution => snapshot'[r] = snapshot[r]]_vars
  BY <1>1
<1>3. QED
  BY <1>2, TypeCorrect, PTL DEF Spec, SnapshotFirstWriteWins

=============================================================================
