---------------------------- MODULE LedgerProofs ----------------------------
(***************************************************************************)
(* WorkerClaims implements ExecutionLedger, for any number of executions,  *)
(* runs, processes and threads.                                            *)
(***************************************************************************)
EXTENDS WorkerClaimsProofs

\* A thread that waits for an answer, or has one, asked the target.
AnsweredAsked ==
  \A t \in Threads :
    task[t].pc = "waiting" \/ (task[t].pc = "answered" /\ task[t].result # "ERROR") =>
      requests[task[t].exec] = 1

-----------------------------------------------------------------------------
(* The invariant behind answers and timeouts.                              *)

\* A step that keeps the requests and brings no thread to an answer keeps the
\* invariant.
LEMMA AnsweredKept ==
  ASSUME TypeOK, AnsweredAsked, UNCHANGED requests,
         \A t \in Threads :
           task'[t].pc = "waiting" \/ (task'[t].pc = "answered" /\ task'[t].result # "ERROR") =>
             task'[t] = task[t]
  PROVE  AnsweredAsked'
BY DEF AnsweredAsked

LEMMA ErrorObserved ==
  ASSUME TypeOK, NEW t \in Threads, Observed(t, "ERROR")
  PROVE  OthersKept(t) /\ task'[t].result = "ERROR"
<1>1. task[t] \in Tasks
  BY DEF TypeOK
<1>2. QED
  BY <1>1 DEF Observed, OthersKept, TypeOK, Tasks

\* A step of thread t that neither asks nor gets an answer.
LEMMA NoAnswer ==
  ASSUME TypeOK, AnsweredAsked, UNCHANGED requests, NEW t \in Threads, OthersKept(t),
         task'[t].pc \notin {"waiting", "answered"} \/ (task'[t].pc = "answered" /\ task'[t].result = "ERROR")
  PROVE  AnsweredAsked'
<1>1. \A u \in Threads :
        task'[u].pc = "waiting" \/ (task'[u].pc = "answered" /\ task'[u].result # "ERROR") =>
          task'[u] = task[u]
  BY DEF OthersKept
<1>2. QED
  BY <1>1, AnsweredKept

\* AnsweredAsked is inductive over the worker's steps.
LEMMA AnsweredStep ==
  ASSUME TypeOK, SubmissionInv, AnsweredAsked, [Next]_vars
  PROVE  AnsweredAsked'
<1> USE DEF rowVars, runVars
<1>1. ASSUME NEW t \in Threads, NEW e \in Executions, Claim(t, e)
      PROVE  AnsweredAsked'
  <2>1. OthersKept(t) /\ task'[t].pc = "claimed"
    BY <1>1 DEF Claim, TypeOK, OthersKept
  <2>2. QED
    BY <1>1, <2>1, NoAnswer DEF Claim
<1>2. ASSUME NEW t \in Threads, Prepare(t)
      PROVE  AnsweredAsked'
  <2>1. CASE Observed(t, "ERROR")
    <3>1. task'[t].pc = "answered"
      BY <1>2, <2>1, ObservedStep DEF Prepare, TerminalOutcomes
    <3>2. QED
      BY <1>2, <2>1, <3>1, ErrorObserved, NoAnswer DEF Prepare
  <2>2. CASE ~Observed(t, "ERROR")
    <3>1. OthersKept(t) /\ task'[t].pc \notin {"waiting", "answered"}
      BY <1>2, <2>2, GoToStep, ReleaseStep DEF Prepare, Pcs
    <3>2. QED
      BY <1>2, <3>1, NoAnswer DEF Prepare
  <2>3. QED
    BY <2>1, <2>2
<1>3. ASSUME NEW t \in Threads, SetupFails(t)
      PROVE  AnsweredAsked'
  <2>1. task'[t].pc = "answered"
    BY <1>3, ObservedStep DEF SetupFails, TerminalOutcomes
  <2>2. QED
    BY <1>3, <2>1, ErrorObserved, NoAnswer DEF SetupFails
<1>4. ASSUME NEW t \in Threads, RecordRuntimeMetadata(t)
      PROVE  AnsweredAsked'
  <2>1. CASE Observed(t, "ERROR")
    <3>1. task'[t].pc = "answered"
      BY <1>4, <2>1, ObservedStep DEF RecordRuntimeMetadata, TerminalOutcomes
    <3>2. QED
      BY <1>4, <2>1, <3>1, ErrorObserved, NoAnswer DEF RecordRuntimeMetadata
  <2>2. CASE ~Observed(t, "ERROR")
    <3>1. OthersKept(t) /\ task'[t].pc \notin {"waiting", "answered"}
      BY <1>4, <2>2, GoToStep DEF RecordRuntimeMetadata, Pcs
    <3>2. QED
      BY <1>4, <3>1, NoAnswer DEF RecordRuntimeMetadata
  <2>3. QED
    BY <2>1, <2>2
<1>5. ASSUME NEW t \in Threads, MarkSubmissionStarted(t)
      PROVE  AnsweredAsked'
  <2>1. OthersKept(t) /\ task'[t].pc \notin {"waiting", "answered"}
    BY <1>5, GoToStep, ReleaseStep DEF MarkSubmissionStarted, Pcs
  <2>2. QED
    BY <1>5, <2>1, NoAnswer DEF MarkSubmissionStarted
<1>6. ASSUME NEW t \in Threads, SubmitQuestion(t)
      PROVE  AnsweredAsked'
  <2> DEFINE e == task[t].exec
  <2>1. e \in Executions /\ requests[e] = 0
    BY <1>6 DEF SubmitQuestion, TypeOK, SubmissionInv
  <2>2. OthersKept(t) /\ ClaimKept(t) /\ task'[t].pc = "waiting"
    BY <1>6, GoToStep DEF SubmitQuestion, Pcs
  <2>3. requests' = [requests EXCEPT ![e] = requests[e] + 1]
    BY <1>6 DEF SubmitQuestion
  <2>4. task'[t].exec = e /\ \A u \in Threads \ {t} : task'[u] = task[u]
    BY <2>2 DEF ClaimKept, OthersKept
  <2> HIDE DEF e
  <2>5. \A f \in Executions : requests'[f] = IF f = e THEN 1 ELSE requests[f]
    BY <2>1, <2>3 DEF TypeOK
  <2>6. \A u \in Threads : task[u].pc # "idle" => task[u].exec \in Executions
    BY DEF TypeOK
  <2>7. QED
    BY <2>4, <2>5, <2>1, <2>6 DEF AnsweredAsked
<1>7. ASSUME NEW t \in Threads, NEW result \in TerminalOutcomes, TargetAnswers(t, result)
      PROVE  AnsweredAsked'
  <2>1. OthersKept(t) /\ ClaimKept(t)
    BY <1>7, ObservedStep DEF TargetAnswers
  <2>2. task[t].pc = "waiting" /\ UNCHANGED requests
    BY <1>7 DEF TargetAnswers
  <2>3. QED
    BY <2>1, <2>2 DEF AnsweredAsked, OthersKept, ClaimKept
<1>8. ASSUME NEW t \in Threads, CompleteExecution(t) \/ TaskEscapes(t)
      PROVE  AnsweredAsked'
  <2>1. OthersKept(t) /\ task'[t].pc = "idle"
    BY <1>8, ReleaseStep DEF CompleteExecution, TaskEscapes
  <2>2. QED
    BY <1>8, <2>1, NoAnswer DEF CompleteExecution, TaskEscapes
<1>9. ASSUME NEW p \in Processes, Crash(p)
      PROVE  AnsweredAsked'
  <2>1. \A t \in Threads : task'[t].pc # "idle" => task'[t] = task[t]
    BY <1>9, IdleTaskIsIdle DEF Crash
  <2>2. QED
    BY <1>9, <2>1, AnsweredKept DEF Crash
<1>10. ASSUME UNCHANGED <<task, requests>>
       PROVE  AnsweredAsked'
  BY <1>10, AnsweredKept
<1>11. QED
  BY <1>1, <1>2, <1>3, <1>4, <1>5, <1>6, <1>7, <1>8, <1>9, <1>10
  DEF Next, ThreadStep, Reconcile, RefreshClaimLease, LeaseExpires, DelayElapses, Stop, Exit,
      Restart, vars

\* No answer and no timeout is observed without a request.
THEOREM AnsweredCorrect == Spec => []AnsweredAsked
<1>1. Init => AnsweredAsked
  BY IdleTaskIsIdle DEF Init, AnsweredAsked
<1>2. QED
  BY <1>1, AnsweredStep, TypeCorrect, SubmissionCorrect, PTL DEF Spec

-----------------------------------------------------------------------------
(* The refinement.                                                         *)

\* The verdict of a run is the one the ledger gives its members: stated for
\* any outcomes and any state of the run that agree as RunAggregation says.
LEMMA VerdictAgrees ==
  ASSUME NEW r \in Runs, NEW out, NEW state, NEW book,
         \A e \in MembersOf(r) : out[e] \in TerminalOutcomes => book[e] = out[e],
         \A e \in MembersOf(r) : out[e] \notin TerminalOutcomes => book[e] \notin TerminalOutcomes,
         state \in TerminalRunStates <=> \A e \in MembersOf(r) : out[e] \in TerminalOutcomes,
         state = "COMPLETED" => \A e \in MembersOf(r) : out[e] = "SUCCESS",
         state = "COMPLETED_WITH_ERRORS" => \E e \in MembersOf(r) : out[e] # "SUCCESS"
  PROVE  (IF state \in TerminalRunStates THEN state ELSE "OPEN") = Ledger!Verdict(book, r)
<1>1. Ledger!Observations = TerminalOutcomes
  BY DEF Ledger!Observations, TerminalOutcomes
<1>2. Ledger!Verdict(book, r) =
        IF \E e \in MembersOf(r) : book[e] \notin TerminalOutcomes THEN "OPEN"
        ELSE IF \A e \in MembersOf(r) : book[e] = "SUCCESS" THEN "COMPLETED"
        ELSE "COMPLETED_WITH_ERRORS"
  BY <1>1 DEF Ledger!Verdict, MembersOf
<1>3. CASE state \in TerminalRunStates
  BY <1>2, <1>3 DEF TerminalRunStates
<1>4. CASE state \notin TerminalRunStates
  BY <1>2, <1>4
<1>5. QED
  BY <1>3, <1>4

LEMMA StatusTerminal ==
  ASSUME TypeOK, NEW e \in Executions
  PROVE  /\ outcome[e] \in TerminalOutcomes => Status(e) = outcome[e]
         /\ outcome[e] \notin TerminalOutcomes => Status(e) \in {"QUEUED", "OWNED", "SENDING"}
BY DEF Status, TypeOK, TerminalOutcomes

LEMMA StatusTerminalNext ==
  ASSUME TypeOK', NEW e \in Executions
  PROVE  /\ outcome'[e] \in TerminalOutcomes => Status(e)' = outcome'[e]
         /\ outcome'[e] \notin TerminalOutcomes => Status(e)' \in {"QUEUED", "OWNED", "SENDING"}
BY DEF Status, TypeOK, TerminalOutcomes

\* A worker's step leaves every run with the verdict of its new ledger.
LEMMA JudgeStep ==
  ASSUME TypeOK', RunAggregation'
  PROVE  Ledger!Judge
<1> DEFINE book == [e \in Executions |-> Status(e)']
<1>1. ASSUME NEW r \in Runs
      PROVE  (IF runState'[r] \in TerminalRunStates THEN runState'[r] ELSE "OPEN") = Ledger!Verdict(book, r)
  <2>1. /\ \A e \in MembersOf(r) : outcome'[e] \in TerminalOutcomes => book[e] = outcome'[e]
        /\ \A e \in MembersOf(r) : outcome'[e] \notin TerminalOutcomes => book[e] \notin TerminalOutcomes
    BY StatusTerminalNext DEF MembersOf, TerminalOutcomes
  <2>2. /\ runState'[r] \in TerminalRunStates <=>
             \A e \in MembersOf(r) : outcome'[e] \in TerminalOutcomes
        /\ runState'[r] = "COMPLETED" => \A e \in MembersOf(r) : outcome'[e] = "SUCCESS"
        /\ runState'[r] = "COMPLETED_WITH_ERRORS" => \E e \in MembersOf(r) : outcome'[e] # "SUCCESS"
    BY DEF RunAggregation
  <2> HIDE DEF book
  <2>3. QED
    BY <2>1, <2>2, VerdictAgrees
<1>2. QED
  BY <1>1 DEF Ledger!Judge

\* The initial states of the worker are initial states of the ledger.
LEMMA LedgerStart ==
  ASSUME TypeOK, RunAggregation, Init
  PROVE  Ledger!LedgerInit
<1> DEFINE book == [e \in Executions |-> Status(e)]
<1>1. \A e \in Executions : Status(e) = IF e \in Legacy THEN "SENDING" ELSE "QUEUED"
  BY DEF Init, Status
<1>2. requests \in [Executions -> {0, 1}] /\ \A e \in Executions \ Legacy : requests[e] = 0
  BY DEF Init
<1>3. ASSUME NEW r \in Runs
      PROVE  (IF runState[r] \in TerminalRunStates THEN runState[r] ELSE "OPEN") = Ledger!Verdict(book, r)
  <2>1. /\ \A e \in MembersOf(r) : outcome[e] \in TerminalOutcomes => book[e] = outcome[e]
        /\ \A e \in MembersOf(r) : outcome[e] \notin TerminalOutcomes => book[e] \notin TerminalOutcomes
    BY StatusTerminal DEF MembersOf, TerminalOutcomes
  <2>2. /\ runState[r] \in TerminalRunStates <=>
             \A e \in MembersOf(r) : outcome[e] \in TerminalOutcomes
        /\ runState[r] = "COMPLETED" => \A e \in MembersOf(r) : outcome[e] = "SUCCESS"
        /\ runState[r] = "COMPLETED_WITH_ERRORS" => \E e \in MembersOf(r) : outcome[e] # "SUCCESS"
    BY DEF RunAggregation
  <2> HIDE DEF book
  <2>3. QED
    BY <2>1, <2>2, VerdictAgrees
<1>4. QED
  BY <1>1, <1>2, <1>3 DEF Ledger!LedgerInit

\* A step that changes no outcome, phase, request or run is a stutter.
LEMMA LedgerStutter ==
  ASSUME UNCHANGED <<outcome, phase, requests, runState>>
  PROVE  UNCHANGED Ledger!ledgerVars
BY DEF Ledger!ledgerVars, Status

\* Every step of the worker is a step of the ledger or a stutter.
LEMMA LedgerStep ==
  ASSUME TypeOK, TypeOK', ClaimStateConstraint, SubmissionInv, AnsweredAsked, RunAggregation',
         [Next]_vars
  PROVE  [Ledger!LedgerNext]_(Ledger!ledgerVars)
<1> USE DEF rowVars, runVars
<1>1. Ledger!Judge
  BY JudgeStep
<1>2. ASSUME NEW t \in Threads, NEW e \in Executions, Claim(t, e)
      PROVE  Ledger!LedgerNext
  <2>1. Status(e) = "QUEUED"
    BY <1>2 DEF Claim, Eligible, Status
  <2>2. \A f \in Executions : Status(f)' = IF f = e THEN "OWNED" ELSE Status(f)
    BY <1>2 DEF Claim, Status, TypeOK
  <2>3. UNCHANGED requests
    BY <1>2 DEF Claim
  <2>4. Ledger!Take(e)
    BY <1>1, <2>1, <2>2, <2>3 DEF Ledger!Take
  <2>5. QED
    BY <2>4 DEF Ledger!LedgerNext
<1>3. ASSUME NEW p \in Processes, NEW S \in SUBSET Executions, Reconcile(p, S)
      PROVE  Ledger!LedgerNext
  <2>1. \A e \in S : e \in Executions /\ outcome[e] = "RUNNING"
    BY <1>3 DEF Reconcile, Stale
  <2>2. \A e \in S : Status(e) = IF SafeToReclaim(e) THEN "OWNED" ELSE "SENDING"
    BY <2>1 DEF Status, SafeToReclaim
  <2>3. \A e \in Executions : Status(e)' =
          IF e \notin S THEN Status(e) ELSE IF Status(e) = "OWNED" THEN "QUEUED" ELSE "ERROR"
    BY <1>3, <2>2 DEF Reconcile, Status
  <2>4. UNCHANGED requests
    BY <1>3 DEF Reconcile
  <2>5. Ledger!Recover(S)
    BY <1>1, <2>2, <2>3, <2>4 DEF Ledger!Recover
  <2>6. QED
    BY <2>5 DEF Ledger!LedgerNext
<1>4. ASSUME NEW t \in Threads, MarkSubmissionStarted(t)
      PROVE  [Ledger!LedgerNext]_(Ledger!ledgerVars)
  <2> DEFINE e == task[t].exec
  <2>1. CASE Owns(t) /\ phase[e] = "CLAIMED"
    <3>1. e \in Executions
      BY <1>4 DEF MarkSubmissionStarted, TypeOK
    <3>2. outcome[e] = "RUNNING" /\ Status(e) = "OWNED"
      BY <2>1 DEF Owns, Status
    <3>3. phase' = [phase EXCEPT ![e] = "SUBMISSION_STARTED"] /\ UNCHANGED <<outcome, requests>>
      BY <1>4, <2>1 DEF MarkSubmissionStarted
    <3> HIDE DEF e
    <3>4. \A f \in Executions : Status(f)' = IF f = e THEN "SENDING" ELSE Status(f)
      BY <3>1, <3>2, <3>3 DEF Status, TypeOK
    <3>5. Ledger!BeginSending(e)
      BY <1>1, <3>1, <3>2, <3>3, <3>4 DEF Ledger!BeginSending
    <3>6. QED
      BY <3>1, <3>5 DEF Ledger!LedgerNext
  <2>2. CASE ~(Owns(t) /\ phase[e] = "CLAIMED")
    BY <1>4, <2>2, LedgerStutter DEF MarkSubmissionStarted
  <2>3. QED
    BY <2>1, <2>2
<1>5. ASSUME NEW t \in Threads, SubmitQuestion(t)
      PROVE  Ledger!LedgerNext
  <2> DEFINE e == task[t].exec
  <2>1. /\ e \in Executions
        /\ phase[e] \notin {"NONE", "CLAIMED"}
        /\ requests[e] = 0
    BY <1>5 DEF SubmitQuestion, TypeOK, SubmissionInv
  <2>2. requests' = [requests EXCEPT ![e] = requests[e] + 1] /\ UNCHANGED <<outcome, phase, runState>>
    BY <1>5 DEF SubmitQuestion
  <2> HIDE DEF e
  <2>3. Status(e) \notin {"QUEUED", "OWNED"}
    BY <2>1 DEF Status, ClaimStateConstraint, TypeOK, TerminalOutcomes
  <2>4. requests' = [requests EXCEPT ![e] = 1]
    BY <2>1, <2>2
  <2>5. Ledger!Ask(e)
    BY <2>1, <2>2, <2>3, <2>4 DEF Ledger!Ask, Status
  <2>6. QED
    BY <2>1, <2>5 DEF Ledger!LedgerNext
<1>6. ASSUME NEW t \in Threads, CompleteExecution(t)
      PROVE  [Ledger!LedgerNext]_(Ledger!ledgerVars)
  <2> DEFINE e == task[t].exec
             q == task[t].result
  <2>1. CASE Owns(t)
    <3>1. /\ e \in Executions
          /\ outcome[e] = "RUNNING"
          /\ q \in TerminalOutcomes
          /\ outcome' = [outcome EXCEPT ![e] = q]
      BY <1>6, <2>1, CompleteEffect
    <3>2. phase' = [phase EXCEPT ![e] = "TERMINAL"] /\ UNCHANGED requests
      BY <1>6, <2>1 DEF CompleteExecution
    <3>3. q = "ERROR" \/ (requests[e] = 1 /\ phase[e] \notin {"NONE", "CLAIMED"})
      BY <1>6, <3>1 DEF CompleteExecution, AnsweredAsked, SubmissionInv
    <3> HIDE DEF e, q
    <3>4. Status(e) \in {"OWNED", "SENDING"} /\ (phase[e] # "CLAIMED" => Status(e) = "SENDING")
      BY <3>1 DEF Status
    <3>5. \A f \in Executions : Status(f)' = IF f = e THEN q ELSE Status(f)
      BY <3>1, <3>2 DEF Status, TypeOK, TerminalOutcomes
    <3>6. Ledger!Observe(e, q)
      BY <1>1, <3>1, <3>2, <3>3, <3>4, <3>5 DEF Ledger!Observe
    <3>7. q \in Ledger!Observations
      BY <3>1 DEF Ledger!Observations, TerminalOutcomes
    <3>8. QED
      BY <3>1, <3>6, <3>7 DEF Ledger!LedgerNext
  <2>2. CASE ~Owns(t)
    BY <1>6, <2>2, LedgerStutter DEF CompleteExecution
  <2>3. QED
    BY <2>1, <2>2
<1>7. ASSUME UNCHANGED <<outcome, phase, requests, runState>>
      PROVE  [Ledger!LedgerNext]_(Ledger!ledgerVars)
  BY <1>7, LedgerStutter
<1>8. QED
  BY <1>2, <1>3, <1>4, <1>5, <1>6, <1>7
  DEF Next, ThreadStep, Prepare, SetupFails, RecordRuntimeMetadata, TargetAnswers, RefreshClaimLease,
      LeaseExpires, DelayElapses, Crash, TaskEscapes, Stop, Exit, Restart, vars

\* The worker implements the ledger, whatever crashes, stalls and recoveries
\* happen and however many workers take part.
THEOREM LedgerImplemented == Spec => ImplementsLedger
<1>1. TypeOK /\ RunAggregation /\ Init => Ledger!LedgerInit
  BY LedgerStart
<1>2. /\ TypeOK /\ TypeOK' /\ ClaimStateConstraint /\ SubmissionInv /\ AnsweredAsked
      /\ RunAggregation' /\ [Next]_vars
      => [Ledger!LedgerNext]_(Ledger!ledgerVars)
  BY LedgerStep
<1>3. QED
  BY <1>1, <1>2, TypeCorrect, ClaimStateCorrect, SubmissionCorrect, AnsweredCorrect,
     AggregationCorrect, PTL
  DEF Spec, ImplementsLedger, Ledger!LedgerSpec

=============================================================================
