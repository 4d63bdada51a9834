-------------------------- MODULE EvaluationProofs --------------------------
(***************************************************************************)
(* Theorems about EvaluationQueue, for any number of subjects, threads and *)
(* invocations, of crashes and of late heartbeats: the types and the       *)
(* check constraint, one result per invocation, the supersession chain, that the *)
(* current result never goes back, and the evaluation ledger.              *)
(***************************************************************************)
EXTENDS EvaluationQueue, SequenceTheorems, FiniteSetTheorems, TLAPS

States == {"NONE", "PENDING", "RUNNING", "COMPLETED"}
Claims == [worker : Processes \cup {NoProcess}, token : Nat]
ResultRows == [id : Ids, supersedes : Nat]
Tasks == [pc : {"idle", "requested", "claimed", "evaluating"}, id : 0..MaxInvocations, token : Nat]

\* The parts of the type invariant that need a step of their own.
TasksOK ==
  /\ task \in [Threads -> Tasks]
  /\ \A t \in Threads : task[t].pc # "idle" => task[t].id \in Ids

RowsOK ==
  /\ state \in [Ids -> States] /\ claim \in [Ids -> Claims]
  /\ attempt \in [Ids -> Nat] /\ leased \in [Ids -> BOOLEAN]

RestOK ==
  /\ terminal \subseteq Executions /\ requested \in 0..MaxInvocations
  /\ subject \in [Ids -> Subjects \cup {NoSubject}]
  /\ results \in Seq(ResultRows)
  /\ up \subseteq Processes /\ stops \in Nat /\ late \in Nat

LEMMA TypeParts == QueueTypeOK <=> TasksOK /\ RowsOK /\ RestOK
BY DEF QueueTypeOK, TasksOK, RowsOK, RestOK, Tasks, States, Claims, ResultRows

LEMMA TypePartsNext == QueueTypeOK' <=> TasksOK' /\ RowsOK' /\ RestOK'
BY DEF QueueTypeOK, TasksOK, RowsOK, RestOK, Tasks, States, Claims, ResultRows

LEMMA IdsAreNatural ==
  /\ MaxInvocations \in Nat
  /\ \A i \in Ids : i \in Nat /\ i # 0 /\ i \in 0..MaxInvocations
  /\ \A n \in 0..MaxInvocations : n < MaxInvocations => n + 1 \in Ids /\ n + 1 \in 0..MaxInvocations
BY QueueAssumption DEF Ids

-----------------------------------------------------------------------------
(* The current result.                                                     *)

LEMMA RowTypes ==
  ASSUME RestOK, NEW n \in DOMAIN results
  PROVE  n \in Nat /\ n # 0 /\ results[n] \in ResultRows /\ results[n].id \in Ids
         /\ results[n].id \in Nat /\ results[n].supersedes \in Nat
<1>1. results \in Seq(ResultRows)
  BY DEF RestOK
<1>2. n \in 1..Len(results) /\ n \in Nat /\ n # 0
  BY <1>1
<1>3. results[n] \in ResultRows
  BY <1>1, <1>2, ElementOfSeq
<1>4. QED
  BY <1>2, <1>3, IdsAreNatural DEF ResultRows

LEMMA NextRowTypes ==
  ASSUME RestOK', NEW n \in DOMAIN results'
  PROVE  results'[n].id \in Nat
<1>1. results' \in Seq(ResultRows)
  BY DEF RestOK
<1>2. n \in 1..Len(results') /\ n \in Nat
  BY <1>1
<1>3. results'[n] \in ResultRows
  BY <1>1, <1>2, ElementOfSeq
<1>4. QED
  BY <1>3, IdsAreNatural DEF ResultRows

\* Exactly the invocations that were requested have a state and a subject.
IdsInOrder ==
  \A i \in Ids : /\ state[i] = "NONE" <=> i > requested
                 /\ i <= requested => subject[i] \in Subjects

\* Of the results of a subject, one has the highest request.
HighestExists ==
  \A s \in Subjects : ResultsOf(s) # {} =>
    \E n \in ResultsOf(s) : \A m \in ResultsOf(s) : results[m].id <= results[n].id

LEMMA CurrentIsHighest ==
  ASSUME HighestExists, NEW s \in Subjects, ResultsOf(s) # {}
  PROVE  /\ CurrentResult(s) \in ResultsOf(s)
         /\ \A m \in ResultsOf(s) : results[m].id <= results[CurrentResult(s)].id
BY DEF HighestExists, CurrentResult

\* What a new result supersedes is the result of the highest request of its
\* subject, unless there is none or it is a later request's.
LEMMA SupersedesFacts ==
  ASSUME RestOK, HighestExists, NEW i \in Ids, subject[i] \in Subjects
  PROVE  /\ Supersedes(i) \in Nat
         /\ Supersedes(i) # 0 =>
              /\ Supersedes(i) \in ResultsOf(subject[i])
              /\ results[Supersedes(i)].id < i
              /\ \A m \in ResultsOf(subject[i]) : results[m].id <= results[Supersedes(i)].id
         /\ Supersedes(i) = 0 =>
              \/ ResultsOf(subject[i]) = {}
              \/ \E m \in ResultsOf(subject[i]) : i <= results[m].id
<1> DEFINE c == CurrentResult(subject[i])
<1>1. CASE ResultsOf(subject[i]) = {}
  BY <1>1 DEF Supersedes, CurrentResult
<1>2. CASE ResultsOf(subject[i]) # {}
  <2>1. c \in ResultsOf(subject[i]) /\ \A m \in ResultsOf(subject[i]) : results[m].id <= results[c].id
    BY <1>2, CurrentIsHighest
  <2>2. c \in Nat /\ c # 0 /\ results[c].id \in Ids
    BY <2>1, RowTypes DEF ResultsOf
  <2>3. Supersedes(i) = IF c # 0 /\ i > results[c].id THEN c ELSE 0
    BY DEF Supersedes
  <2> HIDE DEF c
  <2>4. QED
    BY <2>1, <2>2, <2>3, IdsAreNatural
<1>3. QED
  BY <1>1, <1>2

-----------------------------------------------------------------------------
(* Types.                                                                  *)

\* A thread takes up a new task.
LEMMA TaskGiven ==
  ASSUME TasksOK, NEW t \in Threads, NEW given \in Tasks, given.pc # "idle" => given.id \in Ids,
         task' = [task EXCEPT ![t] = given]
  PROVE  TasksOK'
BY DEF TasksOK

LEMMA TaskReleased ==
  ASSUME TasksOK, NEW t \in Threads, Release(t)
  PROVE  TasksOK'
<1>1. IdleTask \in Tasks /\ IdleTask.pc = "idle"
  BY QueueAssumption DEF IdleTask, Tasks
<1>2. QED
  BY <1>1, TaskGiven DEF Release

LEMMA TaskGivenTo ==
  ASSUME TasksOK, RowsOK, NEW t \in Threads, NEW i \in Ids, GiveTo(t, i)
  PROVE  TasksOK'
<1> DEFINE given == [pc |-> "claimed", id |-> i, token |-> attempt[i] + 1]
<1>1. given \in Tasks /\ given.id \in Ids
  BY IdsAreNatural DEF Tasks, RowsOK
<1>2. task' = [task EXCEPT ![t] = given]
  BY DEF GiveTo
<1> HIDE DEF given
<1>3. QED
  BY <1>1, <1>2, TaskGiven

LEMMA ClaimRowType ==
  ASSUME RowsOK, RestOK, NEW t \in Threads, NEW i \in Ids, ClaimRow(t, i)
  PROVE  RowsOK' /\ RestOK'
<1> DEFINE taken == [worker |-> ProcessOf[t], token |-> attempt[i] + 1]
<1>1. taken \in Claims
  BY QueueAssumption DEF Claims, RowsOK
<1>2. claim' = [claim EXCEPT ![i] = taken]
  BY DEF ClaimRow
<1> HIDE DEF taken
<1>3. QED
  BY <1>1, <1>2 DEF ClaimRow, RowsOK, RestOK, States, queueVars, boundVars

LEMMA EnqueueType ==
  ASSUME RowsOK, RestOK, NEW s \in Subjects, EnqueueInvocation(s)
  PROVE  RowsOK' /\ RestOK' /\ requested + 1 \in Ids
BY IdsAreNatural DEF EnqueueInvocation, RowsOK, RestOK, States, boundVars

LEMMA RunningIsRequested ==
  ASSUME RowsOK, RestOK, IdsInOrder, NEW i \in Ids, state[i] # "NONE"
  PROVE  i <= requested /\ subject[i] \in Subjects
BY IdsAreNatural DEF IdsInOrder, RestOK

LEMMA TypeStep ==
  ASSUME QueueTypeOK, IdsInOrder, HighestExists, [Next]_vars
  PROVE  QueueTypeOK'
<1> USE TypeParts, TypePartsNext
<1>1. CASE UNCHANGED vars
  BY <1>1 DEF TasksOK, RowsOK, RestOK, vars, queueVars, rowVars, boundVars
<1>2. ASSUME NEW x \in Executions \ terminal, ExecutionFinishes(x)
      PROVE  QueueTypeOK'
  BY <1>2 DEF ExecutionFinishes, TasksOK, RowsOK, RestOK, queueVars, rowVars, boundVars
<1>3. ASSUME NEW s \in Subjects, Request(s)
      PROVE  QueueTypeOK'
  BY <1>3, EnqueueType DEF Request, TasksOK
<1>4. ASSUME NEW t \in InlineThreads, NEW s \in Subjects, RequestInline(t, s)
      PROVE  QueueTypeOK'
  <2> DEFINE given == [pc |-> "requested", id |-> requested + 1, token |-> 0]
  <2>1. RowsOK' /\ RestOK' /\ requested + 1 \in Ids
    BY <1>4, EnqueueType DEF RequestInline
  <2>2. given \in Tasks /\ given.id \in Ids /\ t \in Threads
    BY <2>1, IdsAreNatural DEF Tasks, Threads
  <2>3. task' = [task EXCEPT ![t] = given]
    BY <1>4 DEF RequestInline
  <2> HIDE DEF given
  <2>4. QED
    BY <2>1, <2>2, <2>3, TaskGiven
<1>5. ASSUME NEW t \in InlineThreads, ClaimInline(t)
      PROVE  QueueTypeOK'
  <2>1. t \in Threads
    BY DEF Threads
  <2>2. CASE \E i \in Ids :
               ClaimRow(t, i) /\ (IF i = task[t].id THEN GiveTo(t, i) ELSE Release(t))
    BY <2>1, <2>2, ClaimRowType, TaskGivenTo, TaskReleased
  <2>3. CASE Release(t) /\ UNCHANGED <<terminal, queueVars, rowVars, results, up, boundVars>>
    BY <2>1, <2>3, TaskReleased DEF RowsOK, RestOK, queueVars, rowVars, boundVars
  <2>4. QED
    BY <1>5, <2>2, <2>3 DEF ClaimInline
<1>6. ASSUME NEW t \in PoolThreads, NEW i \in Ids, ClaimNextInvocation(t, i)
      PROVE  QueueTypeOK'
  BY <1>6, ClaimRowType, TaskGivenTo DEF ClaimNextInvocation, Threads
<1>7. ASSUME NEW p \in Processes, NEW S \in SUBSET Ids, ReconcileStaleInvocations(p, S)
      PROVE  QueueTypeOK'
  <2>1. NoClaim \in Claims
    BY DEF NoClaim, Claims
  <2>2. QED
    BY <1>7, <2>1 DEF ReconcileStaleInvocations, ClaimsCleared, Requeued, TasksOK, RowsOK, RestOK,
                      States, queueVars, boundVars
<1>8. ASSUME NEW t \in Threads, ProcessInvocation(t)
      PROVE  QueueTypeOK'
  <2>1. RowsOK' /\ RestOK'
    BY <1>8 DEF ProcessInvocation, RowsOK, RestOK, queueVars, rowVars, boundVars
  <2>2. CASE task' = [task EXCEPT ![t].pc = "evaluating"]
    <3> DEFINE given == [task[t] EXCEPT !.pc = "evaluating"]
    <3>1. task[t] \in Tasks /\ task[t].pc = "claimed" /\ task[t].id \in Ids
      BY <1>8 DEF TasksOK, ProcessInvocation
    <3>2. given \in Tasks /\ given.id = task[t].id
      BY <3>1 DEF Tasks
    <3>3. task' = [task EXCEPT ![t] = given]
      BY <2>2
    <3> HIDE DEF given
    <3>4. QED
      BY <2>1, <3>1, <3>2, <3>3, TaskGiven
  <2>3. CASE Release(t)
    BY <2>1, <2>3, TaskReleased
  <2>4. QED
    BY <1>8, <2>2, <2>3 DEF ProcessInvocation
<1>9. ASSUME NEW t \in Threads, AppendResult(t)
      PROVE  QueueTypeOK'
  <2> DEFINE row == [id |-> task[t].id, supersedes |-> Supersedes(task[t].id)]
  <2>1. TasksOK'
    BY <1>9, TaskReleased DEF AppendResult
  <2>2. CASE UNCHANGED <<results, state, leased>>
    BY <1>9, <2>1, <2>2 DEF AppendResult, RowsOK, RestOK, queueVars, boundVars
  <2>3. CASE Owns(t) /\ results' = Append(results, row)
    <3>1. task[t].id \in Ids
      BY <1>9 DEF AppendResult, TasksOK
    <3>2. RowsOK'
      BY <1>9, <3>1 DEF AppendResult, RowsOK, States
    <3>3. row \in ResultRows
      BY <2>3, <3>1, RunningIsRequested, SupersedesFacts DEF Owns, ResultRows
    <3>4. results' \in Seq(ResultRows)
      BY <2>3, <3>3, AppendProperties DEF RestOK
    <3>5. QED
      BY <1>9, <2>1, <3>2, <3>4 DEF AppendResult, RestOK, queueVars, boundVars
  <2>4. QED
    BY <1>9, <2>2, <2>3 DEF AppendResult
<1>10. ASSUME NEW t \in Threads, RefreshInvocationLease(t)
       PROVE  QueueTypeOK'
  BY <1>10 DEF RefreshInvocationLease, TasksOK, RowsOK, RestOK, queueVars, boundVars
<1>11. ASSUME NEW t \in Threads, TaskEscapes(t)
       PROVE  QueueTypeOK'
  BY <1>11, TaskReleased DEF TaskEscapes, RowsOK, RestOK, queueVars, rowVars
<1>12. ASSUME NEW i \in Ids, LeaseExpires(i)
       PROVE  QueueTypeOK'
  BY <1>12 DEF LeaseExpires, TasksOK, RowsOK, RestOK, queueVars
<1>13. ASSUME NEW p \in Processes, Crash(p)
       PROVE  QueueTypeOK'
  <2>1. IdleTask \in Tasks /\ IdleTask.pc = "idle"
    BY QueueAssumption DEF IdleTask, Tasks
  <2>2. TasksOK'
    BY <1>13, <2>1 DEF Crash, TasksOK
  <2>3. QED
    BY <1>13, <2>2 DEF Crash, RowsOK, RestOK, queueVars, rowVars
<1>14. ASSUME NEW p \in Processes, Restart(p)
       PROVE  QueueTypeOK'
  BY <1>14 DEF Restart, TasksOK, RowsOK, RestOK, queueVars, rowVars, boundVars
<1>15. QED
  BY <1>1, <1>2, <1>3, <1>4, <1>5, <1>6, <1>7, <1>8, <1>9, <1>10, <1>11, <1>12, <1>13, <1>14
  DEF Next, ThreadStep

-----------------------------------------------------------------------------
(* The check constraint.                                                   *)

LEMMA ClaimStateStep ==
  ASSUME QueueTypeOK, IdsInOrder, InvocationClaimState, [Next]_vars
  PROVE  InvocationClaimState'
<1> USE TypeParts
<1>1. CASE UNCHANGED <<state, claim>>
  BY <1>1 DEF InvocationClaimState
<1>2. ASSUME NEW s \in Subjects, EnqueueInvocation(s)
      PROVE  InvocationClaimState'
  <2>1. requested + 1 \in Ids /\ state[requested + 1] = "NONE"
    BY <1>2, EnqueueType, IdsAreNatural DEF IdsInOrder, RestOK
  <2>2. claim[requested + 1] = NoClaim /\ claim' = claim
    BY <1>2, <2>1 DEF InvocationClaimState, EnqueueInvocation
  <2>3. state' = [state EXCEPT ![requested + 1] = "PENDING"]
    BY <1>2 DEF EnqueueInvocation
  <2>4. QED
    BY <2>1, <2>2, <2>3 DEF InvocationClaimState, RowsOK
<1>3. ASSUME NEW t \in Threads, NEW i \in Ids, ClaimRow(t, i)
      PROVE  InvocationClaimState'
  <2> DEFINE taken == [worker |-> ProcessOf[t], token |-> attempt[i] + 1]
  <2>1. taken # NoClaim
    BY QueueAssumption DEF NoClaim
  <2>2. claim' = [claim EXCEPT ![i] = taken] /\ state' = [state EXCEPT ![i] = "RUNNING"]
    BY <1>3 DEF ClaimRow
  <2> HIDE DEF taken
  <2>3. QED
    BY <2>1, <2>2 DEF InvocationClaimState, RowsOK
<1>4. ASSUME NEW p \in Processes, NEW S \in SUBSET Ids, ReconcileStaleInvocations(p, S)
      PROVE  InvocationClaimState'
  BY <1>4 DEF ReconcileStaleInvocations, ClaimsCleared, Requeued, InvocationClaimState
<1>5. ASSUME NEW t \in Threads, AppendResult(t)
      PROVE  InvocationClaimState'
  <2>1. task[t].id \in Ids
    BY <1>5 DEF AppendResult, TasksOK
  <2>2. QED
    BY <1>5, <2>1 DEF AppendResult, InvocationClaimState, RowsOK
<1>6. QED
  BY <1>1, <1>2, <1>3, <1>4, <1>5
  DEF Next, ThreadStep, Request, RequestInline, ClaimInline, ClaimNextInvocation, ExecutionFinishes,
      ProcessInvocation, RefreshInvocationLease, TaskEscapes, LeaseExpires, Crash, Restart, Threads,
      vars, rowVars

-----------------------------------------------------------------------------
(* What a step does to the requests and the results.                       *)

\* The owner of an invocation appends its result.
Completes(t) == AppendResult(t) /\ Owns(t)

\* A step that neither requests nor completes an invocation.
QueueKept ==
  /\ UNCHANGED <<requested, subject, results>>
  /\ \A i \in Ids : /\ state'[i] = "NONE" <=> state[i] = "NONE"
                    /\ state'[i] = "COMPLETED" <=> state[i] = "COMPLETED"

LEMMA Shapes ==
  ASSUME QueueTypeOK, [Next]_vars
  PROVE  \/ QueueKept
         \/ \E s \in Subjects : EnqueueInvocation(s)
         \/ \E t \in Threads : Completes(t)
<1> USE TypeParts
<1>1. CASE UNCHANGED <<requested, subject, results, state>>
  BY <1>1 DEF QueueKept
<1>2. ASSUME NEW t \in Threads, NEW i \in Ids, ClaimRow(t, i)
      PROVE  QueueKept
  BY <1>2 DEF ClaimRow, QueueKept, RowsOK, queueVars
<1>3. ASSUME NEW p \in Processes, NEW S \in SUBSET Ids, ReconcileStaleInvocations(p, S)
      PROVE  QueueKept
  BY <1>3 DEF ReconcileStaleInvocations, Requeued, QueueKept, queueVars
<1>4. ASSUME NEW t \in Threads, AppendResult(t)
      PROVE  Completes(t) \/ QueueKept
  BY <1>4 DEF AppendResult, Completes, QueueKept, queueVars
<1>5. QED
  BY <1>1, <1>2, <1>3, <1>4
  DEF Next, ThreadStep, Request, RequestInline, ClaimInline, ClaimNextInvocation, ExecutionFinishes,
      ProcessInvocation, RefreshInvocationLease, TaskEscapes, LeaseExpires, Crash, Restart, Threads,
      vars, queueVars, rowVars

LEMMA OrderStep ==
  ASSUME QueueTypeOK, IdsInOrder, [Next]_vars
  PROVE  IdsInOrder'
<1> USE TypeParts
<1>1. CASE QueueKept
  BY <1>1 DEF QueueKept, IdsInOrder
<1>2. ASSUME NEW s \in Subjects, EnqueueInvocation(s)
      PROVE  IdsInOrder'
  <2>1. requested \in Nat /\ requested + 1 \in Ids
    BY <1>2, EnqueueType DEF RestOK
  <2>2. /\ requested' = requested + 1
        /\ subject' = [subject EXCEPT ![requested + 1] = s]
        /\ state' = [state EXCEPT ![requested + 1] = "PENDING"]
    BY <1>2 DEF EnqueueInvocation
  <2>3. ASSUME NEW i \in Ids
        PROVE  /\ state'[i] = "NONE" <=> i > requested'
               /\ i <= requested' => subject'[i] \in Subjects
    BY <2>1, <2>2, IdsAreNatural DEF IdsInOrder, RowsOK, RestOK
  <2>4. QED
    BY <2>3 DEF IdsInOrder
<1>3. ASSUME NEW t \in Threads, Completes(t)
      PROVE  IdsInOrder'
  <2>1. /\ UNCHANGED <<requested, subject>>
        /\ state' = [state EXCEPT ![task[t].id] = "COMPLETED"] /\ state[task[t].id] = "RUNNING"
    BY <1>3 DEF Completes, AppendResult, Owns, queueVars
  <2>2. QED
    BY <2>1 DEF IdsInOrder, RowsOK
<1>4. QED
  BY <1>1, <1>2, <1>3, Shapes

\* Results belong to completed invocations, one to each.
ResultInv ==
  /\ \A n \in DOMAIN results : state[results[n].id] = "COMPLETED"
  /\ \A n, m \in DOMAIN results : results[n].id = results[m].id => n = m
  /\ \A i \in Ids : state[i] = "COMPLETED" => \E n \in DOMAIN results : results[n].id = i

\* The results as the completion of invocation i leaves them.
Appended(i) ==
  LET last == Len(results) + 1
  IN  /\ last \in Nat /\ last # 0
      /\ DOMAIN results = 1..Len(results) /\ DOMAIN results' = DOMAIN results \cup {last}
      /\ \A n \in DOMAIN results : n \in Nat /\ n < last /\ results'[n] = results[n]
      /\ results'[last].id = i /\ results'[last].supersedes = Supersedes(i)

LEMMA CompletesStep ==
  ASSUME QueueTypeOK, IdsInOrder, HighestExists, NEW t \in Threads, Completes(t)
  PROVE  /\ task[t].id \in Ids /\ subject[task[t].id] \in Subjects
         /\ state[task[t].id] = "RUNNING" /\ state' = [state EXCEPT ![task[t].id] = "COMPLETED"]
         /\ UNCHANGED <<requested, subject>>
         /\ Appended(task[t].id)
<1> USE TypeParts
<1> DEFINE i == task[t].id
           row == [id |-> i, supersedes |-> Supersedes(i)]
<1>1. /\ i \in Ids /\ state[i] = "RUNNING" /\ state' = [state EXCEPT ![i] = "COMPLETED"]
      /\ UNCHANGED <<requested, subject>> /\ results' = Append(results, row)
  BY DEF Completes, AppendResult, Owns, TasksOK, queueVars
<1>2. subject[i] \in Subjects
  BY <1>1, RunningIsRequested
<1>3. row \in ResultRows /\ row.id = i /\ row.supersedes = Supersedes(i)
  BY <1>1, <1>2, SupersedesFacts DEF ResultRows
<1> HIDE DEF row
<1>4. results \in Seq(ResultRows) /\ results' \in Seq(ResultRows)
  BY <1>1, <1>3, AppendProperties DEF RestOK
<1>5. /\ Len(results') = Len(results) + 1
      /\ \A n \in 1..Len(results) : results'[n] = results[n]
      /\ results'[Len(results) + 1] = row
  BY <1>1, <1>3, <1>4, AppendProperties
<1>6. Len(results) \in Nat /\ DOMAIN results = 1..Len(results) /\ DOMAIN results' = 1..Len(results')
  BY <1>4
<1>7. Appended(i)
  BY <1>3, <1>5, <1>6 DEF Appended
<1>8. QED
  BY <1>1, <1>2, <1>7

\* A result, once appended, stays what it is, and so does its subject.
LEMMA ResultsStay ==
  ASSUME QueueTypeOK, IdsInOrder, HighestExists, ResultInv, [Next]_vars, NEW n \in DOMAIN results
  PROVE  /\ n \in DOMAIN results' /\ results'[n] = results[n]
         /\ results[n].id \in Ids
         /\ subject'[results[n].id] = subject[results[n].id]
         /\ subject[results[n].id] \in Subjects
<1> USE TypeParts
<1>1. results[n].id \in Ids /\ state[results[n].id] = "COMPLETED"
  BY RowTypes DEF ResultInv
<1>2. subject[results[n].id] \in Subjects /\ results[n].id <= requested
  BY <1>1, RunningIsRequested
<1>3. CASE QueueKept
  BY <1>1, <1>2, <1>3 DEF QueueKept
<1>4. ASSUME NEW s \in Subjects, EnqueueInvocation(s)
      PROVE  results' = results /\ subject'[results[n].id] = subject[results[n].id]
  <2>1. results[n].id # requested + 1
    BY <1>1, <1>2, IdsAreNatural DEF RestOK
  <2>2. QED
    BY <1>1, <1>4, <2>1 DEF EnqueueInvocation, RestOK
<1>5. ASSUME NEW t \in Threads, Completes(t)
      PROVE  n \in DOMAIN results' /\ results'[n] = results[n] /\ subject' = subject
  BY <1>5, CompletesStep DEF Appended
<1>6. QED
  BY <1>1, <1>2, <1>3, <1>4, <1>5, Shapes

LEMMA ResultStep ==
  ASSUME QueueTypeOK, IdsInOrder, HighestExists, ResultInv, [Next]_vars
  PROVE  ResultInv'
<1> USE TypeParts
<1>1. CASE QueueKept
  <2>1. \A n \in DOMAIN results : results[n].id \in Ids
    BY RowTypes
  <2>2. QED
    BY <1>1, <2>1 DEF QueueKept, ResultInv
<1>2. ASSUME NEW s \in Subjects, EnqueueInvocation(s)
      PROVE  ResultInv'
  <2>1. requested + 1 \in Ids /\ state[requested + 1] = "NONE"
    BY <1>2, EnqueueType, IdsAreNatural DEF IdsInOrder, RestOK
  <2>2. results' = results /\ state' = [state EXCEPT ![requested + 1] = "PENDING"]
    BY <1>2 DEF EnqueueInvocation
  <2>3. \A n \in DOMAIN results : results[n].id \in Ids
    BY RowTypes
  <2>4. QED
    BY <2>1, <2>2, <2>3 DEF ResultInv, RowsOK
<1>3. ASSUME NEW t \in Threads, Completes(t)
      PROVE  ResultInv'
  <2> DEFINE i == task[t].id
             last == Len(results) + 1
  <2>1. /\ i \in Ids /\ state[i] = "RUNNING" /\ state' = [state EXCEPT ![i] = "COMPLETED"]
        /\ DOMAIN results' = DOMAIN results \cup {last}
        /\ \A n \in DOMAIN results : results'[n] = results[n]
        /\ results'[last].id = i
    BY <1>3, CompletesStep DEF Appended
  <2>2. \A n \in DOMAIN results : results[n].id \in Ids /\ results[n].id # i
    BY <2>1, RowTypes DEF ResultInv
  <2> HIDE DEF i, last
  <2>3. \A n \in DOMAIN results' : state'[results'[n].id] = "COMPLETED"
    BY <2>1, <2>2 DEF ResultInv, RowsOK
  <2>4. \A n, m \in DOMAIN results' : results'[n].id = results'[m].id => n = m
    BY <2>1, <2>2 DEF ResultInv
  <2>5. \A j \in Ids : state'[j] = "COMPLETED" => \E n \in DOMAIN results' : results'[n].id = j
    BY <2>1, <2>2 DEF ResultInv, RowsOK
  <2>6. QED
    BY <2>3, <2>4, <2>5 DEF ResultInv
<1>4. QED
  BY <1>1, <1>2, <1>3, Shapes

\* The results of a subject grow by at most the one that is appended.
LEMMA ResultsOfStep ==
  ASSUME QueueTypeOK, IdsInOrder, HighestExists, ResultInv, [Next]_vars, NEW s \in Subjects
  PROVE  \/ results' = results /\ ResultsOf(s)' = ResultsOf(s)
         \/ \E t \in Threads :
              /\ Completes(t)
              /\ s # subject[task[t].id] => ResultsOf(s)' = ResultsOf(s)
              /\ s = subject[task[t].id] => ResultsOf(s)' = ResultsOf(s) \cup {Len(results) + 1}
<1>1. CASE results' = results
  BY <1>1, ResultsStay DEF ResultsOf
<1>2. ASSUME NEW t \in Threads, Completes(t)
      PROVE  /\ s # subject[task[t].id] => ResultsOf(s)' = ResultsOf(s)
             /\ s = subject[task[t].id] => ResultsOf(s)' = ResultsOf(s) \cup {Len(results) + 1}
  <2> DEFINE i == task[t].id
             last == Len(results) + 1
  <2>1. /\ subject' = subject
        /\ DOMAIN results' = DOMAIN results \cup {last}
        /\ \A n \in DOMAIN results : results'[n] = results[n]
        /\ results'[last].id = i
    BY <1>2, CompletesStep DEF Appended
  <2> HIDE DEF i, last
  <2>2. ResultsOf(s)' = {n \in DOMAIN results \cup {last} : subject[results'[n].id] = s}
    BY <2>1 DEF ResultsOf
  <2>3. s # subject[i] => ResultsOf(s)' = ResultsOf(s)
    BY <2>1, <2>2 DEF ResultsOf
  <2>4. s = subject[i] => ResultsOf(s)' = ResultsOf(s) \cup {last}
    BY <2>1, <2>2 DEF ResultsOf
  <2>5. QED
    BY <2>3, <2>4 DEF i, last
<1>3. QED
  BY <1>1, <1>2, Shapes DEF QueueKept, EnqueueInvocation

LEMMA HighestStep ==
  ASSUME QueueTypeOK, IdsInOrder, HighestExists, ResultInv, [Next]_vars
  PROVE  HighestExists'
<1> SUFFICES ASSUME NEW s \in Subjects, ResultsOf(s)' # {}
             PROVE  \E n \in ResultsOf(s)' : \A m \in ResultsOf(s)' : results'[m].id <= results'[n].id
  BY DEF HighestExists
<1>1. CASE results' = results /\ ResultsOf(s)' = ResultsOf(s)
  BY <1>1 DEF HighestExists
<1>2. ASSUME NEW t \in Threads, Completes(t),
             s # subject[task[t].id], ResultsOf(s)' = ResultsOf(s)
      PROVE  \E n \in ResultsOf(s)' : \A m \in ResultsOf(s)' : results'[m].id <= results'[n].id
  <2>1. \A n \in ResultsOf(s) : results'[n] = results[n]
    BY ResultsStay DEF ResultsOf
  <2>2. QED
    BY <1>2, <2>1 DEF HighestExists
<1>3. ASSUME NEW t \in Threads, Completes(t),
             s = subject[task[t].id], ResultsOf(s)' = ResultsOf(s) \cup {Len(results) + 1}
      PROVE  \E n \in ResultsOf(s)' : \A m \in ResultsOf(s)' : results'[m].id <= results'[n].id
  <2> DEFINE last == Len(results) + 1
  <2>1. results'[last].id \in Nat
    BY <1>3, CompletesStep, IdsAreNatural DEF Appended
  <2>2. \A n \in ResultsOf(s) : results'[n] = results[n] /\ results'[n].id \in Nat
    BY ResultsStay, IdsAreNatural DEF ResultsOf
  <2> HIDE DEF last
  <2>3. CASE ResultsOf(s) = {}
    BY <1>3, <2>1, <2>3 DEF last
  <2>4. CASE ResultsOf(s) # {}
    <3>1. PICK n \in ResultsOf(s) : \A m \in ResultsOf(s) : results[m].id <= results[n].id
      BY <2>4 DEF HighestExists
    <3>2. \A m \in ResultsOf(s) : results'[m].id <= results'[n].id
      BY <2>2, <3>1
    <3>3. CASE results'[last].id <= results'[n].id
      BY <1>3, <3>2, <3>3 DEF last
    <3>4. CASE ~(results'[last].id <= results'[n].id)
      <4>1. \A m \in ResultsOf(s) : results'[m].id <= results'[last].id
        BY <2>1, <2>2, <3>2, <3>4
      <4>2. QED
        BY <1>3, <2>1, <4>1 DEF last
    <3>5. QED
      BY <3>3, <3>4
  <2>5. QED
    BY <2>3, <2>4
<1>4. QED
  BY <1>1, <1>2, <1>3, ResultsOfStep

\* The types, the requests and the results together.
QueueInv == QueueTypeOK /\ IdsInOrder /\ HighestExists /\ ResultInv

LEMMA QueueInvInit == Init => QueueInv
<1> SUFFICES ASSUME Init PROVE QueueInv
  OBVIOUS
<1> USE TypeParts DEF Init
<1>1. TasksOK
  BY QueueAssumption DEF TasksOK, Tasks, IdleTask
<1>2. RowsOK
  BY DEF RowsOK, States, Claims, NoClaim
<1>3. RestOK
  BY QueueAssumption DEF RestOK
<1>4. IdsInOrder
  BY IdsAreNatural DEF IdsInOrder, Ids
<1>5. HighestExists /\ ResultInv
  BY DEF HighestExists, ResultsOf, ResultInv
<1>6. QED
  BY <1>1, <1>2, <1>3, <1>4, <1>5 DEF QueueInv

LEMMA QueueInvStep ==
  ASSUME QueueInv, [Next]_vars
  PROVE  QueueInv'
BY TypeStep, OrderStep, HighestStep, ResultStep DEF QueueInv

-----------------------------------------------------------------------------
(* Theorems about the rows.                                                *)

\* Every variable of the evaluation queue keeps its type, and the result that
\* a new one supersedes is always a row number.
THEOREM QueueTypeCorrect == Spec => []QueueTypeOK
<1>1. QueueInv => QueueTypeOK
  BY DEF QueueInv
<1>2. QED
  BY <1>1, QueueInvInit, QueueInvStep, PTL DEF Spec

\* The check constraint of the invocation table holds after every
\* transaction: claims, requeueing and completion clear and set the claim
\* columns as the state requires.
THEOREM InvocationClaims == Spec => []InvocationClaimState
<1>1. Init => InvocationClaimState
  BY DEF Init, InvocationClaimState
<1>2. QueueInv /\ InvocationClaimState /\ [Next]_vars => QueueInv' /\ InvocationClaimState'
  BY QueueInvStep, ClaimStateStep DEF QueueInv
<1>3. QED
  BY <1>1, <1>2, QueueInvInit, PTL DEF Spec

\* However often an invocation is requeued and evaluated again, it has one
\* result when it is completed, and none before.
THEOREM OneResult == Spec => []OneResultPerInvocation
<1>1. ASSUME QueueInv, NEW i \in Ids
      PROVE  Cardinality({n \in DOMAIN results : results[n].id = i})
             = (IF state[i] = "COMPLETED" THEN 1 ELSE 0)
  <2> DEFINE R == {n \in DOMAIN results : results[n].id = i}
  <2>1. CASE state[i] = "COMPLETED"
    <3>1. PICK n \in DOMAIN results : results[n].id = i
      BY <1>1, <2>1 DEF QueueInv, ResultInv
    <3>2. R = {n}
      BY <1>1, <3>1 DEF QueueInv, ResultInv
    <3>3. QED
      BY <2>1, <3>2, FS_Singleton
  <2>2. CASE state[i] # "COMPLETED"
    <3>1. R = {}
      BY <1>1, <2>2 DEF QueueInv, ResultInv
    <3>2. QED
      BY <2>2, <3>1, FS_EmptySet
  <2>3. QED
    BY <2>1, <2>2
<1>2. QueueInv => OneResultPerInvocation
  BY <1>1 DEF OneResultPerInvocation
<1>3. QED
  BY <1>2, QueueInvInit, QueueInvStep, PTL DEF Spec

-----------------------------------------------------------------------------
(* The current result and the chain.                                       *)

\* CurrentIsHighest of the next state.
LEMMA NextIsHighest ==
  ASSUME HighestExists', NEW s \in Subjects, ResultsOf(s)' # {}
  PROVE  /\ CurrentResult(s)' \in ResultsOf(s)'
         /\ \A m \in ResultsOf(s)' : results'[m].id <= results'[CurrentResult(s)'].id
BY DEF HighestExists, CurrentResult

\* The result a reader sees as current never goes back to an earlier request,
\* in whatever order, and in whatever process, the evaluators finish.
THEOREM CurrentAdvances == Spec => CurrentNeverGoesBack
<1>1. ASSUME QueueInv, [Next]_vars, NEW s \in Subjects, CurrentResult(s) # 0
      PROVE  results'[CurrentResult(s)'].id >= results[CurrentResult(s)].id
  <2> DEFINE c == CurrentResult(s)
  <2>1. ResultsOf(s) # {}
    BY <1>1 DEF CurrentResult
  <2>2. c \in ResultsOf(s)
    BY <1>1, <2>1, CurrentIsHighest DEF QueueInv
  <2>3. c \in DOMAIN results /\ subject[results[c].id] = s
    BY <2>2 DEF ResultsOf
  <2> HIDE DEF c
  <2>4. c \in ResultsOf(s)' /\ results'[c] = results[c]
    BY <1>1, <2>3, ResultsStay DEF QueueInv, ResultsOf
  <2>5. /\ CurrentResult(s)' \in ResultsOf(s)'
        /\ results'[c].id <= results'[CurrentResult(s)'].id
    BY <1>1, <2>4, QueueInvStep, NextIsHighest DEF QueueInv
  <2>6. results'[CurrentResult(s)'].id \in Nat /\ results[c].id \in Nat
    <3>1. RestOK /\ RestOK'
      BY <1>1, QueueInvStep, TypeParts, TypePartsNext DEF QueueInv
    <3>2. QED
      BY <2>3, <2>5, <3>1, RowTypes, NextRowTypes DEF ResultsOf
  <2>7. QED
    BY <2>4, <2>5, <2>6 DEF c
<1>2. QueueInv /\ [Next]_vars =>
        [\A s \in Subjects : CurrentResult(s) # 0 =>
           results'[CurrentResult(s)'].id >= results[CurrentResult(s)].id]_vars
  BY <1>1
<1>3. QED
  BY <1>2, QueueInvInit, QueueInvStep, PTL DEF Spec, CurrentNeverGoesBack

SameSubject(n, m) == subject[results[n].id] = subject[results[m].id]

\* A result supersedes an earlier row of an earlier request of its subject.
LinkInv ==
  \A n \in DOMAIN results : results[n].supersedes # 0 =>
    /\ results[n].supersedes \in DOMAIN results /\ results[n].supersedes < n
    /\ results[results[n].supersedes].id < results[n].id
    /\ SameSubject(n, results[n].supersedes)

\* No two results supersede the same one.
OnceInv ==
  \A n, m \in DOMAIN results :
    results[n].supersedes # 0 /\ results[n].supersedes = results[m].supersedes => n = m

Superseded(n) == \E m \in DOMAIN results : results[m].supersedes = n
Overtaken(n) == \E m \in DOMAIN results : m < n /\ results[m].id > results[n].id /\ SameSubject(n, m)
Highest(n) == \A m \in DOMAIN results : SameSubject(n, m) => results[m].id <= results[n].id

TailInv == \A n \in DOMAIN results : Superseded(n) \/ Overtaken(n) \/ Highest(n)

ChainInv == LinkInv /\ OnceInv /\ TailInv

LEMMA ChainKept ==
  ASSUME QueueInv, ChainInv, [Next]_vars, results' = results
  PROVE  ChainInv'
<1>1. \A n \in DOMAIN results : subject'[results[n].id] = subject[results[n].id]
  BY ResultsStay DEF QueueInv
<1>2. LinkInv'
  BY <1>1 DEF ChainInv, LinkInv, SameSubject
<1>3. OnceInv'
  BY DEF ChainInv, OnceInv
<1>4. TailInv'
  BY <1>1 DEF ChainInv, TailInv, Superseded, Overtaken, Highest, SameSubject
<1>5. QED
  BY <1>2, <1>3, <1>4 DEF ChainInv

LEMMA ChainExtended ==
  ASSUME QueueInv, ChainInv, NEW t \in Threads, Completes(t)
  PROVE  ChainInv'
<1> DEFINE i == task[t].id
           p == Supersedes(i)
           s == subject[i]
<1>0. PICK last : last = Len(results) + 1
  OBVIOUS
<1>1. /\ i \in Ids /\ s \in Subjects /\ state[i] = "RUNNING"
      /\ subject' = subject /\ last \in Nat /\ last # 0
      /\ DOMAIN results' = DOMAIN results \cup {last}
      /\ \A n \in DOMAIN results : n \in Nat /\ n < last /\ results'[n] = results[n]
      /\ results'[last].id = i /\ results'[last].supersedes = p
  BY <1>0, CompletesStep DEF QueueInv, Appended
<1>2. RestOK
  BY TypeParts DEF QueueInv
<1>3. /\ p \in Nat
      /\ p # 0 => /\ p \in DOMAIN results /\ subject[results[p].id] = s /\ results[p].id < i
                  /\ \A m \in DOMAIN results : subject[results[m].id] = s => results[m].id <= results[p].id
      /\ p = 0 => \/ \A m \in DOMAIN results : subject[results[m].id] # s
                  \/ \E m \in DOMAIN results : subject[results[m].id] = s /\ i <= results[m].id
  BY <1>1, <1>2, SupersedesFacts DEF QueueInv, ResultsOf
<1>4. \A n \in DOMAIN results : /\ results[n].id \in Nat /\ results[n].id # i
                                /\ results[n].supersedes \in Nat
  BY <1>1, <1>2, RowTypes DEF QueueInv, ResultInv
<1>5. i \in Nat
  BY <1>1, IdsAreNatural
<1> HIDE DEF i, p, s
<1>6. LinkInv'
  <2>1. ASSUME NEW n \in DOMAIN results, results'[n].supersedes # 0
        PROVE  /\ results'[n].supersedes \in DOMAIN results' /\ results'[n].supersedes < n
               /\ results'[results'[n].supersedes].id < results'[n].id
               /\ subject'[results'[n].id] = subject'[results'[results'[n].supersedes].id]
    BY <1>1, <2>1 DEF ChainInv, LinkInv, SameSubject
  <2>2. ASSUME results'[last].supersedes # 0
        PROVE  /\ p \in DOMAIN results' /\ p < last
               /\ results'[p].id < results'[last].id
               /\ subject'[results'[last].id] = subject'[results'[p].id]
    BY <1>1, <1>3, <2>2 DEF s
  <2>3. QED
    BY <1>1, <2>1, <2>2 DEF LinkInv, SameSubject
<1>7. OnceInv'
  <2>1. ASSUME NEW n \in DOMAIN results, p # 0, results[n].supersedes = p
        PROVE  FALSE
    <3>1. results[p].id < results[n].id /\ subject[results[n].id] = s
      BY <1>3, <2>1 DEF ChainInv, LinkInv, SameSubject
    <3>2. QED
      BY <1>3, <1>4, <2>1, <3>1
  <2>2. QED
    BY <1>1, <2>1 DEF ChainInv, OnceInv
<1>8. TailInv'
  <2>1. ASSUME NEW n \in DOMAIN results
        PROVE  Superseded(n)' \/ Overtaken(n)' \/ Highest(n)'
    <3>1. CASE Superseded(n)
      BY <1>1, <3>1 DEF Superseded
    <3>2. CASE Overtaken(n)
      BY <1>1, <3>2 DEF Overtaken, SameSubject
    <3>3. ASSUME Highest(n), p # 0, n = p
          PROVE  Superseded(n)'
      BY <1>1, <3>3 DEF Superseded
    <3>4. ASSUME Highest(n), subject[results[n].id] # s \/ i <= results[n].id
          PROVE  Highest(n)'
      BY <1>1, <3>4 DEF Highest, SameSubject, s
    <3>5. ASSUME Highest(n), subject[results[n].id] = s, p # 0
          PROVE  n = p
      <4>1. results[p].id <= results[n].id /\ results[n].id <= results[p].id
        BY <1>3, <3>5 DEF Highest, SameSubject
      <4>2. results[p].id = results[n].id
        BY <1>3, <1>4, <3>5, <4>1
      <4>3. QED
        BY <1>3, <3>5, <4>2 DEF QueueInv, ResultInv
    <3>6. ASSUME Highest(n), subject[results[n].id] = s, p = 0
          PROVE  i <= results[n].id
      <4>1. PICK m \in DOMAIN results : subject[results[m].id] = s /\ i <= results[m].id
        BY <1>3, <3>6
      <4>2. results[m].id <= results[n].id
        BY <3>6, <4>1 DEF Highest, SameSubject
      <4>3. QED
        BY <1>4, <1>5, <4>1, <4>2
    <3>7. QED
      BY <3>1, <3>2, <3>3, <3>4, <3>5, <3>6 DEF ChainInv, TailInv
  <2>2. Overtaken(last)' \/ Highest(last)'
    <3>1. ASSUME NEW m \in DOMAIN results, subject[results[m].id] = s, i <= results[m].id
          PROVE  Overtaken(last)'
      <4>1. m \in DOMAIN results' /\ m < last /\ results'[m].id > results'[last].id
        BY <1>1, <1>4, <1>5, <3>1
      <4>2. subject'[results'[last].id] = subject'[results'[m].id]
        BY <1>1, <3>1 DEF s
      <4>3. QED
        BY <4>1, <4>2 DEF Overtaken, SameSubject
    <3>2. ASSUME \A m \in DOMAIN results : subject[results[m].id] = s => results[m].id <= i
          PROVE  Highest(last)'
      <4>1. \A m \in DOMAIN results' : subject'[results'[last].id] = subject'[results'[m].id] =>
                                       results'[m].id <= results'[last].id
        BY <1>1, <1>5, <3>2 DEF s
      <4>2. QED
        BY <4>1 DEF Highest, SameSubject
    <3>3. CASE p # 0
      <4>1. \A m \in DOMAIN results : subject[results[m].id] = s => results[m].id <= i
        BY <1>3, <1>4, <1>5, <3>3
      <4>2. QED
        BY <3>2, <4>1
    <3>4. CASE p = 0
      BY <1>3, <3>1, <3>2, <3>4
    <3>5. QED
      BY <3>3, <3>4
  <2>3. QED
    BY <1>1, <2>1, <2>2 DEF TailInv
<1>9. QED
  BY <1>6, <1>7, <1>8 DEF ChainInv

LEMMA ChainStep ==
  ASSUME QueueInv, ChainInv, [Next]_vars
  PROVE  ChainInv'
BY ChainKept, ChainExtended, Shapes DEF QueueInv, QueueKept, EnqueueInvocation

\* The chain of results tells the history of every subject: nothing is
\* superseded twice, only by a later request of the same subject, and what is
\* neither superseded nor current had been overtaken when it arrived.
THEOREM ChainSound == Spec => []SupersessionChain
<1>1. Init => ChainInv
  BY DEF Init, ChainInv, LinkInv, OnceInv, TailInv
<1>2. QueueInv /\ ChainInv /\ [Next]_vars => QueueInv' /\ ChainInv'
  BY QueueInvStep, ChainStep
<1>3. ASSUME QueueInv, ChainInv, NEW n \in DOMAIN results
      PROVE  LET s == subject[results[n].id]
                 by == {m \in DOMAIN results : results[m].supersedes = n}
             IN  /\ Cardinality(by) <= 1
                 /\ \A m \in by : m > n /\ results[m].id > results[n].id /\ subject[results[m].id] = s
                 /\ by = {} => \/ n = CurrentResult(s)
                               \/ \E m \in ResultsOf(s) : m < n /\ results[m].id > results[n].id
  <2> DEFINE s == subject[results[n].id]
             by == {m \in DOMAIN results : results[m].supersedes = n}
  <2>1. RestOK /\ IdsInOrder
    BY <1>3, TypeParts DEF QueueInv
  <2>2. /\ n \in Nat /\ n # 0
        /\ \A m \in DOMAIN results : m \in Nat /\ results[m].id \in Nat /\ results[m].id \in Ids
    BY <1>3, <2>1, RowTypes
  <2>3. Cardinality(by) <= 1
    <3>1. CASE by = {}
      BY <3>1, FS_EmptySet
    <3>2. CASE by # {}
      <4>1. PICK m \in DOMAIN results : results[m].supersedes = n
        BY <3>2
      <4>2. by = {m}
        BY <1>3, <2>2, <4>1 DEF ChainInv, OnceInv
      <4> HIDE DEF by
      <4>3. Cardinality(by) = 1
        BY <4>2, FS_Singleton
      <4>4. QED
        BY <4>3
    <3>3. QED
      BY <3>1, <3>2
  <2>4. ASSUME NEW m \in by
        PROVE  m > n /\ results[m].id > results[n].id /\ subject[results[m].id] = s
    BY <1>3, <2>2, <2>4 DEF ChainInv, LinkInv, SameSubject
  <2>5. ASSUME by = {}
        PROVE  n = CurrentResult(s) \/ \E m \in ResultsOf(s) : m < n /\ results[m].id > results[n].id
    <3>1. CASE Overtaken(n)
      BY <3>1 DEF Overtaken, SameSubject, ResultsOf
    <3>2. CASE Highest(n)
      <4> DEFINE c == CurrentResult(s)
      <4>1. s \in Subjects
        BY <1>3, <2>1, <2>2, RunningIsRequested, TypeParts DEF QueueInv, ResultInv
      <4>2. n \in ResultsOf(s)
        BY <1>3 DEF ResultsOf
      <4>3. c \in ResultsOf(s) /\ results[n].id <= results[c].id
        BY <1>3, <4>1, <4>2, CurrentIsHighest DEF QueueInv
      <4> HIDE DEF c
      <4>4. c \in DOMAIN results /\ results[c].id <= results[n].id
        BY <3>2, <4>3 DEF ResultsOf, Highest, SameSubject
      <4>5. results[c].id = results[n].id
        BY <2>2, <1>3, <4>3, <4>4
      <4>6. QED
        BY <1>3, <4>4, <4>5 DEF QueueInv, ResultInv, c
    <3>3. QED
      BY <1>3, <2>5, <3>1, <3>2 DEF ChainInv, TailInv, Superseded
  <2>6. QED
    BY <2>3, <2>4, <2>5
<1>4. QueueInv /\ ChainInv => SupersessionChain
  BY <1>3 DEF SupersessionChain
<1>5. QED
  BY <1>1, <1>2, <1>4, QueueInvInit, PTL DEF Spec

-----------------------------------------------------------------------------
(* The evaluation ledger.                                                  *)

\* The result with the highest request of its subject is the one that shows.
LEMMA RequestShown ==
  ASSUME QueueInv, NEW s \in Subjects, NEW n \in ResultsOf(s),
         \A m \in ResultsOf(s) : results[m].id <= results[n].id
  PROVE  CurrentRequest(s) = results[n].id
<1> DEFINE c == CurrentResult(s)
<1>1. c \in ResultsOf(s) /\ \A m \in ResultsOf(s) : results[m].id <= results[c].id
  BY CurrentIsHighest DEF QueueInv
<1>2. CurrentRequest(s) = IF c = 0 THEN 0 ELSE results[c].id
  BY DEF CurrentRequest
<1> HIDE DEF c
<1>3. RestOK
  BY TypeParts DEF QueueInv
<1>4. c # 0 /\ results[c].id \in Nat /\ results[n].id \in Nat
  BY <1>1, <1>3, RowTypes DEF ResultsOf
<1>5. QED
  BY <1>1, <1>2, <1>4

\* RequestShown of the next state.
LEMMA NextRequestShown ==
  ASSUME QueueInv', NEW s \in Subjects, NEW n \in ResultsOf(s)',
         \A m \in ResultsOf(s)' : results'[m].id <= results'[n].id
  PROVE  CurrentRequest(s)' = results'[n].id
<1> DEFINE c == CurrentResult(s)'
<1>1. c \in ResultsOf(s)' /\ \A m \in ResultsOf(s)' : results'[m].id <= results'[c].id
  BY NextIsHighest DEF QueueInv
<1>2. CurrentRequest(s)' = IF c = 0 THEN 0 ELSE results'[c].id
  BY DEF CurrentRequest
<1> HIDE DEF c
<1>3. RestOK'
  BY TypePartsNext DEF QueueInv
<1>4. c \in DOMAIN results' /\ n \in DOMAIN results'
  BY <1>1 DEF ResultsOf
<1>5. results'[c].id \in Nat /\ results'[n].id \in Nat
  BY <1>3, <1>4, NextRowTypes
<1>6. c # 0
  <2>1. results' \in Seq(ResultRows)
    BY <1>3 DEF RestOK
  <2>2. DOMAIN results' = 1..Len(results')
    BY <2>1
  <2>3. QED
    BY <1>4, <2>2
<1>7. QED
  BY <1>1, <1>2, <1>5, <1>6

LEMMA NothingShown ==
  /\ \A s \in Subjects : ResultsOf(s) = {} => CurrentRequest(s) = 0
  /\ \A s \in Subjects : ResultsOf(s)' = {} => CurrentRequest(s)' = 0
BY DEF CurrentRequest, CurrentResult

\* While no result is appended, readers see what they saw.
LEMMA ShownKept ==
  ASSUME QueueInv, [Next]_vars, results' = results
  PROVE  /\ \A s \in Subjects : CurrentRequest(s)' = CurrentRequest(s)
         /\ ReplacedRequests' = ReplacedRequests
<1>1. \A s \in Subjects : ResultsOf(s)' = ResultsOf(s)
  BY ResultsStay DEF ResultsOf, QueueInv
<1>2. ASSUME NEW s \in Subjects
      PROVE  CurrentRequest(s)' = CurrentRequest(s)
  <2>1. CASE ResultsOf(s) = {}
    BY <1>1, <2>1, NothingShown
  <2>2. CASE ResultsOf(s) # {}
    <3>1. PICK n \in ResultsOf(s) : \A m \in ResultsOf(s) : results[m].id <= results[n].id
      BY <2>2 DEF QueueInv, HighestExists
    <3>2. CurrentRequest(s) = results[n].id
      BY <3>1, RequestShown
    <3>3. n \in ResultsOf(s)' /\ \A m \in ResultsOf(s)' : results'[m].id <= results'[n].id
      BY <1>1, <3>1
    <3>4. CurrentRequest(s)' = results'[n].id
      BY <3>3, QueueInvStep, NextRequestShown
    <3>5. QED
      BY <3>2, <3>4
  <2>3. QED
    BY <2>1, <2>2
<1>3. ReplacedRequests' = ReplacedRequests
  BY DEF ReplacedRequests
<1>4. QED
  BY <1>2, <1>3

\* What an appended result shows: the highest of its request and the one
\* that showed before.
LEMMA ShownStep ==
  ASSUME QueueInv, [Next]_vars, NEW t \in Threads, Completes(t), NEW s \in Subjects
  PROVE  LET i == task[t].id
         IN  /\ s # subject[i] => CurrentRequest(s)' = CurrentRequest(s)
             /\ s = subject[i] =>
                  /\ CurrentRequest(s) \in Nat /\ CurrentRequest(s) # i
                  /\ CurrentRequest(s)' = IF i > CurrentRequest(s) THEN i ELSE CurrentRequest(s)
<1> DEFINE i == task[t].id
<1>0. PICK last : last = Len(results) + 1
  OBVIOUS
<1>1. /\ i \in Nat /\ i # 0 /\ state[i] = "RUNNING"
      /\ results'[last].id = i
      /\ last \notin DOMAIN results
  BY <1>0, CompletesStep, IdsAreNatural DEF QueueInv, Appended
<1>2. /\ s # subject[i] => ResultsOf(s)' = ResultsOf(s)
      /\ s = subject[i] => ResultsOf(s)' = ResultsOf(s) \cup {last}
  <2>1. subject' = subject /\ DOMAIN results' = DOMAIN results \cup {last}
    BY <1>0, CompletesStep DEF QueueInv, Appended
  <2>2. \A n \in DOMAIN results : results'[n] = results[n]
    BY CompletesStep DEF QueueInv, Appended
  <2>3. ResultsOf(s)' = {n \in DOMAIN results \cup {last} : subject[results'[n].id] = s}
    BY <2>1 DEF ResultsOf
  <2> HIDE DEF i
  <2>4. QED
    BY <1>1, <2>2, <2>3 DEF ResultsOf
<1>3. QueueInv'
  BY QueueInvStep
<1>4. \A n \in ResultsOf(s) : /\ results'[n] = results[n]
                              /\ results[n].id \in Nat /\ results[n].id # 0 /\ results[n].id # i
  <2>1. RestOK
    BY TypeParts DEF QueueInv
  <2>2. QED
    BY <1>1, <2>1, ResultsStay, RowTypes, IdsAreNatural DEF QueueInv, ResultInv, ResultsOf
<1> HIDE DEF i
<1>5. CASE ResultsOf(s) = {}
  <2>1. CurrentRequest(s) = 0
    BY <1>5, NothingShown
  <2>2. s # subject[i] => CurrentRequest(s)' = 0
    BY <1>2, <1>5, NothingShown
  <2>3. s = subject[i] => CurrentRequest(s)' = i
    <3>1. SUFFICES ASSUME s = subject[i] PROVE CurrentRequest(s)' = i
      OBVIOUS
    <3>2. ResultsOf(s)' = {last}
      BY <1>2, <1>5, <3>1
    <3>3. last \in ResultsOf(s)' /\ \A m \in ResultsOf(s)' : results'[m].id <= results'[last].id
      BY <1>1, <3>2
    <3>4. QED
      BY <1>1, <1>3, <3>3, NextRequestShown
  <2>4. QED
    BY <1>1, <2>1, <2>2, <2>3 DEF i
<1>6. CASE ResultsOf(s) # {}
  <2>1. PICK c \in ResultsOf(s) : \A m \in ResultsOf(s) : results[m].id <= results[c].id
    BY <1>6 DEF QueueInv, HighestExists
  <2>2. CurrentRequest(s) = results[c].id /\ CurrentRequest(s) \in Nat /\ CurrentRequest(s) # i
    BY <1>4, <2>1, RequestShown
  <2>3. c \in ResultsOf(s)' /\ \A m \in ResultsOf(s) : results'[m].id <= results'[c].id
    BY <1>2, <1>4, <2>1
  <2>4. ASSUME s # subject[i] \/ i < results[c].id
        PROVE  CurrentRequest(s)' = results[c].id
    <3>1. \A m \in ResultsOf(s)' : results'[m].id <= results'[c].id
      BY <1>1, <1>2, <1>4, <2>3, <2>4
    <3>2. CurrentRequest(s)' = results'[c].id
      BY <1>3, <2>3, <3>1, NextRequestShown
    <3>3. QED
      BY <1>4, <3>2
  <2>5. ASSUME s = subject[i], i > results[c].id
        PROVE  CurrentRequest(s)' = i
    <3>1. last \in ResultsOf(s)' /\ \A m \in ResultsOf(s)' : results'[m].id <= results'[last].id
      BY <1>1, <1>2, <1>4, <2>1, <2>5
    <3>2. QED
      BY <1>1, <1>3, <3>1, NextRequestShown
  <2>6. QED
    BY <1>1, <1>4, <2>2, <2>4, <2>5 DEF i
<1>7. QED
  BY <1>5, <1>6

\* What an appended result replaces: the one that showed before, if it is of
\* an earlier request.
LEMMA ReplacedStep ==
  ASSUME QueueInv, ChainInv, NEW t \in Threads, Completes(t)
  PROVE  LET i == task[t].id
             c == CurrentRequest(subject[i])
         IN  ReplacedRequests' = ReplacedRequests \cup (IF i > c THEN {c} \ {0} ELSE {})
<1> DEFINE i == task[t].id
           s == subject[i]
           c == CurrentRequest(s)
           p == Supersedes(i)
           Linked == {m \in DOMAIN results : results[m].supersedes # 0}
<1>0. PICK last : last = Len(results) + 1
  OBVIOUS
<1>1. /\ i \in Nat /\ i # 0 /\ s \in Subjects
      /\ DOMAIN results' = DOMAIN results \cup {last} /\ last \notin DOMAIN results
      /\ \A n \in DOMAIN results : results'[n] = results[n]
      /\ results'[last].id = i /\ results'[last].supersedes = p
  <2>1. i \in Ids /\ s \in Subjects /\ Appended(i)
    BY CompletesStep DEF QueueInv
  <2> HIDE DEF i, s, p
  <2>2. i \in Nat /\ i # 0
    BY <2>1, IdsAreNatural
  <2>3. \A n \in DOMAIN results : n # last
    BY <1>0, <2>1 DEF Appended
  <2>4. results'[last].supersedes = p
    BY <1>0, <2>1 DEF Appended, p
  <2>5. QED
    BY <1>0, <2>1, <2>2, <2>3, <2>4 DEF Appended
<1>2. \A n \in Linked : results[n].supersedes \in DOMAIN results
  BY DEF ChainInv, LinkInv
<1>3. /\ p # 0 <=> CurrentResult(s) # 0 /\ i > results[CurrentResult(s)].id
      /\ p # 0 => p = CurrentResult(s) /\ p \in DOMAIN results
  <2>1. p = IF CurrentResult(s) # 0 /\ i > results[CurrentResult(s)].id THEN CurrentResult(s) ELSE 0
    BY DEF Supersedes
  <2>2. CurrentResult(s) # 0 => CurrentResult(s) \in DOMAIN results
    <3>1. ResultsOf(s) = {} => CurrentResult(s) = 0
      BY DEF CurrentResult
    <3>2. QED
      BY <1>1, <3>1, CurrentIsHighest DEF QueueInv, ResultsOf
  <2> HIDE DEF p, s, i
  <2>3. QED
    BY <2>1, <2>2
<1>4. c = IF CurrentResult(s) = 0 THEN 0 ELSE results[CurrentResult(s)].id
  BY DEF CurrentRequest
<1>5. CurrentResult(s) # 0 => results[CurrentResult(s)].id # 0
  <2>1. RestOK
    BY TypeParts DEF QueueInv
  <2>2. CurrentResult(s) # 0 => CurrentResult(s) \in DOMAIN results
    <3>1. ResultsOf(s) = {} => CurrentResult(s) = 0
      BY DEF CurrentResult
    <3>2. QED
      BY <1>1, <3>1, CurrentIsHighest DEF QueueInv, ResultsOf
  <2>3. QED
    BY <2>1, <2>2, RowTypes, IdsAreNatural
<1>6. ReplacedRequests = {results[results[n].supersedes].id : n \in Linked}
  BY DEF ReplacedRequests
<1>7. ReplacedRequests' = {results'[results'[n].supersedes].id :
                            n \in {m \in DOMAIN results \cup {last} : results'[m].supersedes # 0}}
  BY <1>1 DEF ReplacedRequests
<1> HIDE DEF i, s, c, p
<1>8. CASE p = 0
  <2>1. {m \in DOMAIN results \cup {last} : results'[m].supersedes # 0} = Linked
    BY <1>1, <1>8
  <2>2. \A n \in Linked : results'[results'[n].supersedes].id = results[results[n].supersedes].id
    BY <1>1, <1>2
  <2>3. ReplacedRequests' = ReplacedRequests
    BY <1>6, <1>7, <2>1, <2>2
  <2>4. (IF i > c THEN {c} \ {0} ELSE {}) = {}
    BY <1>1, <1>3, <1>4, <1>8
  <2>5. QED
    BY <2>3, <2>4 DEF c, s, i
<1>9. CASE p # 0
  <2>1. {m \in DOMAIN results \cup {last} : results'[m].supersedes # 0} = Linked \cup {last}
    BY <1>1, <1>9
  <2>2. \A n \in Linked : results'[results'[n].supersedes].id = results[results[n].supersedes].id
    BY <1>1, <1>2
  <2>3. results'[results'[last].supersedes].id = c
    BY <1>1, <1>3, <1>4, <1>9
  <2>4. ReplacedRequests' = ReplacedRequests \cup {c}
    BY <1>6, <1>7, <2>1, <2>2, <2>3
  <2>5. i > c /\ c # 0
    BY <1>3, <1>4, <1>5, <1>9
  <2>6. QED
    BY <2>4, <2>5 DEF c, s, i
<1>10. QED
  BY <1>8, <1>9

\* An Execution finishes beside the queue.
LEMMA FinalStep ==
  ASSUME [Next]_vars
  PROVE  \/ terminal' = terminal
         \/ \E x \in Executions \ terminal :
              terminal' = terminal \cup {x} /\ UNCHANGED <<requested, subject, state, results>>
BY DEF Next, ThreadStep, ExecutionFinishes, EnqueueInvocation, Request, RequestInline, ClaimRow, ClaimInline,
       ClaimNextInvocation, ReconcileStaleInvocations, ProcessInvocation, AppendResult,
       RefreshInvocationLease, TaskEscapes, LeaseExpires, Crash, Restart, vars, queueVars, rowVars

\* The queue implements EvaluationLedger, for any number of subjects, threads,
\* processes, crashes and lost leases: every request gets at most one result,
\* and what a reader sees of a subject is the result of the highest request
\* that has one, whatever order they arrived in.
THEOREM EvaluationsImplemented == Spec => ImplementsEvaluations
<1>1. Init => Evaluations!EvaluationLedgerInit
  <2> SUFFICES ASSUME Init PROVE Evaluations!EvaluationLedgerInit
    OBVIOUS
  <2>1. \A s \in Subjects : ResultsOf(s) = {}
    BY DEF Init, ResultsOf
  <2>2. \A s \in Subjects : CurrentRequest(s) = 0
    BY <2>1, NothingShown
  <2>3. ReplacedRequests = {} /\ {i \in Ids : state[i] = "COMPLETED"} = {}
    BY DEF Init, ReplacedRequests
  <2>4. [i \in 1..requested |-> subject[i]] = <<>>
    BY DEF Init
  <2>5. QED
    BY <2>2, <2>3, <2>4 DEF Init, Evaluations!EvaluationLedgerInit, Evaluations!Subjects, Subjects
<1>2. ASSUME QueueInv, ChainInv, [Next]_vars
      PROVE  [Evaluations!EvaluationLedgerNext]_(Evaluations!evaluationLedgerVars)
  <2> DEFINE asked == [i \in 1..requested |-> subject[i]]
             answered == {i \in Ids : state[i] = "COMPLETED"}
             current == [s \in Subjects |-> CurrentRequest(s)]
  <2>0. TasksOK /\ RowsOK /\ RestOK /\ IdsInOrder
    BY <1>2, TypeParts DEF QueueInv
  <2>1. ASSUME QueueKept, terminal' = terminal
        PROVE  UNCHANGED Evaluations!evaluationLedgerVars
    <3>1. asked' = asked /\ answered' = answered
      BY <2>1 DEF QueueKept
    <3>2. current' = current /\ ReplacedRequests' = ReplacedRequests
      BY <1>2, <2>1, ShownKept DEF QueueKept
    <3>3. QED
      BY <2>1, <3>1, <3>2 DEF Evaluations!evaluationLedgerVars
  <2>2. ASSUME NEW x \in Executions \ terminal, terminal' = terminal \cup {x},
               UNCHANGED <<requested, subject, state, results>>
        PROVE  Evaluations!AnswerFinal(x)
    <3>1. asked' = asked /\ answered' = answered
      BY <2>2
    <3>2. current' = current /\ ReplacedRequests' = ReplacedRequests
      BY <1>2, <2>2, ShownKept
    <3>3. QED
      BY <2>2, <3>1, <3>2 DEF Evaluations!AnswerFinal
  <2>3. ASSUME NEW s \in Subjects, EnqueueInvocation(s)
        PROVE  Evaluations!Ask(s)
    <3>1. /\ requested \in Nat /\ requested + 1 \in Ids /\ s.execution \in terminal
          /\ requested' = requested + 1 /\ subject' = [subject EXCEPT ![requested + 1] = s]
          /\ state' = [state EXCEPT ![requested + 1] = "PENDING"]
          /\ UNCHANGED <<terminal, results>>
      <4>1. requested \in Nat /\ requested + 1 \in Ids
        BY <2>0, <2>3, EnqueueType DEF RestOK
      <4>2. QED
        BY <2>3, <4>1 DEF EnqueueInvocation
    <3>2. \A i \in 1..requested : i \in Ids /\ i # requested + 1
      BY <2>0, QueueAssumption DEF RestOK, Ids
    <3>3. asked' = Append(asked, s)
      <4>1. \A i \in 1..requested : subject[i] \in Subjects /\ subject'[i] = subject[i]
        BY <2>0, <3>1, <3>2 DEF IdsInOrder, RestOK
      <4>2. asked \in Seq(Subjects) /\ Len(asked) = requested
        BY <3>1, <4>1
      <4>3. subject'[requested + 1] = s
        BY <2>0, <3>1 DEF RestOK
      <4>4. asked' = [i \in 1..(requested + 1) |-> subject'[i]]
        BY <3>1
      <4>5. /\ Append(asked, s) \in Seq(Subjects)
            /\ Len(Append(asked, s)) = requested + 1
            /\ \A i \in 1..requested : Append(asked, s)[i] = subject[i]
            /\ Append(asked, s)[requested + 1] = s
        BY <3>1, <4>2, AppendProperties
      <4>6. asked' \in Seq(Subjects) /\ Len(asked') = requested + 1
        BY <3>1, <4>1, <4>3, <4>4
      <4> HIDE DEF asked
      <4>7. \A i \in 1..(requested + 1) : asked'[i] = Append(asked, s)[i]
        BY <3>1, <4>1, <4>3, <4>4, <4>5
      <4>8. QED
        BY <4>5, <4>6, <4>7, SeqEqual
    <3>4. answered' = answered
      <4>1. state[requested + 1] = "NONE"
        BY <2>0, <3>1 DEF IdsInOrder
      <4>2. QED
        BY <2>0, <3>1, <4>1 DEF RowsOK
    <3>5. current' = current /\ ReplacedRequests' = ReplacedRequests
      BY <1>2, <3>1, ShownKept
    <3>6. QED
      BY <3>1, <3>3, <3>4, <3>5 DEF Evaluations!Ask
  <2>4. ASSUME NEW t \in Threads, Completes(t), NEW i, i = task[t].id
        PROVE  i \in DOMAIN asked /\ Evaluations!Answer(i)
    <3> DEFINE s == subject[i]
               c == CurrentRequest(s)
    <3>1. /\ i \in Ids /\ s \in Subjects /\ state[i] = "RUNNING"
          /\ state' = [state EXCEPT ![i] = "COMPLETED"]
          /\ UNCHANGED <<requested, subject, terminal>>
      BY <1>2, <2>4, CompletesStep DEF QueueInv, Completes, AppendResult
    <3>2. i \in DOMAIN asked /\ asked[i] = s /\ asked' = asked
      <4>1. i \in 1..requested
        BY <2>0, <3>1, RunningIsRequested, IdsAreNatural DEF RestOK
      <4>2. QED
        BY <3>1, <4>1
    <3>3. i \notin answered /\ answered' = answered \cup {i}
      BY <2>0, <3>1 DEF RowsOK
    <3>4. c \in Nat /\ c # i /\ i \in Nat /\ current[s] = c
      BY <1>2, <2>4, <3>1, ShownStep, IdsAreNatural
    <3>5. current' = [current EXCEPT ![s] = IF i > c THEN i ELSE c]
      BY <1>2, <2>4, <3>1, ShownStep
    <3>6. ReplacedRequests' = ReplacedRequests \cup (IF i > c THEN {c} \ {0} ELSE {})
      BY <1>2, <2>4, ReplacedStep
    <3> HIDE DEF s, c, asked, answered
    <3>7. CASE i > c
      <4>1. current' = [current EXCEPT ![asked[i]] = i]
        BY <3>2, <3>5, <3>7
      <4>2. Evaluations!Show(i)
        BY <3>2, <3>4, <3>6, <3>7, <4>1 DEF Evaluations!Show, asked
      <4>3. QED
        BY <3>1, <3>2, <3>3, <4>2 DEF Evaluations!Answer, asked, answered
    <3>8. CASE ~(i > c)
      <4>1. current' = current
        BY <3>4, <3>5, <3>8
      <4>2. i < current[asked[i]]
        BY <3>2, <3>4, <3>8
      <4>3. Evaluations!Overtaken(i)
        BY <3>6, <3>8, <4>1, <4>2 DEF Evaluations!Overtaken, asked
      <4>4. QED
        BY <3>1, <3>2, <3>3, <4>3 DEF Evaluations!Answer, asked, answered
    <3>9. QED
      BY <3>7, <3>8
  <2>5. QED
    <3>1. ASSUME NEW x \in Executions \ terminal, Evaluations!AnswerFinal(x)
          PROVE  Evaluations!EvaluationLedgerNext
      BY <3>1 DEF Evaluations!EvaluationLedgerNext
    <3>2. ASSUME NEW s \in Subjects, Evaluations!Ask(s)
          PROVE  Evaluations!EvaluationLedgerNext
      BY <3>2 DEF Evaluations!EvaluationLedgerNext, Evaluations!Subjects, Subjects
    <3>3. ASSUME NEW i \in DOMAIN asked, Evaluations!Answer(i)
          PROVE  Evaluations!EvaluationLedgerNext
      BY <3>3 DEF Evaluations!EvaluationLedgerNext
    <3>4. CASE terminal' = terminal
      <4>1. QueueKept \/ (\E s \in Subjects : EnqueueInvocation(s)) \/ \E t \in Threads : Completes(t)
        BY <1>2, Shapes DEF QueueInv
      <4>2. CASE QueueKept
        BY <2>1, <3>4, <4>2
      <4>3. ASSUME NEW s \in Subjects, EnqueueInvocation(s)
            PROVE  Evaluations!EvaluationLedgerNext
        BY <2>3, <3>2, <4>3
      <4>4. ASSUME NEW t \in Threads, Completes(t)
            PROVE  Evaluations!EvaluationLedgerNext
        <5>1. PICK i : i = task[t].id
          OBVIOUS
        <5>2. i \in DOMAIN asked /\ Evaluations!Answer(i)
          BY <2>4, <4>4, <5>1
        <5>3. QED
          BY <3>3, <5>2
      <4>5. QED
        BY <4>1, <4>2, <4>3, <4>4
    <3>5. QED
      BY <1>2, <2>2, <3>1, <3>4, FinalStep
<1>3. Init => QueueInv /\ ChainInv
  BY QueueInvInit DEF Init, ChainInv, LinkInv, OnceInv, TailInv
<1>4. QueueInv /\ ChainInv /\ [Next]_vars => QueueInv' /\ ChainInv'
  BY QueueInvStep, ChainStep
<1>5. QED
  BY <1>1, <1>2, <1>3, <1>4, PTL DEF Spec, ImplementsEvaluations, Evaluations!EvaluationLedgerSpec

=============================================================================
