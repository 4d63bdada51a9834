---------------------------- MODULE WorkerClaims ----------------------------
(***************************************************************************)
(* The durable worker of StewardBench for single-question Executions:      *)
(* claiming, the claim lease and its heartbeat, the durable submission     *)
(* boundary, completion, run finalization and the reconciliation of stale  *)
(* claims, by any number of worker processes that crash, stop and restart. *)
(*                                                                         *)
(* One action is one database transaction, or one step of a worker thread  *)
(* between two transactions.  Database time is abstracted to what the code *)
(* asks of it: leased[e] says whether the lease of e's claim is unexpired, *)
(* dispatchHeld[r] whether next_dispatch_at of r is still in the future.   *)
(* The Runs of this module carry no Comparison (see ControlledComparison)  *)
(* and no ConversationAttempt (see ConversationWorker).                    *)
(***************************************************************************)
EXTENDS Naturals, FiniteSets

CONSTANTS
  Executions,         \* Execution rows
  Runs,               \* EvaluationRun rows
  RunOf,              \* [Executions -> Runs], Execution.run
  RevisionOf,         \* [Runs -> TargetRevision], EvaluationRun.target_revision
  ActualConcurrency,  \* [Runs -> Nat], frozen at launch (1 when SEQUENTIAL)
  ConfiguredMax,      \* [Runs -> Nat], the frozen target maximum
  DelayedRuns,        \* Runs with inter_question_delay_seconds > 0
  Preflight,          \* Executions frozen with a preflight_error_class
  Legacy,             \* Executions RUNNING when the M4 migration ran
  Processes,          \* worker processes (run_worker)
  Threads,            \* threads of their target pools
  ProcessOf,          \* [Threads -> Processes]
  NoExecution,        \* the null Execution
  NoProcess,          \* the empty claim_worker_id
  MaxStops,           \* bound: crashes, escaped tasks and graceful stops
  MaxLateHeartbeats   \* bound: leases that expire under a live owner

ASSUME ManifestAssumption ==
  /\ RunOf \in [Executions -> Runs]
  /\ DOMAIN RevisionOf = Runs
  /\ ActualConcurrency \in [Runs -> Nat \ {0}]
  /\ ConfiguredMax \in [Runs -> Nat \ {0}]
  /\ \A r \in Runs : \E e \in Executions : RunOf[e] = r
  /\ NoExecution \notin Executions

\* A revision is frozen, and with it the maximum of all its runs.
ASSUME CapacityAssumption ==
  /\ IsFiniteSet(Executions)
  /\ \A r, s \in Runs : RevisionOf[r] = RevisionOf[s] => ConfiguredMax[r] = ConfiguredMax[s]

ASSUME ProcessAssumption ==
  /\ ProcessOf \in [Threads -> Processes]
  /\ NoProcess \notin Processes
  /\ MaxStops \in Nat
  /\ MaxLateHeartbeats \in Nat

VARIABLES
  outcome,        \* Execution.outcome
  phase,          \* Execution.target_call_phase
  claim,          \* Execution.claim_worker_id and claim_token
  attempt,        \* Execution.claim_attempt
  leased,         \* RUNNING under a claim with claim_lease_expires_at > now
  runState,       \* EvaluationRun.state
  dispatchHeld,   \* next_dispatch_at > now
  snapshot,       \* BuildSnapshot: the Execution whose worker recorded it
  process,        \* the main loop of each worker process
  task,           \* what each pool thread is doing
  requests,       \* history: question requests sent to the target
  stops, late     \* the bounds used so far

rowVars == <<outcome, phase, claim, attempt, leased>>
runVars == <<runState, dispatchHeld, snapshot>>
boundVars == <<stops, late>>
vars == <<rowVars, runVars, process, task, requests, boundVars>>

TerminalOutcomes == {"SUCCESS", "ERROR", "TIMEOUT"}
TerminalRunStates == {"COMPLETED", "COMPLETED_WITH_ERRORS"}
ClaimPhases == {"CLAIMED", "SUBMISSION_STARTED"}

NoClaim == [worker |-> NoProcess, token |-> 0]
IdleTask == [pc |-> "idle", exec |-> NoExecution, token |-> 0, result |-> "NONE"]

MembersOf(r) == {e \in Executions : RunOf[e] = r}

-----------------------------------------------------------------------------
(* Launch leaves every row PENDING and unclaimed.  Rows the M4 migration   *)
(* found RUNNING are LEGACY_UNKNOWN, may have been sent, and have no claim.*)

Init ==
  /\ outcome = [e \in Executions |-> IF e \in Legacy THEN "RUNNING" ELSE "PENDING"]
  /\ phase = [e \in Executions |-> IF e \in Legacy THEN "LEGACY_UNKNOWN" ELSE "NONE"]
  /\ claim = [e \in Executions |-> NoClaim]
  /\ attempt = [e \in Executions |-> 0]
  /\ leased = [e \in Executions |-> FALSE]
  /\ runState = [r \in Runs |-> IF MembersOf(r) \cap Legacy # {} THEN "RUNNING" ELSE "PENDING"]
  /\ dispatchHeld = [r \in Runs |-> FALSE]
  /\ snapshot = [r \in Runs |-> NoExecution]
  /\ process = [p \in Processes |-> "up"]
  /\ task = [t \in Threads |-> IdleTask]
  /\ requests \in {q \in [Executions -> {0, 1}] : \A e \in Executions \ Legacy : q[e] = 0}
  /\ stops = 0
  /\ late = 0

-----------------------------------------------------------------------------
(* Shared pieces of the transactions.                                      *)

\* Variant: the token is not compared, only the worker identity.
OwnsByWorker(t) ==
  LET e == task[t].exec
  IN  outcome[e] = "RUNNING" /\ claim[e].worker = ProcessOf[t]

\* Variant: a terminal row still carries its claim and is taken for owned.
OwnsByClaim(t) ==
  task[t].pc # "idle" /\ claim[task[t].exec] = [worker |-> ProcessOf[t], token |-> task[t].token]

\* The row t was given still carries t's worker identity and token.
Owns(t) ==
  LET e == task[t].exec
  IN  /\ outcome[e] = "RUNNING"
      /\ claim[e] = [worker |-> ProcessOf[t], token |-> task[t].token]

\* Claims that count against capacity: unexpired ones only.
ActiveClaims(S) ==
  {e \in S : outcome[e] = "RUNNING" /\ phase[e] \in ClaimPhases /\ leased[e]}

OnRevision(v) == {e \in Executions : RevisionOf[RunOf[e]] = v}

\* Variant: the outcome of an Execution is written into the Run.
FinalStateOfOutcome(out, r) ==
  IF \E e \in MembersOf(r) : out[e] \in {"PENDING", "RUNNING"} THEN runState[r]
  ELSE IF \E e \in MembersOf(r) : out[e] \in {"ERROR", "TIMEOUT"} THEN "ERROR"
  ELSE "COMPLETED"

\* Variant: rows still running are not waited for.
FinalStateOfQueue(out, r) ==
  IF \E e \in MembersOf(r) : out[e] = "PENDING" THEN runState[r]
  ELSE IF \E e \in MembersOf(r) : out[e] \in {"ERROR", "TIMEOUT"} THEN "COMPLETED_WITH_ERRORS"
  ELSE "COMPLETED"

\* The state of r once its members have the outcomes out.
FinalState(out, r) ==
  IF \E e \in MembersOf(r) : out[e] \in {"PENDING", "RUNNING"} THEN runState[r]
  ELSE IF \E e \in MembersOf(r) : out[e] \in {"ERROR", "TIMEOUT"} THEN "COMPLETED_WITH_ERRORS"
  ELSE "COMPLETED"

\* Finalize every run of R whose last member became terminal.
FinalizeRuns(R) ==
  runState' = [r \in Runs |-> IF r \in R THEN FinalState(outcome', r) ELSE runState[r]]

GoTo(t, pc) == task' = [task EXCEPT ![t].pc = pc]
Observed(t, result) == task' = [task EXCEPT ![t].pc = "answered", ![t].result = result]
Release(t) == task' = [task EXCEPT ![t] = IdleTask]

-----------------------------------------------------------------------------
(* The main loop: claim, reconcile.                                        *)

\* Variant: the revision's maximum is not looked at, only the run's own.
EligibleInRun(e) ==
  LET r == RunOf[e]
  IN  /\ outcome[e] = "PENDING"
      /\ runState[r] \in {"PENDING", "RUNNING"}
      /\ ~dispatchHeld[r]
      /\ Cardinality(ActiveClaims(MembersOf(r))) < ActualConcurrency[r]

\* Rows another transaction holds are skipped (SKIP LOCKED), so a claimer
\* may get any eligible row and not only the first of the manifest order.
Eligible(e) ==
  LET r == RunOf[e]
  IN  /\ outcome[e] = "PENDING"
      /\ runState[r] \in {"PENDING", "RUNNING"}
      /\ ~dispatchHeld[r]
      /\ Cardinality(ActiveClaims(MembersOf(r))) < ActualConcurrency[r]
      /\ Cardinality(ActiveClaims(OnRevision(RevisionOf[r]))) < ConfiguredMax[r]

\* Variant: a row claimed again gets the token of its first claim.
FirstToken(e) == 1

\* The fresh uuid4 of a claim: no earlier claim of the row has it.
NextToken(e) == attempt[e] + 1

Claim(t, e) ==
  /\ process[ProcessOf[t]] = "up"
  /\ task[t].pc = "idle"
  /\ Eligible(e)
  /\ runState' = [runState EXCEPT ![RunOf[e]] = "RUNNING"]
  /\ outcome' = [outcome EXCEPT ![e] = "RUNNING"]
  /\ phase' = [phase EXCEPT ![e] = "CLAIMED"]
  /\ attempt' = [attempt EXCEPT ![e] = @ + 1]
  /\ claim' = [claim EXCEPT ![e] = [worker |-> ProcessOf[t], token |-> NextToken(e)]]
  /\ leased' = [leased EXCEPT ![e] = TRUE]
  /\ task' = [task EXCEPT ![t] =
       [pc |-> "claimed", exec |-> e, token |-> NextToken(e), result |-> "NONE"]]
  /\ UNCHANGED <<dispatchHeld, snapshot, process, requests, boundVars>>

\* Variant: every claimed row is queued again, sent or not.
SafeToReclaimAny(e) == phase[e] \in ClaimPhases

\* A stale row that never crossed the submission boundary.
SafeToReclaim(e) == phase[e] = "CLAIMED"

\* Variant: the claim columns of a reclaimed row are left behind.
ClaimsKept(S) == claim

\* The claim columns once the rows of S were reclaimed.
ClaimsCleared(S) == [e \in Executions |-> IF e \in S THEN NoClaim ELSE claim[e]]

\* Variant: rows whose owner crossed the boundary are never looked at.
StaleUnsent(e) == outcome[e] = "RUNNING" /\ phase[e] \in {"NONE", "CLAIMED"} /\ ~leased[e]

Stale(e) ==
  /\ outcome[e] = "RUNNING"
  /\ phase[e] \in {"NONE", "LEGACY_UNKNOWN"} \/ ~leased[e]

\* One reconciliation transaction over the stale rows S it could lock.
Reconcile(p, S) ==
  LET unstarted == {e \in S : SafeToReclaim(e)}
      ambiguous == S \ unstarted
  IN  /\ process[p] = "up"
      /\ S # {}
      /\ \A e \in S : Stale(e)
      /\ outcome' = [e \in Executions |->
           IF e \in unstarted THEN "PENDING" ELSE IF e \in ambiguous THEN "ERROR" ELSE outcome[e]]
      /\ phase' = [e \in Executions |->
           IF e \in unstarted THEN "NONE" ELSE IF e \in ambiguous THEN "TERMINAL" ELSE phase[e]]
      /\ claim' = ClaimsCleared(unstarted)
      /\ FinalizeRuns({RunOf[e] : e \in ambiguous})
      /\ dispatchHeld' = [r \in Runs |-> dispatchHeld[r] /\ runState'[r] \notin TerminalRunStates]
      /\ UNCHANGED <<attempt, leased, snapshot, process, task, requests, boundVars>>

-----------------------------------------------------------------------------
(* A pool thread working on its claim (process_claim).                     *)

\* Re-read the row, leave if the claim was lost, take the frozen preflight
\* error as the result, build the adapter, and look whether the run's
\* runtime metadata is still to be recorded.
Prepare(t) ==
  LET e == task[t].exec
  IN  /\ task[t].pc = "claimed"
      /\ \/ ~Owns(t) /\ Release(t)
         \/ /\ Owns(t)
            /\ e \in Preflight
            /\ Observed(t, "ERROR")
         \/ /\ Owns(t)
            /\ e \notin Preflight
            /\ GoTo(t, IF snapshot[RunOf[e]] = NoExecution THEN "fetching" ELSE "ready")
      /\ UNCHANGED <<rowVars, runVars, process, requests, boundVars>>

\* An adapter, credential or metadata call raises: the observation is ERROR.
SetupFails(t) ==
  /\ task[t].pc \in {"fetching", "ready"}
  /\ Observed(t, "ERROR")
  /\ UNCHANGED <<rowVars, runVars, process, requests, boundVars>>

\* Variant: the snapshot is not looked at again after the remote call.
RecordableWithoutRecheck(r) == TRUE

\* The locked snapshot has not been recorded by another worker.
Recordable(r) == snapshot[r] = NoExecution

\* The remote metadata call returned; the first worker to lock the snapshot
\* records it.  A snapshot of a finished run refuses the write: an ERROR.
RecordRuntimeMetadata(t) ==
  LET e == task[t].exec
      r == RunOf[e]
  IN  /\ task[t].pc = "fetching"
      /\ \/ ~Recordable(r) /\ GoTo(t, "ready") /\ UNCHANGED snapshot
         \/ /\ Recordable(r)
            /\ runState[r] \notin TerminalRunStates
            /\ snapshot' = [snapshot EXCEPT ![r] = e]
            /\ GoTo(t, "ready")
         \/ /\ Recordable(r)
            /\ runState[r] \in TerminalRunStates
            /\ Observed(t, "ERROR")
            /\ UNCHANGED snapshot
      /\ UNCHANGED <<rowVars, runState, dispatchHeld, process, requests, boundVars>>

\* The durable submission boundary.  The lease is renewed, expired or not.
MarkSubmissionStarted(t) ==
  LET e == task[t].exec
  IN  /\ task[t].pc = "ready"
      /\ \/ /\ Owns(t)
            /\ phase[e] = "CLAIMED"
            /\ phase' = [phase EXCEPT ![e] = "SUBMISSION_STARTED"]
            /\ leased' = [leased EXCEPT ![e] = TRUE]
            /\ GoTo(t, "started")
         \/ /\ ~(Owns(t) /\ phase[e] = "CLAIMED")
            /\ Release(t)
            /\ UNCHANGED <<phase, leased>>
      /\ UNCHANGED <<outcome, claim, attempt, runVars, process, requests, boundVars>>

SubmitQuestion(t) ==
  /\ task[t].pc = "started"
  /\ requests' = [requests EXCEPT ![task[t].exec] = @ + 1]
  /\ GoTo(t, "waiting")
  /\ UNCHANGED <<rowVars, runVars, process, boundVars>>

\* The adapter returns an answer, times out or raises.
TargetAnswers(t, result) ==
  /\ task[t].pc = "waiting"
  /\ Observed(t, result)
  /\ UNCHANGED <<rowVars, runVars, process, requests, boundVars>>

\* Persist the terminal observation if the claim is still ours, hold the
\* next dispatch of a delayed run, and finalize the run with its last row.
CompleteExecution(t) ==
  LET e == task[t].exec
      r == RunOf[e]
  IN  /\ task[t].pc = "answered"
      /\ \/ /\ Owns(t)
            /\ outcome' = [outcome EXCEPT ![e] = task[t].result]
            /\ phase' = [phase EXCEPT ![e] = "TERMINAL"]
            /\ leased' = [leased EXCEPT ![e] = FALSE]
            /\ FinalizeRuns({r})
            /\ dispatchHeld' = [dispatchHeld EXCEPT ![r] =
                 runState'[r] \notin TerminalRunStates /\ (r \in DelayedRuns \/ @)]
         \/ ~Owns(t) /\ UNCHANGED <<outcome, phase, leased, runState, dispatchHeld>>
      /\ Release(t)
      /\ UNCHANGED <<claim, attempt, snapshot, process, requests, boundVars>>

\* The heartbeat thread renews the lease of an owned claim, expired or not.
RefreshClaimLease(t) ==
  LET e == task[t].exec
  IN  /\ task[t].pc \notin {"idle", "claimed"}
      /\ Owns(t)
      /\ phase[e] \in ClaimPhases
      /\ ~leased[e]
      /\ leased' = [leased EXCEPT ![e] = TRUE]
      /\ UNCHANGED <<outcome, phase, claim, attempt, runVars, process, task, requests, boundVars>>

-----------------------------------------------------------------------------
(* Time, crashes, graceful stops and restarts.                             *)

\* A thread that holds e's current claim and has not died with its process.
HasLiveOwner(e) == \E t \in Threads : task[t].pc # "idle" /\ task[t].exec = e /\ Owns(t)

\* The lease of a dead owner runs out; that of a live one only when its
\* heartbeat is late, at most MaxLateHeartbeats times in a behaviour.
LeaseExpires(e) ==
  /\ outcome[e] = "RUNNING"
  /\ phase[e] \in ClaimPhases
  /\ leased[e]
  /\ leased' = [leased EXCEPT ![e] = FALSE]
  /\ \/ ~HasLiveOwner(e) /\ UNCHANGED late
     \/ HasLiveOwner(e) /\ late < MaxLateHeartbeats /\ late' = late + 1
  /\ UNCHANGED <<outcome, phase, claim, attempt, runVars, process, task, requests, stops>>

DelayElapses(r) ==
  /\ dispatchHeld[r]
  /\ dispatchHeld' = [dispatchHeld EXCEPT ![r] = FALSE]
  /\ UNCHANGED <<rowVars, runState, snapshot, process, task, requests, boundVars>>

ThreadsOf(p) == {t \in Threads : ProcessOf[t] = p}

Crash(p) ==
  /\ process[p] # "down"
  /\ stops < MaxStops
  /\ stops' = stops + 1
  /\ process' = [process EXCEPT ![p] = "down"]
  /\ task' = [t \in Threads |-> IF ProcessOf[t] = p THEN IdleTask ELSE task[t]]
  /\ UNCHANGED <<rowVars, runVars, requests, late>>

\* An exception leaves the pool task (a refused or lost database call): the
\* worker logs it and goes on, the claim is left to its lease.
TaskEscapes(t) ==
  /\ task[t].pc # "idle"
  /\ stops < MaxStops
  /\ stops' = stops + 1
  /\ Release(t)
  /\ UNCHANGED <<rowVars, runVars, process, requests, late>>

\* SIGTERM: no further claim or reconciliation, the pool drains, then exit.
Stop(p) ==
  /\ process[p] = "up"
  /\ stops < MaxStops
  /\ stops' = stops + 1
  /\ process' = [process EXCEPT ![p] = "stopping"]
  /\ UNCHANGED <<rowVars, runVars, task, requests, late>>

Exit(p) ==
  /\ process[p] = "stopping"
  /\ \A t \in ThreadsOf(p) : task[t].pc = "idle"
  /\ process' = [process EXCEPT ![p] = "down"]
  /\ UNCHANGED <<rowVars, runVars, task, requests, boundVars>>

Restart(p) ==
  /\ process[p] = "down"
  /\ process' = [process EXCEPT ![p] = "up"]
  /\ UNCHANGED <<rowVars, runVars, task, requests, boundVars>>

-----------------------------------------------------------------------------

ThreadStep(t) ==
  \/ Prepare(t)
  \/ RecordRuntimeMetadata(t)
  \/ MarkSubmissionStarted(t)
  \/ SubmitQuestion(t)
  \/ \E result \in TerminalOutcomes : TargetAnswers(t, result)
  \/ CompleteExecution(t)

Next ==
  \/ \E t \in Threads, e \in Executions : Claim(t, e)
  \/ \E p \in Processes, S \in SUBSET Executions : Reconcile(p, S)
  \/ \E t \in Threads : ThreadStep(t) \/ SetupFails(t) \/ RefreshClaimLease(t) \/ TaskEscapes(t)
  \/ \E e \in Executions : LeaseExpires(e)
  \/ \E r \in Runs : DelayElapses(r)
  \/ \E p \in Processes : Crash(p) \/ Stop(p) \/ Exit(p) \/ Restart(p)

Spec == Init /\ [][Next]_vars

\* The main loop keeps polling, the container restarts a dead worker, threads
\* run, the target call ends by its timeout, and time passes.
Fairness ==
  /\ WF_vars(\E t \in Threads, e \in Executions : Claim(t, e))
  /\ \A e \in Executions : WF_vars(\E p \in Processes, S \in SUBSET Executions : e \in S /\ Reconcile(p, S))
  /\ \A t \in Threads : WF_vars(ThreadStep(t))
  /\ \A e \in Executions : WF_vars(~HasLiveOwner(e) /\ LeaseExpires(e))
  /\ \A r \in Runs : WF_vars(DelayElapses(r))
  /\ \A p \in Processes : WF_vars(Exit(p)) /\ WF_vars(Restart(p))

FairSpec == Spec /\ Fairness

-----------------------------------------------------------------------------
(* Properties.                                                             *)

Pcs == {"idle", "claimed", "fetching", "ready", "started", "waiting", "answered"}
Tasks == [pc : Pcs, exec : Executions \cup {NoExecution}, token : Nat,
          result : TerminalOutcomes \cup {"NONE"}]

\* Every variable keeps its type; a busy thread always names an
\* Execution, and one that has an observation names its outcome.
TypeOK ==
  /\ outcome \in [Executions -> {"PENDING", "RUNNING"} \cup TerminalOutcomes]
  /\ phase \in [Executions -> {"NONE", "LEGACY_UNKNOWN", "TERMINAL"} \cup ClaimPhases]
  /\ claim \in [Executions -> [worker : Processes \cup {NoProcess}, token : Nat]]
  /\ attempt \in [Executions -> Nat]
  /\ leased \in [Executions -> BOOLEAN]
  /\ runState \in [Runs -> {"PENDING", "RUNNING"} \cup TerminalRunStates]
  /\ dispatchHeld \in [Runs -> BOOLEAN]
  /\ snapshot \in [Runs -> Executions \cup {NoExecution}]
  /\ process \in [Processes -> {"up", "stopping", "down"}]
  /\ task \in [Threads -> Tasks]
  /\ \A t \in Threads : task[t].pc # "idle" => task[t].exec \in Executions
  /\ \A t \in Threads : task[t].pc = "answered" => task[t].result \in TerminalOutcomes
  /\ requests \in [Executions -> Nat]
  /\ stops \in Nat /\ late \in Nat

\* The table's check constraint evaluations_execution_claim_state: no
\* transaction of any interleaving is refused by the database for breaking it.
ClaimStateConstraint ==
  \A e \in Executions :
    \/ outcome[e] = "PENDING" /\ phase[e] = "NONE" /\ claim[e] = NoClaim
    \/ outcome[e] = "RUNNING" /\ phase[e] \in ClaimPhases /\ claim[e] # NoClaim
    \/ outcome[e] = "RUNNING" /\ phase[e] \in {"NONE", "LEGACY_UNKNOWN"} /\ claim[e] = NoClaim
    \/ outcome[e] \in TerminalOutcomes /\ phase[e] = "TERMINAL"

\* Whatever crashes, stalls and recoveries happen, the target is asked a
\* planned question at most once.
AtMostOneRequest == \A e \in Executions : requests[e] <= 1

\* Why the target is asked at most once: a row that may still go back to the
\* queue was never sent and no thread is about to send it, and of the threads
\* that passed the boundary of a row at most one has still to send.
SubmissionInv ==
  /\ \A e \in Executions : requests[e] <= 1
  /\ \A e \in Executions : phase[e] \in {"NONE", "CLAIMED"} => requests[e] = 0
  /\ \A t \in Threads :
       task[t].pc = "started" =>
         /\ phase[task[t].exec] \notin {"NONE", "CLAIMED"}
         /\ requests[task[t].exec] = 0
         /\ \A u \in Threads : task[u].pc = "started" /\ task[u].exec = task[t].exec => u = t

\* Why a claim has one owner: every claim of a row was given a token no other
\* thread still holds, and none holds a token from the future.
FencingTokens ==
  /\ \A t \in Threads : task[t].pc # "idle" => task[t].token <= attempt[task[t].exec]
  /\ \A t, u \in Threads :
       ( /\ task[t].pc # "idle" /\ task[u].pc # "idle"
         /\ task[t].exec = task[u].exec
         /\ task[t].token = task[u].token ) => t = u

\* Of all the threads that ever claimed a row, at most one can still write it.
SingleOwner ==
  \A t, u \in Threads :
    ( /\ task[t].pc # "idle" /\ task[u].pc # "idle"
      /\ task[t].exec = task[u].exec
      /\ Owns(t) /\ Owns(u) ) => t = u

\* A run is finished exactly when its last member is, with errors exactly
\* when a member failed: completion, recovery and claims never miss it.
RunAggregation ==
  \A r \in Runs :
    /\ runState[r] \in TerminalRunStates <=>
         \A e \in MembersOf(r) : outcome[e] \in TerminalOutcomes
    /\ runState[r] = "COMPLETED" => \A e \in MembersOf(r) : outcome[e] = "SUCCESS"
    /\ runState[r] = "COMPLETED_WITH_ERRORS" => \E e \in MembersOf(r) : outcome[e] # "SUCCESS"

\* What no step may undo: a captured observation with the claim it was made
\* under, and the state of a finished run.
ObservationsKept ==
  /\ \A e \in Executions : outcome[e] \in TerminalOutcomes => UNCHANGED <<outcome[e], claim[e]>>
  /\ \A r \in Runs : runState[r] \in TerminalRunStates => runState'[r] = runState[r]

\* A captured observation is never overwritten, by a late worker or by
\* recovery, and a finished run never changes.
ObservationsImmutable == [][ObservationsKept]_vars

\* The runtime metadata of a build is what the first worker observed.
SnapshotFirstWriteWins ==
  [][\A r \in Runs : snapshot[r] # NoExecution => snapshot'[r] = snapshot[r]]_vars

\* Unexpired claims stay within the run's and the revision's maximum.
CapacityRespected ==
  /\ \A r \in Runs : Cardinality(ActiveClaims(MembersOf(r))) <= ActualConcurrency[r]
  /\ \A r \in Runs : Cardinality(ActiveClaims(OnRevision(RevisionOf[r]))) <= ConfiguredMax[r]

\* As long as no lease expired under a live owner, capacity is respected,
\* whatever crashed and was recovered.
CapacityWhileTimely == late = 0 => CapacityRespected

\* Every launched run finishes, through crashes, restarts and lost leases.
AllRunsFinish == \A r \in Runs : <>(runState[r] \in TerminalRunStates)

\* What the worker promises, without workers.
Status(e) ==
  IF outcome[e] = "PENDING" THEN "QUEUED"
  ELSE IF outcome[e] # "RUNNING" THEN outcome[e]
  ELSE IF phase[e] = "CLAIMED" THEN "OWNED" ELSE "SENDING"

Ledger == INSTANCE ExecutionLedger WITH
  ledger <- [e \in Executions |-> Status(e)],
  asked <- requests,
  verdict <- [r \in Runs |-> IF runState[r] \in TerminalRunStates THEN runState[r] ELSE "OPEN"]

\* The worker implements the ledger: no interleaving of claims, late workers,
\* crashes and recovery shows an observer anything the ledger does not allow.
ImplementsLedger == Ledger!LedgerSpec

=============================================================================
