--------------------------- MODULE EvaluationQueue ---------------------------
(***************************************************************************)
(* The second durable queue of run_worker: evaluations of stored answers.  *)
(* An EvaluationInvocation is requested for a terminal Execution, claimed  *)
(* by an evaluator thread, renewed by its heartbeat, requeued when its     *)
(* lease runs out, and completed together with the append of its result.   *)
(* Unlike a target question an evaluation may be computed again: what must *)
(* not happen twice is the result.  Invocation ids are the request order.  *)
(* An administrator may also evaluate inline (reevaluate_stored_answer).   *)
(***************************************************************************)
EXTENDS Naturals, Sequences, FiniteSets

CONSTANTS
  Executions,        \* Executions whose answers are evaluated
  Kinds,             \* EvaluationInvocation.Kind, one evaluator key each
  MaxInvocations,    \* bound: invocations ever requested
  Processes,         \* worker and web processes
  PoolThreads,       \* threads of the evaluator pools of run_worker
  InlineThreads,     \* requests that evaluate in their own process
  ProcessOf,         \* [PoolThreads \cup InlineThreads -> Processes]
  NoProcess,         \* the empty worker_id
  NoSubject,         \* the subject of an id not yet given out
  MaxStops,          \* bound: crashes and escaped tasks
  MaxLateHeartbeats  \* bound: leases that expire under a live owner

Threads == PoolThreads \cup InlineThreads
Ids == 1..MaxInvocations
Subjects == [execution : Executions, kind : Kinds]

ASSUME QueueAssumption ==
  /\ MaxInvocations \in Nat /\ MaxStops \in Nat /\ MaxLateHeartbeats \in Nat
  /\ ProcessOf \in [Threads -> Processes]
  /\ PoolThreads \cap InlineThreads = {}
  /\ NoProcess \notin Processes
  /\ NoSubject \notin Subjects

VARIABLES
  terminal,      \* Executions with a terminal outcome
  requested,     \* number of invocations given out
  subject,       \* EvaluationInvocation.execution and kind
  state,         \* EvaluationInvocation.state, "NONE" before the request
  claim,         \* worker_id and claim_token
  attempt,       \* claim_attempt
  leased,        \* RUNNING with claim_lease_expires_at > now
  results,       \* the result rows of all subjects in the order of append
  task,          \* what each thread is doing
  up,            \* the processes that run
  stops, late    \* the bounds used so far

queueVars == <<requested, subject>>
rowVars == <<state, claim, attempt, leased>>
boundVars == <<stops, late>>
vars == <<terminal, queueVars, rowVars, results, task, up, boundVars>>

NoClaim == [worker |-> NoProcess, token |-> 0]
IdleTask == [pc |-> "idle", id |-> 0, token |-> 0]

Init ==
  /\ terminal = {}
  /\ requested = 0
  /\ subject = [i \in Ids |-> NoSubject]
  /\ state = [i \in Ids |-> "NONE"]
  /\ claim = [i \in Ids |-> NoClaim]
  /\ attempt = [i \in Ids |-> 0]
  /\ leased = [i \in Ids |-> FALSE]
  /\ results = <<>>
  /\ task = [t \in Threads |-> IdleTask]
  /\ up = Processes
  /\ stops = 0
  /\ late = 0

-----------------------------------------------------------------------------
(* Requesting.                                                             *)

\* The worker gave the Execution its outcome (see WorkerClaims).
ExecutionFinishes(x) ==
  /\ terminal' = terminal \cup {x}
  /\ UNCHANGED <<queueVars, rowVars, results, task, up, boundVars>>

\* Under the Execution's lock, so the ids of a subject are given out in order.
EnqueueInvocation(s) ==
  /\ s.execution \in terminal
  /\ requested < MaxInvocations
  /\ requested' = requested + 1
  /\ subject' = [subject EXCEPT ![requested + 1] = s]
  /\ state' = [state EXCEPT ![requested + 1] = "PENDING"]
  /\ UNCHANGED <<terminal, claim, attempt, leased, results, up, boundVars>>

Request(s) == EnqueueInvocation(s) /\ UNCHANGED task

\* The first transaction of reevaluate_stored_answer.
RequestInline(t, s) ==
  /\ task[t].pc = "idle"
  /\ ProcessOf[t] \in up
  /\ EnqueueInvocation(s)
  /\ task' = [task EXCEPT ![t] = [pc |-> "requested", id |-> requested + 1, token |-> 0]]

-----------------------------------------------------------------------------
(* Claiming and recovery.                                                  *)

\* Locked rows are skipped, so a claimer may get any pending row and not only
\* the one with the lowest id.
ClaimRow(t, i) ==
  /\ state[i] = "PENDING"
  /\ state' = [state EXCEPT ![i] = "RUNNING"]
  /\ attempt' = [attempt EXCEPT ![i] = @ + 1]
  /\ claim' = [claim EXCEPT ![i] = [worker |-> ProcessOf[t], token |-> attempt[i] + 1]]
  /\ leased' = [leased EXCEPT ![i] = TRUE]
  /\ UNCHANGED <<terminal, queueVars, results, up, boundVars>>

GiveTo(t, i) == task' = [task EXCEPT ![t] = [pc |-> "claimed", id |-> i, token |-> attempt[i] + 1]]
Release(t) == task' = [task EXCEPT ![t] = IdleTask]

ClaimNextInvocation(t, i) ==
  /\ ProcessOf[t] \in up
  /\ task[t].pc = "idle"
  /\ ClaimRow(t, i)
  /\ GiveTo(t, i)

\* The inline path takes the next pending row too: if it is another one, or
\* there is none, it raises, and a row it claimed waits for its lease.
ClaimInline(t) ==
  /\ task[t].pc = "requested"
  /\ \/ \E i \in Ids :
          ClaimRow(t, i) /\ (IF i = task[t].id THEN GiveTo(t, i) ELSE Release(t))
     \/ /\ \A i \in Ids : state[i] # "PENDING"
        /\ Release(t)
        /\ UNCHANGED <<terminal, queueVars, rowVars, results, up, boundVars>>

\* Variant: an expired invocation is given up.
GivenUp == "FAILED"

\* What an expired invocation becomes: work to do again.
Requeued == "PENDING"

\* Variant: the claim columns of a requeued row are left behind.
ClaimsKept(S) == claim

ClaimsCleared(S) == [i \in Ids |-> IF i \in S THEN NoClaim ELSE claim[i]]

\* One transaction over the expired rows S it could lock.
ReconcileStaleInvocations(p, S) ==
  /\ p \in up
  /\ S # {}
  /\ \A i \in S : state[i] = "RUNNING" /\ ~leased[i]
  /\ state' = [i \in Ids |-> IF i \in S THEN Requeued ELSE state[i]]
  /\ claim' = ClaimsCleared(S)
  /\ UNCHANGED <<terminal, queueVars, attempt, leased, results, task, up, boundVars>>

-----------------------------------------------------------------------------
(* Processing one claimed invocation.                                      *)

\* Variant: only the worker identity is compared.
OwnsByWorker(t) == claim[task[t].id].worker = ProcessOf[t]

Owns(t) ==
  LET i == task[t].id
  IN  state[i] = "RUNNING" /\ claim[i] = [worker |-> ProcessOf[t], token |-> task[t].token]

\* Re-read the row; with the claim lost there is nothing to do.
ProcessInvocation(t) ==
  /\ task[t].pc = "claimed"
  /\ IF Owns(t) THEN task' = [task EXCEPT ![t].pc = "evaluating"] ELSE Release(t)
  /\ UNCHANGED <<terminal, queueVars, rowVars, results, up, boundVars>>

ResultsOf(s) == {n \in DOMAIN results : subject[results[n].id] = s}

\* Variant: the latest result to arrive is the current one.
LatestResult(s) ==
  IF ResultsOf(s) = {} THEN 0
  ELSE CHOOSE n \in ResultsOf(s) : \A m \in ResultsOf(s) : m <= n

\* The current result of a subject (0: none): that of its highest completed
\* request, whenever it arrived.
CurrentResult(s) ==
  IF ResultsOf(s) = {} THEN 0
  ELSE CHOOSE n \in ResultsOf(s) : \A m \in ResultsOf(s) : results[m].id <= results[n].id

\* Variant: a result supersedes the current one whatever its request.
SupersedesCurrent(i) == CurrentResult(subject[i])

\* The result that a result of invocation i supersedes (0: none).
Supersedes(i) ==
  LET prior == CurrentResult(subject[i])
  IN  IF prior # 0 /\ i > results[prior].id THEN prior ELSE 0

\* The evaluator returned or failed, either is a result.  The invocation is
\* locked, then the Execution; a stale completion appends nothing.
AppendResult(t) ==
  LET i == task[t].id
  IN  /\ task[t].pc = "evaluating"
      /\ \/ /\ Owns(t)
            /\ results' = Append(results, [id |-> i, supersedes |-> Supersedes(i)])
            /\ state' = [state EXCEPT ![i] = "COMPLETED"]
            /\ leased' = [leased EXCEPT ![i] = FALSE]
         \/ ~Owns(t) /\ UNCHANGED <<results, state, leased>>
      /\ Release(t)
      /\ UNCHANGED <<terminal, queueVars, claim, attempt, up, boundVars>>

\* The heartbeat of an owned claim, expired or not.
RefreshInvocationLease(t) ==
  LET i == task[t].id
  IN  /\ task[t].pc = "evaluating"
      /\ Owns(t)
      /\ ~leased[i]
      /\ leased' = [leased EXCEPT ![i] = TRUE]
      /\ UNCHANGED <<terminal, queueVars, state, claim, attempt, results, task, up, boundVars>>

-----------------------------------------------------------------------------
(* Time and crashes.                                                       *)

HasLiveOwner(i) == \E t \in Threads : task[t].pc \in {"claimed", "evaluating"} /\ task[t].id = i /\ Owns(t)

LeaseExpires(i) ==
  /\ state[i] = "RUNNING"
  /\ leased[i]
  /\ leased' = [leased EXCEPT ![i] = FALSE]
  /\ \/ ~HasLiveOwner(i) /\ UNCHANGED late
     \/ HasLiveOwner(i) /\ late < MaxLateHeartbeats /\ late' = late + 1
  /\ UNCHANGED <<terminal, queueVars, state, claim, attempt, results, task, up, stops>>

Crash(p) ==
  /\ p \in up
  /\ stops < MaxStops
  /\ stops' = stops + 1
  /\ up' = up \ {p}
  /\ task' = [t \in Threads |-> IF ProcessOf[t] = p THEN IdleTask ELSE task[t]]
  /\ UNCHANGED <<terminal, queueVars, rowVars, results, late>>

Restart(p) ==
  /\ p \notin up
  /\ up' = up \cup {p}
  /\ UNCHANGED <<terminal, queueVars, rowVars, results, task, boundVars>>

\* An exception outside the evaluator call leaves the task.
TaskEscapes(t) ==
  /\ task[t].pc # "idle"
  /\ stops < MaxStops
  /\ stops' = stops + 1
  /\ Release(t)
  /\ UNCHANGED <<terminal, queueVars, rowVars, results, up, late>>

ThreadStep(t) == ProcessInvocation(t) \/ AppendResult(t)

Next ==
  \/ \E x \in Executions \ terminal : ExecutionFinishes(x)
  \/ \E s \in Subjects : Request(s)
  \/ \E t \in InlineThreads, s \in Subjects : RequestInline(t, s)
  \/ \E t \in InlineThreads : ClaimInline(t)
  \/ \E t \in PoolThreads, i \in Ids : ClaimNextInvocation(t, i)
  \/ \E p \in Processes, S \in SUBSET Ids : ReconcileStaleInvocations(p, S)
  \/ \E t \in Threads : ThreadStep(t) \/ RefreshInvocationLease(t) \/ TaskEscapes(t)
  \/ \E i \in Ids : LeaseExpires(i)
  \/ \E p \in Processes : Crash(p) \/ Restart(p)

Spec == Init /\ [][Next]_vars

\* The worker loop keeps claiming and reconciling, threads run, evaluators
\* return, dead processes are restarted and leases without an owner run out.
Fairness ==
  /\ \A i \in Ids : WF_vars(\E t \in PoolThreads : ClaimNextInvocation(t, i))
  /\ \A i \in Ids : WF_vars(\E p \in Processes, S \in SUBSET Ids : i \in S /\ ReconcileStaleInvocations(p, S))
  /\ \A t \in Threads : WF_vars(ThreadStep(t))
  /\ \A i \in Ids : WF_vars(~HasLiveOwner(i) /\ LeaseExpires(i))
  /\ \A p \in Processes : WF_vars(Restart(p))

FairSpec == Spec /\ Fairness

-----------------------------------------------------------------------------
(* Properties.                                                             *)

\* Every variable keeps its type, and a busy thread names an invocation.
QueueTypeOK ==
  /\ terminal \subseteq Executions
  /\ requested \in 0..MaxInvocations
  /\ subject \in [Ids -> Subjects \cup {NoSubject}]
  /\ state \in [Ids -> {"NONE", "PENDING", "RUNNING", "COMPLETED"}]
  /\ claim \in [Ids -> [worker : Processes \cup {NoProcess}, token : Nat]]
  /\ attempt \in [Ids -> Nat]
  /\ leased \in [Ids -> BOOLEAN]
  /\ results \in Seq([id : Ids, supersedes : Nat])
  /\ task \in [Threads -> [pc : {"idle", "requested", "claimed", "evaluating"},
                           id : 0..MaxInvocations, token : Nat]]
  /\ \A t \in Threads : task[t].pc # "idle" => task[t].id \in Ids
  /\ up \subseteq Processes
  /\ stops \in Nat /\ late \in Nat

\* The table's check constraint evaluations_invocation_claim_state.
InvocationClaimState ==
  \A i \in Ids :
    \/ state[i] \in {"NONE", "PENDING"} /\ claim[i] = NoClaim
    \/ state[i] = "RUNNING" /\ claim[i] # NoClaim
    \/ state[i] = "COMPLETED"

\* An invocation has exactly one result once it is completed and none before,
\* however often it was requeued and evaluated again.
OneResultPerInvocation ==
  \A i \in Ids :
    Cardinality({n \in DOMAIN results : results[n].id = i}) = (IF state[i] = "COMPLETED" THEN 1 ELSE 0)

\* The supersession chain of a subject tells its history: no result is
\* superseded twice (the database's one-to-one field), only by one of a later
\* request of the same subject, and a result that is neither superseded nor
\* current had been overtaken when it arrived.
SupersessionChain ==
  /\ \A n \in DOMAIN results :
       LET s == subject[results[n].id]
           by == {m \in DOMAIN results : results[m].supersedes = n}
       IN  /\ Cardinality(by) <= 1
           /\ \A m \in by : m > n /\ results[m].id > results[n].id /\ subject[results[m].id] = s
           /\ by = {} => \/ n = CurrentResult(s)
                         \/ \E m \in ResultsOf(s) : m < n /\ results[m].id > results[n].id

\* The answer a reader sees as current never goes back to an earlier request,
\* whatever order the evaluators finish in.
CurrentNeverGoesBack ==
  [][\A s \in Subjects :
       CurrentResult(s) # 0 => results'[CurrentResult(s)'].id >= results[CurrentResult(s)].id]_vars

\* Every requested evaluation gets its result, through crashes, lost leases
\* and claims an inline request took by mistake.
EveryInvocationCompletes == \A i \in Ids : (state[i] = "PENDING") ~> (state[i] = "COMPLETED")

\* The request of the result a reader sees (0: none), and the requests whose
\* result was replaced.
CurrentRequest(s) == IF CurrentResult(s) = 0 THEN 0 ELSE results[CurrentResult(s)].id
ReplacedRequests ==
  {results[results[n].supersedes].id : n \in {m \in DOMAIN results : results[m].supersedes # 0}}

\* What the queue promises of the results, without workers.
Evaluations == INSTANCE EvaluationLedger WITH
  final <- terminal,
  asked <- [i \in 1..requested |-> subject[i]],
  answered <- {i \in Ids : state[i] = "COMPLETED"},
  current <- [s \in Subjects |-> CurrentRequest(s)],
  superseded <- ReplacedRequests

\* The queue implements the evaluation ledger: through requeued claims, stale
\* completions, crashes and evaluators that finish in any order, a reader
\* sees one result to a request, and a current result that only moves on to
\* later requests and is superseded by the one that took its place.
ImplementsEvaluations == Evaluations!EvaluationLedgerSpec

=============================================================================
