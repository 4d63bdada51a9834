# StewardBench in TLA+

StewardBench asks an evaluated product (the *target*) frozen lists of questions,
records every answer as an immutable observation, and lets people and evaluators
compare and review the observations. The program is a Django monolith over
PostgreSQL with a separate worker process (`manage.py run_worker`). This directory
holds TLA+ models of its concurrent core, TLC configurations that check them on
small instances, and TLAPS proofs for instances of every size.

Paths below are relative to the repository (`src/` here); *services* is
`evaluations/services.py`, *models* is `evaluations/models.py`.

## 1. Inventory

| Component | State it keeps | Operations | Status |
|---|---|---|---|
| Durable target worker (services 2332-3034, `core/management/commands/run_worker.py`) | `Execution.outcome`, `target_call_phase`, the claim columns, `EvaluationRun.state`, `next_dispatch_at`, `BuildSnapshot`; one pool task per claim | claim, heartbeat, submission boundary, runtime metadata, complete, finalize the run, reconcile, stop, crash, restart | modelled: `WorkerClaims` |
| Conversation worker (services 2664-2929) | `ConversationAttempt.session_state`, `target_session_id`, `completed_at`; the turns are Executions | open or reuse the session, submit a turn, mark unusable and block, close | modelled: `ConversationWorker`, composed with its target in `ConversationTarget` |
| Evaluation invocations, "M9" (services 1182-1685) | `EvaluationInvocation` rows with claim columns, append-only `AutomatedEvaluationResult` and `LLMJudgeResult` with `supersedes` | enqueue, claim, heartbeat, append a result, requeue, evaluate inline | modelled: `EvaluationQueue` |
| Run launch and manifests (services 108-509) | `EvaluationRun`, its Executions, `ResolvedBinding` rows, snapshots | launch a run or a conversation, progress | partly: `RunLaunch`, without bindings and snapshots |
| Controlled comparison (services 611-956, 1688-1892) | `ComparisonItem`, `SemanticComparisonResult` | launch from a baseline, exact comparison in the completing transaction, semantic comparison, re-evaluation; launch of a conversation | partly: `ControlledComparison`, without normalization and comparators; the summary is in `Reporting`, the replay of a conversation in `RunLaunch` |
| Human review and validity (services 1703-1740, 1930-2076) | `review_state`, `validity`, append-only event rows | set state, record a review, require one, invalidate, semantic triage | modelled: `ControlledComparison` |
| Baselines (services 533-608) | `Baseline`, its members, attention events | create, activate, attention when a member becomes invalid | modelled: `ControlledComparison` |
| Retry and rerun (services 2079-2322) | new Runs behind a unique `retry_request_key` | retry an execution, a conversation, rerun a source run | modelled: `RunLaunch` |
| Test catalog (`catalog/`) | temporal versions of questions, targets, scenarios | create, revise, change the lifecycle under the parent's lock | partly: `Catalog`, without products, environments, domains, tags and fixtures |
| Corpus import (`corpus/`) | imported workbooks, question identities | import under an advisory lock, no-op for known identities | partly: `CorpusImport`, without the parser and the imported rows |
| Accounts (`accounts/`) | users, roles | bootstrap of the first administrator under an advisory lock | not modelled (planned) |
| Target adapters (`evaluations/adapters.py`) | none in the database | build a request, classify the reply: error class, outcome, continuity of the session | modelled: `TargetAdapter` |
| Reporting, performance, operator answers (`evaluations/reporting.py`, `evaluations/performance.py`, models 1060-1230) | none | counts of Runs, Baselines and Comparisons, bands, deltas, regressions, percentiles | partly: `Reporting`, `Performance`, without exports and filters on names and dates |
| Views, forms, templates | none | call the services | not modelled |
| Harness and fake target (`harness/fake_target/server.py`) | the target's sessions, in memory; a journal and barriers for tests | open a session, take a turn, lose a session, close it | partly: `ConversationTarget` |
| Deployment: scripts, images | | restart of a worker | partly: `Restart` of `WorkerClaims` |

### How the parts interact

Everything meets in PostgreSQL rows. A web request launches a Run: its rows are
frozen and PENDING. It reads the current versions of a catalog that other administrators, and the import of
a workbook, change meanwhile; a retry, rerun or replay repeats an earlier Run in a new one. Each worker process runs one loop: reconcile stale target claims
and stale evaluation claims, claim as many Executions as its target pool has room for
(`SELECT ... FOR UPDATE SKIP LOCKED`), claim evaluation invocations for a second pool,
wait, repeat. A pool thread processes one claim in several short transactions with
remote calls between them; a daemon thread renews its lease. Every transaction after
the claim tests that the row is still RUNNING under the worker identity and the token
of that claim. The last completion of a Run finalizes it; a comparison, when there is
one, is appended in the completing transaction; reviews, baselines and evaluations
read terminal observations later.

### What is hard

* **Remote calls between transactions.** What a thread read before the metadata call,
  the open call or the question is stale when it writes.
* **Crashes around the submission boundary.** After `_mark_submission_started` nobody
  knows whether the question left; before it the question certainly did not.
* **Leases and clocks.** A lease can run out under a live owner; two threads then
  believe they own the row, and two threads of one process share the worker identity.
* **Conversations.** Finishing a turn takes up to three transactions, with other
  workers free to claim the next turn between them.
* **Two views of one session.** The worker's attempt and the target's session agree only
  as far as replies arrive: a request can time out and be handled later, a reply can be
  lost, a gateway can answer for the target.
* **Results out of order.** Evaluations finish in any order; the reader sees one
  current result.
* **Long reads of a changing catalog.** A launch locks the target but not the questions, an import locks its workbook
  but not the catalog, and a retry looks its key up before it inserts.
* **Graceful stop and restart.** SIGTERM ends claiming, the pools drain; a killed
  container is restarted (`compose.yaml:32`).

### What makes each part correct

* Target worker: a planned question is asked at most once; one owner at a time can
  write; an observation and a finished run are final; a run finishes exactly with its
  last member, with errors exactly when one failed; capacity; every run finishes.
* Conversation: turns reach the target in order, over one session, and not after the
  session's continuity was lost; blocked turns are never sent; the attempt's record
  agrees with its turns; whatever the target did with lost requests, a turn counted as
  answered was answered in its context.
* Evaluation queue: one result per request, the current result never goes back,
  the supersession chain is sound, every request completes.
* Catalog and launches: a scenario and its companion question agree; a retry form makes one Run, a new
  request a new one; a Run down a chain of retries asks what its source asked; a launch goes to an active target.
* Reports: counts of the same rows agree with each other, and leave nothing out unsaid; a
  regression is what the methodology says it is.
* Comparison, review, baselines: a projection agrees with its append-only events and
  with the observations, whichever order they come in.

`PROJECT.json` lists the hazards with their lines.

## 2. Modules

| Module | Role |
|---|---|
| `ExecutionLedger` | abstract specification: what the worker promises of every planned question, with no workers |
| `WorkerClaims` | the target worker; `Ledger` is its refinement mapping |
| `ConversationLedger` | extends `ExecutionLedger`: what the worker promises of a conversation, with no workers and no finishing transactions |
| `ConversationWorker` | extends `WorkerClaims`: the session around the turns; composes the actions of `WorkerClaims` with the attempt's state; `Conversation` is its refinement mapping |
| `TargetAdapter` | what the adapters make of a reply; functions only |
| `ConversationTarget` | extends `ConversationWorker`: the worker composed with the target's sessions and the requests on their way |
| `EvaluationLedger` | abstract specification: what a reader of the results sees of the evaluation queue, with no workers |
| `EvaluationQueue` | the evaluation queue; `Evaluations` is its refinement mapping |
| `ControlledComparison` | baselines, replays of a baseline, exact and semantic comparison, review state and validity |
| `Reporting` | extends `ControlledComparison`: the reports as state functions, and what must agree between them |
| `Performance` | latency bands, deltas, regressions, percentiles; functions only |
| `Catalog` | questions, scenarios with their companions, targets, and their versions |
| `CorpusImport` | extends `Catalog`: the import transaction |
| `RunLaunch` | extends `Catalog`: launch, rerun, retry, replay |
| `CatalogRuns` | composes the three: who waits for whom, and the next-state relation |
| `WorkerClaimsProofs` | TLAPS theorems about `WorkerClaims` |
| `LedgerProofs` | TLAPS proof that `WorkerClaims` implements `ExecutionLedger` |
| `ConversationProofs`, `TargetProofs` | TLAPS theorems about `ConversationWorker` and `ConversationTarget` |
| `EvaluationProofs` | TLAPS theorems about `EvaluationQueue` |
| `ComparisonProofs` | TLAPS theorems about `ControlledComparison` and `Reporting` |
| `PerformanceProofs` | TLAPS theorems about `Performance` |
| `CatalogProofs` | TLAPS theorems about `CatalogRuns` |
| `MCWorkerClaims`, `MCConversationWorker`, `MCConversationTarget`, `MCEvaluationQueue`, `MCControlledComparison`, `MCCatalogRuns` | the functions over constants and the symmetry that the instances need, and evaluations of pure functions |

Definitions keep the names of the functions they model (`MarkSubmissionStarted` is
`_mark_submission_started`); `PROJECT.json` "map" gives the lines of each. Some
definitions preceded by "Variant:" are plausible bugs of the definition that follows
them; no specification uses them. They document what each property rules out.

### WorkerClaims

One action is one transaction, or one step of a thread between two transactions.

| Action | Code |
|---|---|
| `Claim` | `claim_next_execution`: eligibility, run-level and revision-level capacity over unexpired claims, fresh token, run to RUNNING |
| `Reconcile` | `reconcile_stale_claims`: never-submitted rows back to PENDING with their claim cleared, all others to ERROR and TERMINAL, runs finalized |
| `Prepare` | start of `process_claim`: ownership, preflight error, is runtime metadata needed |
| `RecordRuntimeMetadata` | `_record_runtime_metadata` after the remote call; `EvaluationRun`/`BuildSnapshot.save` refuse a finished run |
| `SetupFails` | the `except` branches before the boundary |
| `MarkSubmissionStarted` | `_mark_submission_started`, the durable boundary |
| `SubmitQuestion`, `TargetAnswers` | the adapter call: the request leaves; an answer, a timeout or an exception comes back |
| `CompleteExecution` | `_complete_execution` with `_finalize_run_if_complete` and the inter-question delay |
| `RefreshClaimLease` | `_ClaimHeartbeat` and `refresh_claim_lease` |
| `LeaseExpires`, `DelayElapses` | database time |
| `Crash`, `TaskEscapes`, `Stop`, `Exit`, `Restart` | the process: kill, an exception that leaves a pool task, SIGTERM, end of the drain, container restart |

Abstractions, each with its reason:

* *Time.* `leased[e]` is "`claim_lease_expires_at` is in the future", `dispatchHeld[r]`
  is "`next_dispatch_at` is in the future": the code asks nothing else of time. A lease
  may expire under a live owner (a late heartbeat, a paused process, a slow database).
* *Tokens.* The uuid4 of a claim is `attempt + 1`: unique among the claims of a row,
  which is all the code relies on.
* *SKIP LOCKED.* Rows held by another transaction are skipped, so `Claim` may take any
  eligible row and `Reconcile` any set of stale rows.
* *Restart* keeps the worker identity. `run_worker` generates a new one unless
  `--worker-id` fixes it; keeping it is the harder case for fencing.
* *Prepare* reads the row and the snapshot together: the snapshot is looked at again,
  locked, in `RecordRuntimeMetadata`, so nothing depends on the earlier look.
* *History.* `requests` counts the question requests sent; it is not in the database.
* `ClaimStateConstraint` is the table's check constraint, with TERMINAL as the only phase
  of a terminal row, which is what this code writes (the constraint tolerates more for
  migrated rows).
* *Legacy rows.* Rows that were RUNNING when the M4 migration ran are LEGACY_UNKNOWN and
  may or may not have been sent.

### ConversationWorker

A turn goes through the actions of `WorkerClaims`; each is conjoined with what the
conversation does at that step. `EnsureConversationSession` and `SessionOpens` or
`SessionOpenFails` are `_ensure_conversation_session` before and after the open call.
The finish of a turn is three actions, as it is three transactions: `CompleteTurn`,
`MarkConversationSessionUnusable` (or `MarkUnusableRefused` when the model's save refuses
and the transaction rolls back), and `CloseConversation` with `SessionCloses`.
`ReconcileTurns` closes an ambiguous turn, marks its session and blocks the rest of the
conversation in one transaction, as the code does.
`broken` is a history variable: a terminal turn left the continuity in doubt.
`OrdinalAssumption` says that the turns of a Run have distinct numbers and one of them is the first: the catalog numbers them from 1
without gaps (`catalog/services.py:329`), and a launch refuses a scenario without turns (services:271).

`ConversationLedger` is what an observer sees of all this. In its terms a turn is queued, owned, being sent or over; what it adds to
`ExecutionLedger` is that turns are taken and asked one after the other, over one session that the first of them opens before any is asked; that the
turns given up with their session (`blocked`: terminal without ever having had an owner) are never asked; and that a conversation is `over`, for good,
after its last turn. `CompleteTurn` is `ObserveTurn` (or a stutter, if the thread has lost the turn), `MarkConversationSessionUnusable` is `GiveUp`, `ReconcileTurns` is `RecoverTurns`,
`SessionCloses` is `CloseConversation`. A turn that recovery closed may still be asked, by the thread that lost it, as long as no later one was; the ledger allows that of any turn that was being sent.

### TargetAdapter and ConversationTarget

`TargetAdapter` abstracts a reply to what its classification reads: how the call ended, the
HTTP status, the kind of body, the continuity signal in it. `QuestionError`, `TurnError`,
`TurnContinuity`, `OpenContinuity`, `Closes` and `MetadataState` are the calls of the two adapters.

| Action of `ConversationTarget` | Code |
|---|---|
| `SendTurn` | the request of a turn enters the wire |
| `AcceptTurn`, `RefuseTurn` | the fake target decides under its lock (`Accepts`: the session exists, is usable and expects this ordinal), and a reply sets out, which finds its caller gone or is on its way |
| `LoseSession` | an accepted turn scripted `session_loss` takes the session with it, in a lock section of its own, before its reply sets out |
| `TurnAnswered` | the reply arrives, whatever became of the session since it set out |
| `TurnUnheard` | the caller times out, is refused or hears a gateway: a reply on its way is lost, a request not handled yet, or a loss to come, stays |
| `OpenAnswered`, `OpenOrphaned`, `OpenRefused`, `CloseAnswered` | opening and closing a session |

* *Request, handling and reply are steps of their own*: the server lets its lock go (server.py:196) before it replies (471-491), so a
  reply tells of a state that may be over. In particular an earlier turn that its caller has given up, and whose script loses the
  session (198-204), may do so while the next turn's reply is on its way: the worker is then told USABLE of a session that is gone. In the race of
  finding 2 the coordinator does send the next turn while the one before it is unresolved, so `ContinuityIsTrue` says what is left:
  the session exists and expects exactly the next turn, and it is usable or the conversation was in doubt before the reply.
* *Comparing and counting a turn* are two lock sections (168-174, 182-196) and one step. No two requests of the worker share an ordinal, as a
  turn is sent at most once, so nothing can take the turn's place between them; and a loss of the session between them is the same as one after them.
* *The wire* is unordered. A request that is never handled is one that stays there; a reply is lost when its caller has gone.
* Every step is a step of `ConversationWorker` or a stutter of it (`TargetImplementsWorker`); the target only decides what
  `ConversationWorker` leaves to chance.

### EvaluationQueue

Invocation ids are natural numbers in request order; per Execution the code gives them out
under the Execution's lock. `CurrentResult` is `current_judge_result` and
`current_automated_results`: the highest request, not the latest arrival. `ClaimInline`
is `reevaluate_stored_answer`, which claims the next pending row and raises if that is not
the row it just created. An evaluator's failure is a result like any other, so the model does
not tell outcomes apart.

`EvaluationLedger` is what a reader sees: answers that became final, the requests in their order, which of them have a result, the request of
the current result of each subject, and the requests whose result was replaced. `ExecutionFinishes` is `AnswerFinal`, `EnqueueInvocation` (from a page or
inline) is `Ask`, `AppendResult` of the owner is `Answer`; claims, renewals, requeues and stale completions are stutters.

### ControlledComparison

| Action | Code |
|---|---|
| `BeginPromotion`, `CommitPromotion`, `SetBaselineActive` | `create_baseline`, `set_baseline_active` |
| `LaunchControlledComparison` | `launch_controlled_comparison`: the reasons why a member cannot be replayed are frozen in the new rows |
| `CompareExact`, `CommitCompletion`, `RollBackCompletion` | the part of `_complete_execution` that compares: `_compare_exact_and_triage` and the first semantic comparison |
| `CloseWithoutComparing` | `reconcile_stale_claims` and the blocking of a conversation, which end a replay without a comparison |
| `ReevaluateSemantic` | a semantic result appended to a stored pair, with its effect on the review state (`Triage`) |
| `MarkReviewRequired`, `MarkReviewedWithoutJudgment`, `RecordHumanReview` | the administrators' decisions on review |
| `SetExecutionValidity` | `set_execution_validity`, with the attention events of every Baseline that has the member |

* *Two steps where rows are read unlocked.* Promotion locks the Run, not its Executions, and its memberships
  are visible to others only when it commits; an invalidation can come between. A completion reads the source
  before `compare_semantically` locks it. Every other operation is one transaction on locked rows and one action. A launch
  is one step too: nobody knows the new rows before it commits, and the completion asks the source again.
* *Projection and events.* `tracking` is the latest `ReviewTracking` event. Its state is `review_state`, as the
  code writes both in one transaction; `by` tells who wrote it, which `_is_exact_change_only_requirement` asks.
* *Data.* ERROR stands for TIMEOUT too (neither has an answer). Whether two answers are equal is a choice. The comparator
  that a completion uses is the unconfigured default, which gives ERROR; a re-evaluation takes any outcome, as its comparator is a
  parameter of the service. `set_review_state(..., NONE)` is called by no view and is left out.
* *History.* `onceValid`: the members VALID when a Baseline was committed.
* A review requested by hand on an execution that the exact comparison already marked leaves no event (services:1939), so an
  EQUIVALENT verdict can release it. The model has this behaviour; the shipped comparator never gives that verdict.

### Reporting and Performance

A report is a function of the rows, so `Reporting` adds no action: `RunProgress`, `RunReviewMetrics`, `BaselineCompleteness`,
`RunTrendRow`, `ComparisonSummary` and `FilterSemantic` are the queries of `reporting.py` as cardinalities over the state of
`ControlledComparison`, read in any state that its interleavings reach. `Performance` gives the latency evidence of a pair in
integers: a percentage is its value in hundredths, rounded half up as the stored `Decimal` is.

### Catalog, CorpusImport, RunLaunch, CatalogRuns

| Action | Code |
|---|---|
| `CreateQuestion`, `CreateQuestionVersion`, `SetQuestionLifecycle`, `CreateScenario`, `CreateScenarioVersion`, `UpdateScenarioMetadata`, `CreateTarget`, `UpdateTarget`, `CreateTargetRevision` | the functions of `catalog/services.py` of these names (`CreateScenario` is `create_conversation_scenario`) |
| `BeginImport`, `ImportQuestion`, `CommitImport`, `RollBackImport` | `apply_import`: checks under the advisory lock, one question of the workbook, the end of the transaction |
| `BeginLaunch`, `FreezeQuestion`, `CommitLaunch` | `launch_run`: the target is locked and read, each question is read in its turn, the rows are committed |
| `BeginRerun` | `rerun_source_run` up to its call of `launch_run` |
| `LookUpKey`, `LockConversation`, `KeyTaken`, `InsertRetry`, `InsertConversationRetry` | `retry_execution` and `retry_conversation_attempt`: lookup of the key, the lock of a conversation with the read of the current revision, the `IntegrityError` branch, the insertion |
| `LaunchConversationScenario`, `LaunchReplay` | `launch_conversation_scenario`, `launch_controlled_comparison` with `launch_controlled_conversation_comparison` |
| `Observe` | the worker, abstracted: an Execution, or a whole conversation, becomes terminal |

* *Versions.* Closing the current version and inserting the next one commit together under the parent's lock, so the
  current version is the number of the last one. `effective_at`, texts, bindings and turns are data; of a text the model keeps whether
  it is the workbook's, which is what an import asks.
* *Two steps where rows are read unlocked.* A launch locks its target from the first read to the commit and no question;
  an import reads the catalog again, row by row; a retry looks up its key before its lock. All other operations read only what they lock
  or what never changes, and are one action.
* *The retry of a conversation* reads the current revision (services:2218) and inserts its Run later (2225). Its `select_for_update` names no
  table in `of`, so it locks every row that its `select_related` joins, the target's with them (2211-2216; the comment at 2181-2183 tells of a query that
  restricts its lock for that reason). `create_target_revision` and `update_target` wait for that row (`Locked`), from `LockConversation`
  to the insertion or the end of the request: this is what makes `LaunchHoldsTarget` true of these Runs as well. It does not ask whether the target is active.
* *Who waits.* Foreign keys are checked at commit, so rows that an open
  transaction refers to are not locked; whoever commits a reference to a locked target waits (`Locked`).
* *Unique columns.* Whoever inserts the `stable_id` of an uncommitted question waits (`Uncommitted`), and the unique
  `retry_request_key` makes one of two insertions fail (`KeyFree`, `KeyTaken`).
* *Pages.* `execution_detail` puts a new uuid4 into its retry form each time it is shown, the conversation's form in `run_detail.html:14`
  the id of the Run. A page is one rendering; its form may be submitted repeatedly.
* *Initial states.* An empty catalog; or one in use, without Runs or with one finished Run.
* A Baseline is any finished Run here; its activation is in `ControlledComparison`.

## 3. Runs

| Run | Question | Instance |
|---|---|---|
| `claims_safety` | Are the invariants and the ledger kept by every interleaving? | two parallel questions of one run and one legacy row of another, two threads with one worker identity, 1 stop, 1 late heartbeat |
| `claims_liveness` | Does every run finish; is the shared slot ever given twice while heartbeats are on time? | two runs that share one slot of a target revision, two processes, a preflight error, 2 stops, 1 late heartbeat |
| `conversation_safety` | The worker with its target: does it implement the conversation ledger (order, one session, blocking, completion); is what it goes on from true of the target, is every answer in its context, does a conversation in doubt leave no turn waiting? | three turns, two threads in two processes, a target that answers, refuses, fails or loses the session, lost, late or overtaken requests and replies, 1 stop, 1 late heartbeat |
| `evaluation_queue` | Does the queue implement the evaluation ledger (one result each, a current result that only moves on); sound supersession, progress | two requests, two pool threads, one inline request, 1 stop, 1 late heartbeat |
| `controlled_comparison` | Does the review state agree with results, events and decisions, in whatever order they come; do baselines tell of lost members; do the reports agree? | two executions, two baselines, one comparison, 2 decisions, 2 semantic results per item |
| `catalog_runs` | Do launches, retries and reruns keep their promises while the catalog changes and a workbook is imported? | two questions, one of them in the workbook, a scenario, a target, two importers, two requests, three Runs, two pages, 2 changes |
| `claims_capacity` | finding 1 | a sequential run, 1 late heartbeat, no stop |
| `conversation_race` | finding 2 | two turns, two processes, no stop |
| `conversation_record` | finding 3 | two turns, one thread, no stop |
| `conversation_stuck` | finding 4 | three turns, two processes, 1 stop |
| `comparison_promotion` | finding 5 | as `controlled_comparison`, 3 decisions |
| `retry_conversation_again` | finding 6 | as `catalog_runs` |

Why these bounds are enough to be interesting: two threads are what it takes for a stale
owner and a fresh one; both identities cases occur (one process in `claims_safety`, two in
the others). One stop lets a claim die in any of its steps, and be recovered and taken again;
two in the liveness run let the recovering process die as well. One late heartbeat makes one
live owner stale, and a second stale owner differs from it only by the token, which the proof covers for any number.
The conversation's two threads run in two processes, so a session is used by one process and inherited by another; its processes are
symmetric with their threads. Three turns give a turn that fails, one that is claimed meanwhile, and one that is blocked.
`MaxStops` and `MaxLateHeartbeats` bound the environment only; `MaxInvocations` bounds the requests.
In `controlled_comparison`, `MaxDecisions` and `MaxResults` bound administrators and evaluators: two decisions make a source INVALID
and VALID again around a launch or a completion, or one of them reviews; two results release a review and ask for it again. Two
executions give a usable member and a lost one, two baselines an active and an inactive one with the same members; comparisons share nothing but
the sources, which is why one is enough. Executions and baselines are symmetric (no liveness there).
In `catalog_runs`, two requests race for one key or one target, three Runs give a chain of two links, and `MaxChanges` lets a question
and a target change once each, or one of them twice, at any moment of a launch. Two importers meet at the advisory lock. The question outside
the workbook shares a launch with the one inside. Requests, Runs, pages and importers are symmetric.
Pure functions are evaluated by assumptions of the MC modules: `ReplyClasses` classifies every reply, `PairsClassified`, `QuantilesOrdered`
and `RanksNearest` the performance evidence around its thresholds and on all small samples.
All runs set `CHECK_DEADLOCK FALSE`: when every run is finished the system has nothing to do.

**Fairness.** `claims_liveness` assumes that the worker loop keeps claiming whenever some row is
eligible and keeps reconciling every stale row (the loop polls for ever), that pool threads run and
a target call ends by its timeout, that a lease without a live owner runs out and a dispatch delay
elapses (time passes), that a stopping process exits once drained and that a dead one is restarted
(`restart: unless-stopped`). Claims get one weak fairness for the whole system, not one per row: nothing
in the code makes it take a particular row. The heartbeat gets none: a lease
renewal is never needed for progress. `evaluation_queue` assumes the same of the second queue, with fairness for
each row because the code takes the lowest id first and nothing blocks it; the inline request gets none for
its claim. Conversations have no liveness run: `conversation_stuck` shows that they can wait for ever.
What remains are two facts about the states in which no thread is at work: `AttemptEndsWithoutCrash` (without a crash no attempt with a usable session is left open
once its turns are over) and `DoubtEndsConversation` (without a crash or a late heartbeat a conversation whose session was given up has no turn waiting). The latter leaves
crashes out because with one it is false: the other half of its hazard (services:2741) is what `conversation_stuck` shows by `UnusableSessionQueuesNothing`.
`controlled_comparison` and `catalog_runs` assume no fairness: nothing there has to happen.

## 4. Findings

1. **Capacity can be exceeded** (`claims_capacity`). `docs/development.md:222` promises at most one
   active claim for a sequential run. A lease that ran out is not counted, so another question is
   claimed; `refresh_claim_lease` then renews the first lease, as it tests the identity
   and token but not that the lease is unexpired. `CapacityWhileTimely` is the
   guarantee that remains: capacity holds as long as no lease expired under a live owner.
2. **A turn can be sent on a session in doubt** (`conversation_race`). The turn becomes terminal in
   one transaction and the session unusable in the next; between them another thread claims and
   sends the next turn.
3. **The loss of continuity on the last turn is not recorded** (`conversation_record`). The run is finalized
   by the turn's completion; marking the session finalizes it again, is refused, and the transaction is
   rolled back. The attempt stays ACTIVE, and incomplete.
4. **A turn can be stuck** (`conversation_stuck`). A turn that is claimed while the session is marked is
   not blocked; if its worker dies before the boundary it is queued again, and the guard of the claim
   skips it for ever, so its run never finishes.
5. **A baseline without a usable member that nobody is told of** (`comparison_promotion`). `create_baseline` refuses a run
   without a usable member (services:581) and later invalidation raises attention (`docs/domain-model.md:361`). An invalidation that commits
   between the check and the commit of the promotion sees no membership and flags nothing, and the promotion does not look again.
6. **A conversation can be retried once only** (`retry_conversation_again`). Its retry form carries the id of the Run as the key
   (`run_detail.html:14`), so every later retry finds the key taken (services:2208), gets the Run of the first retry and is told
   that a new one was created (`views.py:1165`). `docs/architecture.md:268` promises a new run for every deliberate retry, and the form of
   an Execution has a new key on every page (`views.py:479`).

Smaller divergences met while modelling, which no run shows:

* A stale worker whose completion was refused still marks the session of the present owner UNUSABLE (services:2816-2824).
* The adapter believes the continuity signal of a refused open (adapters:418). A target that refuses to open a session and calls it USABLE leaves a
  conversation of one turn with an attempt that nobody completes: its thread finds no session to close. The fake target never sends it, so `AttemptsEnd` holds of the composition.
* A 401 or 403 to a question is AUTHENTICATION_FAILED, to a turn of a conversation HTTP_ERROR. A timeout while connecting is a
  TARGET_TIMEOUT to the fake-http adapter and CONNECTION_FAILED to the OpsSteward one. Oversize runtime metadata raises a failure,
  though metadata is advisory.
* `comparison_summary` (`good_to_bad`) and `baseline_completeness` count INVALID executions, `run_review_metrics` and the trend do
  not; `ReportsReconcile` states by how much the reports may differ.
* `docs/evaluation-methodology.md:395` puts the threshold of a regression at 25 %; the stored percentage is rounded first, so 24.995 % is one
  as well (`RegressionThreshold`), and a baseline of 0 ms never regresses (`DocumentedRegressionsFound`).
* `docs/evaluation-methodology.md:401` says that p50, p90 and p95 all use the nearest rank. The code's p50 is `int(median(values))`
  (reporting:789): of an even sample the mean of the two middle values, cut to an integer. `Performance` follows the code (`IntMedian`).
* The filter NOT_RUN means another set for Executions (reporting:183) than for comparison items (reporting:313), and
  `target_adapter_statuses` sorts unfinished Executions first (reporting:1031).

## 5. Proofs

`WorkerClaimsProofs` and `LedgerProofs` prove, for any number of executions, runs, processes and threads, any capacities
and any number of crashes and late heartbeats (assumptions: the `ASSUME`s of `WorkerClaims`, which type the constants; for capacity also `CapacityAssumption`: finitely many rows, and Runs
of one target revision agree on its maximum, which is frozen with the revision). `ConversationProofs` and `TargetProofs` do so for any number of
conversations and turns and any number of lost and late requests, `EvaluationProofs` for any number of requests and subjects;
`ComparisonProofs` does the same for any number of executions, baselines and comparisons, any number of decisions and
results (`ComparisonAssumption`: the kinds of rows are distinct; for the reports `FiniteRun`: a Run is finite); `CatalogProofs` for any catalog, workbook and history of changes,
any number of importers, requests, pages and Runs (`CatalogAssumption`, `ImportAssumption`, `LaunchAssumption`: the ids of questions
and scenarios, and of Runs and pages, are disjoint, a workbook holds questions only, the null values are values of their own).
`PerformanceProofs` needs no assumption but that latencies are natural numbers and a sample is sorted. All properties of the passing runs are
proved except the two liveness properties:

| Theorem | Property |
|---|---|
| `TypeCorrect` | `TypeOK` |
| `ClaimStateCorrect` | `ClaimStateConstraint` |
| `SubmissionCorrect`, `AtMostOnce` | `SubmissionInv`, hence `AtMostOneRequest` |
| `FencingCorrect`, `OneOwner` | `FencingTokens`, hence `SingleOwner` |
| `AggregationCorrect` | `RunAggregation` |
| `ObservationsFinal` | `ObservationsImmutable` |
| `AnsweredCorrect` | an answer or a timeout implies a request (used by the next) |
| `LedgerImplemented` | `ImplementsLedger`: the refinement of `ExecutionLedger` |
| `CapacityCorrect`, `ConversationsKeepCapacity` | `CapacityWhileTimely`, for single questions and in conversations |
| `FirstSnapshotStays` | `SnapshotFirstWriteWins` |
| `ConversationTypeCorrect` | `ConversationTypeOK` |
| `ConversationKeepsWorkerInvariants` | `ClaimStateConstraint`, `AtMostOneRequest`, `SingleOwner`, `RunAggregation`, in conversations |
| `ConversationObservations` | no step of a conversation overwrites a terminal row |
| `BlockedNeverSent` | a turn closed without an owner was never sent and never will be |
| `AttemptsCompleteLast` | an attempt completes, and its session is closed, only after its last turn |
| `OneSession` | `OneSessionPerAttempt` |
| `TurnsInOrder` | `TurnsSentInOrder` |
| `ConversationImplemented` | `ImplementsConversation`: the refinement of `ConversationLedger` |
| `DoubtEnds`, `TargetEndsDoubt` | `DoubtEndsConversation`, of the worker and of its composition with the target |
| `TargetImplementsWorker`, `TargetKeepsLedger` | `TargetSpec` implements `ConversationSpec`, which carries all of these to the composition, and so `ConversationLedger` |
| `AttemptsEnd` | `AttemptEndsWithoutCrash` |
| `ContinuityTrue` | `ContinuityIsTrue` |
| `AnsweredInContext` | `ContextComplete` |
| `QueueTypeCorrect` | `QueueTypeOK` |
| `InvocationClaims` | `InvocationClaimState` |
| `OneResult` | `OneResultPerInvocation` |
| `EvaluationsImplemented` | `ImplementsEvaluations`: the refinement of `EvaluationLedger` |
| `CurrentAdvances` | the current result never goes back to an earlier request |
| `ChainSound` | `SupersessionChain` |
| `ReportsAgree` | `ReportsReconcile` |
| `RegressionThreshold`, `DocumentedRegressionsFound` | where the rounding puts the threshold of a regression, and which documented regressions are reported |
| `StateAndBandAgree`, `ColumnOverflow` | state and band of a pair do not contradict; which pairs overflow the percentage column |
| `PercentileIsNearestRank`, `StatisticsOrdered` | percentiles of any sample are nearest ranks, and ordered |
| `TypeCorrect` of `ComparisonProofs` | `ComparisonTypeOK` |
| `ItemsExplained` | `ItemTellsWhy` |
| `ChangesSeen` | `ChangeIsSeen` |
| `ReviewsJudged` | `ReviewedAnswerIsJudged` |
| `AdminEventsStand` | `AdminEventStands` |
| `VerdictsOfValidPairs` | `SemanticOfValidPairs` |
| `InvalidationsFlagged` | `InvalidatedMemberFlagged` |
| `TypeCorrect` of `CatalogProofs` | `CatalogRunsTypeOK` |
| `CompanionsInStep` | `CompanionInStep` |
| `ImportsKeepQuestions` | `ImportKeepsQuestions` |
| `LaunchesHoldTarget` | `LaunchHoldsTarget` |
| `RetriedOnce` | `RetryOnce` |
| `LineageIsKept` | `LineageKept` |

**The argument.** *At most one request* is not inductive: from a state in which a row that was sent may
still be requeued the next step breaks it. `SubmissionInv` adds what rules that out: a row in NONE or
CLAIMED was never sent, and of the threads that passed the boundary of a row at most one has still to
send. The last part needs that at the boundary at most one thread owns the row, which is `FencingTokens`:
no two threads hold the same token of a row, as every claim gets a token larger than all handed
out before. `FencingTokens` is inductive with `TypeOK` alone. `ClaimStateConstraint` links the outcome to the phase
and the claim; `SubmissionInv` needs it (a thread owns only RUNNING rows). `RunAggregation` is inductive
with `TypeOK` and `ClaimStateConstraint` (a PENDING row has phase NONE) and rests on the fact that every transaction that makes a row terminal
finalizes its run in the same transaction, and that no claim goes to a finished run. `ObservationsImmutable` follows step by step from
`RunAggregation` and the ownership tests. All these invariants are also checked by TLC in `claims_safety`.

*The refinement.* `Claim` is `Take`, `MarkSubmissionStarted` is `BeginSending`, `SubmitQuestion` is `Ask`,
`CompleteExecution` of an owner is `Observe`, `Reconcile` is `Recover`; every other step is a stutter. The ledger
judges every run at every step, so each case needs `RunAggregation'` (lemma `JudgeStep`). `Ask` needs `SubmissionInv`
(the row is past the boundary and was not sent), and `Observe` of an answer needs one more invariant, `AnsweredAsked`:
a thread that waits for an answer, or has one, sent the request. It rests on `SubmissionInv` too, as a second request would
break it.

*Capacity.* A claim is admitted by counting unexpired leases, so the count bounds the owners only while every owner's lease is unexpired.
`TimelyInv` says so: as long as `late = 0`, whoever owns a row holds its lease (`OwnersLeased`), as an expiry under a live owner is a late
heartbeat. Then a renewal activates no claim that was not counted (`NoneActivated`), and only `Claim` adds one, within the bound
(`ClaimWithinCapacity`). Finding 1 is what happens with `late = 1`. The four steps that a conversation adds end claims or leave them alone (`TurnsTimelyStep`).

*Conversations.* The columns of `WorkerClaims` change in a conversation by a step of `WorkerClaims` or one of four of its own: a turn that
fails before it is sent, the marking of a session, recovery with its blocked turns, an exception after the task (lemma `Classified`). Along
these cases `WorkerInv` (the invariants of the worker) is carried over once, and the conversation's invariants use it. `UnownedInv`: no thread
will send a turn that was closed without an owner. `CompletionInv`: a thread that closes the session does so for turns that are all over.
`SessionInv`: no session was opened yet while the first turn, the only one that opens any, is before the boundary or its thread has still to look for the session. `OrderInv` makes `TurnsSentInOrder`
inductive: while a turn is open no later one was sent; and a thread that may still send a turn it lost to recovery finds that no later
turn was sent or is queued, because recovery before the boundary gives back the same turn and after it closes it and blocks the rest.
A step of the target is a stutter of the worker or one of its steps with the target's choice in it, which is all of
`TargetImplementsWorker`.

*The target.* `WireInv` ties the wire to the attempts: a turn is on it once, was sent over the recorded session, and has been counted by it if
the target has accepted it. `TalkInv` is that with the invariants of the worker, and `ContextInv` carries it to `ContextComplete`: an answer
that is about to be recorded was given in context too, and the attempt keeps its session.

*Continuity.* A reply tells of the state in which it set out, so `ContinuityTrue` rests on what it still says when it arrives (`BeliefInv`). No
later turn can have been counted meanwhile: behind a turn that is being sent or waited for none was sent (`BehindInv`), and a session expects the
turn after one that was sent (`CountInv`). That the session is usable unless the conversation was in doubt already is `DoubtInv`: a request that may still lose its
session, and a session that is lost, belong to a turn that has left the conversation in doubt, or whose owner will, because it has not heard USABLE and
cannot any more (`Hanging`, `Missing`). When the reply to an accepted turn arrives,
no other turn can be waited for, so that what is left is a doubt that is recorded.

*The conversation ledger.* `ConversationInv` is all of these invariants together with `AnsweredAsked` and `OpenedInv`: whoever goes on with a recorded session
has an opened one. Each action is then a step of the ledger, or changes nothing it shows (`Shown`). The two steps that the ledger could refuse are the opening, which needs that
no turn was asked yet (`SessionInv`, through the first turn), and `AskTurn`, which needs `OrderInv` for the turns after it and `UnownedInv` for a turn that its
thread has lost. `MarkConversationSessionUnusable` and `ReconcileTurns` share `EndTurns`; that the marking may come in the name of a turn the thread has lost is why `GiveUp` asks for nothing of the turn.

*The end of an attempt.* That no attempt is left open says who completes it, among any number of threads: `Closer` is the invariant that, until an attempt
which ended well is completed, some thread is at `CloseConversation` or in the close call for it. It is disturbed in three ways. The last turn becomes
terminal: then by its owner, in a state that leaves the session usable, and that thread is the one (`TerminalStep`, `UndoubtedCompletion`). The thread in question looks and finds
nothing to close: then the attempt is done, or has no session, which `FirstOver` excludes, as the first turn answers over a recorded session only (`HeardInv`). Or a session given up
becomes usable again by the late answer to an open call: whoever is still in that call lost its turn, and with it the continuity (`OwnedInv`). `HeardInv` needs one fact of the
target: it does not vouch for a session it refused to open (`HonestTarget`), which is why the theorem is about `TargetSpec`; of `ConversationSpec` it is false.

*Doubt.* `DoubtEndsConversation` speaks of states in which nobody works; `CalmInv` says who is still to act in all the others, as long as
nothing crashed and no heartbeat was late. `Held`: every busy thread owns its turn and every running turn has such a thread, so nothing is recovered and
the rows move by claims and the steps of threads only (lemma `CalmStep`). `DoubtFollowed`: a doubt is recorded, came with the last turn, or is about to be recorded
by a thread on its way to the mark. That thread finds the run unfinished, so the marking is not refused, and it gives up every waiting turn. `NothingWaits`: after
the mark no turn waits, as none comes back to the queue. A turn which was claimed before the mark is ended by its own thread. What must not happen is that the
session becomes usable again between doubt and mark; only the first turn opens one (`OpenersFirst`), and there is no doubt before it is over (`FirstUndoubted`,
which needs `OrderInv`). With a crash it is false: the turn of finding 4 waits for ever.

*The queue.* `QueueInv` is the types, that requests are numbered in order (`IdsInOrder`), that a subject with results has a highest one
(`HighestExists`), and that results belong one to one to COMPLETED invocations (`ResultInv`). Two workers may hold one invocation after a lease ran out; only the one whose token is in the row
completes it. Each step keeps the results, enqueues one, or completes an invocation (lemma `Shapes`). `SupersessionChain`
counts successors and is proved from `ChainInv`, which speaks of each result alone: what it supersedes is older and
of its subject (`LinkInv`), nothing is superseded twice (`OnceInv`), and a result is superseded, overtaken or the highest (`TailInv`).
The refinement adds to these what the two shown columns do at each of the three shapes: kept results show the same (`ShownKept`), an appended one moves the current request of its
own subject, if it is higher, and no other (`ShownStep`), and replaces the result that was current just then, which needs that every link points at an older result (`ReplacedStep`, from `LinkInv`).

*The reports.* `ReportInv` is what the counts rest on: an answered replay has an item, a semantic outcome belongs to a CHANGED item,
and NOT_RUN means no result. The sets behind the counts then partition each other, and `CountParts` adds them up.

*The comparison.* A completion commits what it computed from an earlier state, so none of these properties is inductive. `PairsInv` says
what stays true of a completion in progress: its replay is still PENDING (`CompletionsFit`), a source never changes its outcome, a replay
exists only once launched, and the item it holds fits the frozen reason and the source's outcome. `ReviewInv` adds that an
execution which is not terminal has no review event (`OpenUntouched`), so that the event of the committing completion overwrites
nothing, and that an administrator's event never says NONE (`AdminDecides`), so that only a verdict can release a change. The action
properties follow step by step.

*The catalog and the Runs.* A launch, a retry and an import use what they read in an earlier step, so each property needs to know what stayed
true meanwhile. `TargetHeld`: a target that is held keeps the revision its holder has read, and one that a launch holds stays active, as changes to it wait.
`CreatedAbsent`: what a running import has created is absent from the catalog, and no two imports created the same question. `RetryInv` makes
`RetryOnce` inductive by saying what a key means: the key of a Run that repeats a conversation is its source (`KeysFit`), any other
key is a page that some request submitted for exactly this observation, and a page is about one observation (`PagesFit`); so
whoever finds a Run under his key finds the right one (lemma `KeyRepeats`). `LineageInv` adds that versions only grow
(`GrowingVersions`, which needs `CreatedAbsent`), that every frozen version is one the question has, and that a rerun in progress has read
nothing older than its source froze; with that a link of a chain is a fact about two manifests which never change (`RunsStay`).

**Only model-checked.** Liveness (`AllRunsFinish`, `EveryInvocationCompletes`): the prover has no rule for fairness
and ENABLED. The findings are counterexamples of TLC.

## 6. Plan

Done: all modules and theorems above. What is left, in this order:

1. `WorkerLocks`: the lock orders of claim, reconcile, complete and mark, for deadlock (services:2487). A deadlock that the database breaks is an
   exception in one of the transactions, and the models have those as `TurnEscapes`, `TaskEscapes` and `SetupFails`.
2. A clock for the inter-question delay (services:2648), of which the model knows only whether the next dispatch is held.
3. The bootstrap of the first administrator (`accounts/`), which is small and takes an advisory lock as the import does.

### Not modelled

* Conversion of data: request bodies and envelopes of the adapters, redaction, workbook cells (`corpus/workbook.py`), answer
  normalization and comparators, CSV and JSON exports, the structured operator answer. What the rest decides by is kept: a reply's class, whether two answers are equal, whether a
  text is the workbook's.
* Views, forms and templates: they read rows and call the services; the keys their pages carry are in `RunLaunch`.
* The target's health check: advisory, it writes nothing that another operation reads.
* Sign-in and permissions (Django's), the fake target's journal, barriers and control endpoints (test instruments), images and scripts.
