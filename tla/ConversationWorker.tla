------------------------- MODULE ConversationWorker -------------------------
(***************************************************************************)
(* Conversation Runs: the Executions of a Run are the ordered turns of one *)
(* ConversationAttempt and share one target session.  A turn is claimed,   *)
(* sent and completed by the actions of WorkerClaims; this module adds the *)
(* session around them.  process_claim finishes a turn in up to three      *)
(* transactions (complete, mark unusable, close) with other workers free   *)
(* to act in between, so a thread whose task is over may still be busy     *)
(* here.  Every Run of this module has an attempt.                         *)
(***************************************************************************)
EXTENDS WorkerClaims, TargetAdapter

CONSTANT Ordinal      \* [Executions -> Nat], conversation_turn.ordinal

ASSUME OrdinalAssumption ==
  /\ Ordinal \in [Executions -> Nat \ {0}]
  /\ \A e, f \in Executions : RunOf[e] = RunOf[f] /\ Ordinal[e] = Ordinal[f] => e = f
  /\ \A r \in Runs : \E e \in Executions : RunOf[e] = r /\ Ordinal[e] = 1

\* Conversations came with a migration later than M4's.
ASSUME NoLegacyTurns == Legacy = {}

VARIABLES
  session,       \* ConversationAttempt.session_state
  sessionId,     \* target_session_id: the number of the session, 0 while blank
  attemptDone,   \* completed_at is set
  turn,          \* what a thread does around and after its task
  opened,        \* history: sessions opened at the target
  broken         \* history: a terminal turn left the continuity in doubt

attemptVars == <<session, sessionId, attemptDone>>
conversationVars == <<attemptVars, turn, opened, broken>>
allVars == <<vars, conversationVars>>

NoTurn == [step |-> "none", exec |-> NoExecution, continuity |-> "USABLE", sid |-> 0]

ConversationInit ==
  /\ Init
  /\ session = [r \in Runs |-> "PENDING"]
  /\ sessionId = [r \in Runs |-> 0]
  /\ attemptDone = [r \in Runs |-> FALSE]
  /\ turn = [t \in Threads |-> NoTurn]
  /\ opened = [r \in Runs |-> 0]
  /\ broken = [r \in Runs |-> FALSE]

-----------------------------------------------------------------------------
(* Shared pieces.                                                          *)

\* Variant: only answered turns count as over.
AllTurnsAnswered(out, r) == \A e \in MembersOf(r) : out[e] = "SUCCESS"

AllTurnsTerminal(out, r) == \A e \in MembersOf(r) : out[e] \in TerminalOutcomes

\* Variant: a turn does not wait for the turns before it.
UsableSession(e) == session[RunOf[e]] # "UNUSABLE"

\* The claim's guards for a conversation turn.
TurnReady(e) ==
  /\ session[RunOf[e]] # "UNUSABLE"
  /\ \A f \in MembersOf(RunOf[e]) : Ordinal[f] < Ordinal[e] => outcome[f] \in TerminalOutcomes

\* Variant: any turn that finds no session opens one.
AnyTurn(e) == TRUE

\* Only the first turn may open the session.
FirstTurn(e) == Ordinal[e] = 1

Free(t) == turn[t].step = "none"
SetStep(t, step) == turn' = [turn EXCEPT ![t].step = step]
SetContinuity(t, c) == turn' = [turn EXCEPT ![t].step = "none", ![t].continuity = c]

\* Variant: the dependent turns stay in the queue.
NoneBlocked(R) == {}

\* The dependent turns of R's attempts that no worker has claimed.
Blocked(R) == {e \in Executions : RunOf[e] \in R /\ outcome[e] = "PENDING"}

-----------------------------------------------------------------------------
(* One turn: the steps of WorkerClaims with the session around them.       *)

ClaimTurn(t, e) ==
  /\ Free(t)
  /\ TurnReady(e)
  /\ Claim(t, e)
  /\ UNCHANGED conversationVars

\* A preflight error is finished as an unusable session.
PrepareTurn(t) ==
  /\ Prepare(t)
  /\ SetContinuity(t, IF task[t].exec \in Preflight THEN "UNUSABLE" ELSE "USABLE")
  /\ UNCHANGED <<attemptVars, opened, broken>>

\* A setup call raises: a ConversationFailure names the continuity, any
\* other exception leaves it unknown.
SetupTurnFails(t) ==
  /\ SetupFails(t)
  /\ SetContinuity(t, "UNKNOWN")
  /\ UNCHANGED <<attemptVars, opened, broken>>

RecordTurnMetadata(t) ==
  /\ RecordRuntimeMetadata(t)
  /\ SetContinuity(t, IF task'[t].pc = "answered" THEN "UNKNOWN" ELSE "USABLE")
  /\ UNCHANGED <<attemptVars, opened, broken>>

MarkTurnSubmissionStarted(t) == MarkSubmissionStarted(t) /\ UNCHANGED conversationVars

\* Read the attempt after the boundary: fail the turn, reuse the recorded
\* session, or call the target to open one.
EnsureConversationSession(t) ==
  LET e == task[t].exec
      r == RunOf[e]
      unusable == session[r] = "UNUSABLE"
      missing == sessionId[r] = 0
  IN  /\ task[t].pc = "started"
      /\ Free(t)
      /\ \/ /\ unusable \/ (missing /\ ~FirstTurn(e))
            /\ Observed(t, "ERROR")
            /\ SetContinuity(t, "UNUSABLE")
            /\ UNCHANGED opened
         \/ /\ ~unusable /\ ~missing
            /\ SetStep(t, "ready")
            /\ UNCHANGED <<task, opened>>
         \/ /\ ~unusable /\ missing /\ FirstTurn(e)
            /\ opened' = [opened EXCEPT ![r] = @ + 1]
            /\ turn' = [turn EXCEPT ![t].step = "opening", ![t].sid = opened[r] + 1]
            /\ UNCHANGED task
      /\ UNCHANGED <<rowVars, runVars, process, requests, boundVars, attemptVars, broken>>

\* The open call returned.  The session becomes the attempt's unless another
\* was recorded meanwhile; its state becomes ACTIVE whatever it was.
SessionOpens(t) ==
  LET r == RunOf[task[t].exec]
  IN  /\ turn[t].step = "opening"
      /\ sessionId[r] = 0
      /\ sessionId' = [sessionId EXCEPT ![r] = turn[t].sid]
      /\ session' = [session EXCEPT ![r] = "ACTIVE"]
      /\ SetStep(t, "ready")
      /\ UNCHANGED <<vars, attemptDone, opened, broken>>

\* The call raises, or returns after another session was recorded.
SessionOpenFails(t, c) ==
  /\ turn[t].step = "opening"
  /\ Observed(t, "ERROR")
  /\ SetContinuity(t, c)
  /\ UNCHANGED <<rowVars, runVars, process, requests, boundVars, attemptVars, opened, broken>>

SubmitTurn(t) ==
  /\ turn[t].step = "ready"
  /\ SubmitQuestion(t)
  /\ SetStep(t, "none")
  /\ UNCHANGED <<attemptVars, opened, broken>>

\* An answer, a timeout (continuity unknown) or a failure with the adapter's
\* continuity signal.
TurnAnswers(t, result, c) ==
  /\ result = "SUCCESS" => c = "USABLE"
  /\ result = "TIMEOUT" => c = "UNKNOWN"
  /\ TargetAnswers(t, result)
  /\ SetContinuity(t, c)
  /\ UNCHANGED <<attemptVars, opened, broken>>

-----------------------------------------------------------------------------
(* Finishing a turn (_conversation_finish): up to three transactions.      *)

\* The first: the observation.  The thread goes on whether or not it still
\* owned the claim.
CompleteTurn(t) ==
  LET r == RunOf[task[t].exec]
      c == turn[t].continuity
  IN  /\ CompleteExecution(t)
      /\ turn' = [turn EXCEPT ![t] =
           [step |-> IF c = "USABLE" THEN "close" ELSE "mark", exec |-> task[t].exec,
            continuity |-> c, sid |-> 0]]
      /\ broken' = [broken EXCEPT ![r] = @ \/ (Owns(t) /\ c # "USABLE")]
      /\ UNCHANGED <<attemptVars, opened>>

\* The attempts of R become unusable, and are done, like their runs, if no
\* turn is left: one that is still claimed goes on.
EndSessions(R) ==
  /\ session' = [r \in Runs |-> IF r \in R THEN "UNUSABLE" ELSE session[r]]
  /\ attemptDone' = [r \in Runs |-> attemptDone[r] \/ (r \in R /\ AllTurnsTerminal(outcome', r))]
  /\ FinalizeRuns(R)
  /\ dispatchHeld' = [r \in Runs |-> dispatchHeld[r] /\ runState'[r] \notin TerminalRunStates]

\* The second: the session becomes unusable and every unclaimed turn is
\* closed as blocked; a claimed one goes on.
MarkConversationSessionUnusable(t) ==
  LET r == RunOf[turn[t].exec]
      B == Blocked({r})
  IN  /\ turn[t].step = "mark"
      /\ runState[r] \notin TerminalRunStates
      /\ outcome' = [e \in Executions |-> IF e \in B THEN "ERROR" ELSE outcome[e]]
      /\ phase' = [e \in Executions |-> IF e \in B THEN "TERMINAL" ELSE phase[e]]
      /\ EndSessions({r})
      /\ SetStep(t, "close")
      /\ UNCHANGED <<claim, attempt, leased, snapshot, process, task, requests, boundVars,
                     sessionId, opened, broken>>

\* Finalizing a finished run again is refused: the whole transaction is
\* rolled back and the exception ends the pool task.
MarkUnusableRefused(t) ==
  /\ turn[t].step = "mark"
  /\ runState[RunOf[turn[t].exec]] \in TerminalRunStates
  /\ turn' = [turn EXCEPT ![t] = NoTurn]
  /\ UNCHANGED <<vars, attemptVars, opened, broken>>

\* The third: after the last turn, call the target to close the session.
CloseConversation(t) ==
  LET r == RunOf[turn[t].exec]
      due == /\ ~attemptDone[r] /\ session[r] # "UNUSABLE" /\ sessionId[r] # 0
             /\ AllTurnsTerminal(outcome, r)
  IN  /\ turn[t].step = "close"
      /\ turn' = [turn EXCEPT ![t] = IF due THEN [@ EXCEPT !.step = "closing"] ELSE NoTurn]
      /\ UNCHANGED <<vars, attemptVars, opened, broken>>

\* The close call returned or failed; the first to record it completes the
\* attempt.
SessionCloses(t, ok) ==
  LET r == RunOf[turn[t].exec]
  IN  /\ turn[t].step = "closing"
      /\ attemptDone' = [attemptDone EXCEPT ![r] = TRUE]
      /\ session' = IF ok /\ ~attemptDone[r] THEN [session EXCEPT ![r] = "CLOSED"] ELSE session
      /\ turn' = [turn EXCEPT ![t] = NoTurn]
      /\ UNCHANGED <<vars, sessionId, opened, broken>>

-----------------------------------------------------------------------------
(* Recovery, crashes and stops.                                            *)

\* Reconciliation closes a turn that may have been sent, marks its session
\* unusable and blocks the turns after it in the same transaction.
ReconcileTurns(p, S) ==
  LET unstarted == {e \in S : SafeToReclaim(e)}
      ambiguous == S \ unstarted
      R == {RunOf[e] : e \in ambiguous}
      closed == ambiguous \cup Blocked(R)
  IN  /\ process[p] = "up"
      /\ S # {}
      /\ \A e \in S : Stale(e)
      /\ outcome' = [e \in Executions |->
           IF e \in unstarted THEN "PENDING" ELSE IF e \in closed THEN "ERROR" ELSE outcome[e]]
      /\ phase' = [e \in Executions |->
           IF e \in unstarted THEN "NONE" ELSE IF e \in closed THEN "TERMINAL" ELSE phase[e]]
      /\ claim' = ClaimsCleared(unstarted)
      /\ EndSessions(R)
      /\ broken' = [r \in Runs |-> broken[r] \/ r \in R]
      /\ UNCHANGED <<attempt, leased, snapshot, process, task, requests, boundVars,
                     sessionId, turn, opened>>

CrashWorker(p) ==
  /\ Crash(p)
  /\ turn' = [t \in Threads |-> IF ProcessOf[t] = p THEN NoTurn ELSE turn[t]]
  /\ UNCHANGED <<attemptVars, opened, broken>>

\* A database error escapes a task or one of its finishing transactions.
TurnEscapes(t) ==
  /\ \/ TaskEscapes(t)
     \/ /\ task[t].pc = "idle" /\ ~Free(t)
        /\ stops < MaxStops
        /\ stops' = stops + 1
        /\ UNCHANGED <<rowVars, runVars, process, task, requests, late>>
  /\ turn' = [turn EXCEPT ![t] = NoTurn]
  /\ UNCHANGED <<attemptVars, opened, broken>>

ExitWorker(p) ==
  /\ \A t \in ThreadsOf(p) : Free(t)
  /\ Exit(p)
  /\ UNCHANGED conversationVars

\* Heartbeats, time, graceful stops and restarts do not touch the attempt.
OutsideTurns ==
  /\ \/ \E t \in Threads : RefreshClaimLease(t)
     \/ \E e \in Executions : LeaseExpires(e)
     \/ \E r \in Runs : DelayElapses(r)
     \/ \E p \in Processes : Stop(p) \/ Restart(p)
  /\ UNCHANGED conversationVars

-----------------------------------------------------------------------------

\* What a thread does without hearing from the target.
TurnStep(t) ==
  \/ PrepareTurn(t) \/ SetupTurnFails(t) \/ RecordTurnMetadata(t)
  \/ MarkTurnSubmissionStarted(t) \/ EnsureConversationSession(t)
  \/ CompleteTurn(t) \/ MarkConversationSessionUnusable(t) \/ MarkUnusableRefused(t)
  \/ CloseConversation(t)

\* The conversation calls of a thread, with every end the adapter has for them.
TargetCall(t) ==
  \/ SessionOpens(t)
  \/ \E c \in Continuities : SessionOpenFails(t, c)
  \/ SubmitTurn(t)
  \/ \E result \in TerminalOutcomes, c \in Continuities : TurnAnswers(t, result, c)
  \/ \E ok \in BOOLEAN : SessionCloses(t, ok)

ApartFromTarget ==
  \/ \E t \in Threads, e \in Executions : ClaimTurn(t, e)
  \/ \E t \in Threads : TurnStep(t) \/ TurnEscapes(t)
  \/ \E p \in Processes, S \in SUBSET Executions : ReconcileTurns(p, S)
  \/ \E p \in Processes : CrashWorker(p) \/ ExitWorker(p)
  \/ OutsideTurns

ConversationNext == ApartFromTarget \/ \E t \in Threads : TargetCall(t)

ConversationSpec == ConversationInit /\ [][ConversationNext]_allVars

-----------------------------------------------------------------------------
(* Properties.                                                             *)

\* Every variable keeps its type, and a thread that is finishing a turn
\* names it and holds no task.
ConversationTypeOK ==
  /\ TypeOK
  /\ session \in [Runs -> {"PENDING", "ACTIVE", "UNUSABLE", "CLOSED"}]
  /\ sessionId \in [Runs -> Nat]
  /\ attemptDone \in [Runs -> BOOLEAN]
  /\ turn \in [Threads -> [step : {"none", "opening", "ready", "mark", "close", "closing"},
                           exec : Executions \cup {NoExecution},
                           continuity : Continuities, sid : Nat]]
  /\ \A t \in Threads : turn[t].step \in {"mark", "close", "closing"} =>
       turn[t].exec \in Executions /\ task[t].pc = "idle"
  /\ opened \in [Runs -> Nat]
  /\ broken \in [Runs -> BOOLEAN]

\* The target hears the turns of a conversation in their order: no late
\* worker sends a turn after a later one was sent.
TurnsSentInOrder ==
  [][\A e \in Executions : requests'[e] # requests[e] =>
       \A f \in MembersOf(RunOf[e]) : Ordinal[f] > Ordinal[e] => requests[f] = 0]_allVars

\* An attempt opens one session at most, through crashes and recovery, and
\* never replaces the one it recorded.
OneSessionPerAttempt ==
  [][\A r \in Runs : opened'[r] <= 1 /\ (sessionId[r] # 0 => sessionId'[r] = sessionId[r])]_allVars

\* An attempt completes, and its session is closed, only after its last turn.
AttemptCompletion ==
  \A e \in Executions :
    attemptDone[RunOf[e]] \/ session[RunOf[e]] = "CLOSED" => outcome[e] \in TerminalOutcomes

\* A turn closed without ever having had an owner was never sent, and never
\* will be by a worker that lost it.
BlockedTurnsNeverSent ==
  \A e \in Executions :
    outcome[e] \in TerminalOutcomes /\ claim[e] = NoClaim => requests[e] = 0

\* An attempt whose session stayed usable is completed by the thread that
\* ended its last turn, or by one that ended beside it: without a crash, none
\* is left open with all its turns over and no thread at work.
AttemptEndsWithoutCrash ==
  \A r \in Runs :
    ( /\ stops = 0 /\ ~broken[r] /\ session[r] # "UNUSABLE"
      /\ \A e \in MembersOf(r) : outcome[e] \in TerminalOutcomes
      /\ \A t \in Threads : task[t].pc = "idle" /\ Free(t) ) => attemptDone[r]

\* A conversation whose continuity is in doubt ends: without a crash or a late
\* heartbeat, once no thread is at work, none of its turns is left waiting.
DoubtEndsConversation ==
  \A r \in Runs :
    ( /\ stops = 0 /\ late = 0 /\ (broken[r] \/ session[r] = "UNUSABLE")
      /\ \A t \in Threads : task[t].pc = "idle" /\ Free(t) ) => AllTurnsTerminal(outcome, r)

\* No turn is sent once the adapter has left the continuity of the session
\* in doubt.
NoTurnAfterBrokenContinuity ==
  [][\A e \in Executions : requests'[e] # requests[e] => ~broken[RunOf[e]]]_allVars

\* When the work on a conversation is over, an attempt whose continuity was
\* in doubt is marked unusable.
BrokenContinuityRecorded ==
  \A r \in Runs :
    ( /\ broken[r] /\ AllTurnsTerminal(outcome, r)
      /\ \A t \in Threads : task[t].pc = "idle" /\ Free(t) ) => session[r] = "UNUSABLE"

\* Once the session is unusable no turn is left in the queue.
UnusableSessionQueuesNothing ==
  \A e \in Executions : session[RunOf[e]] = "UNUSABLE" => outcome[e] # "PENDING"

\* What the worker promises of a conversation, without workers: the turns
\* closed without an owner are the blocked ones.
Conversation == INSTANCE ConversationLedger WITH
  ledger <- [e \in Executions |-> Status(e)],
  asked <- requests,
  verdict <- [r \in Runs |-> IF runState[r] \in TerminalRunStates THEN runState[r] ELSE "OPEN"],
  blocked <- {e \in Executions : outcome[e] \in TerminalOutcomes /\ claim[e] = NoClaim},
  over <- attemptDone

\* The worker implements the conversation ledger: through its three finishing
\* transactions, crashes, late workers and recovery, an observer sees turns
\* asked one after the other over one session, none asked twice or after it
\* was given up, and conversations that end once, after their last turn.
ImplementsConversation == Conversation!ConversationLedgerSpec

=============================================================================
