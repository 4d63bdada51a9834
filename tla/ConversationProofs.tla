-------------------------- MODULE ConversationProofs --------------------------
(***************************************************************************)
(* Proofs about ConversationWorker, for any number of conversations, turns,*)
(* processes and threads.  Every step of a conversation is, for the        *)
(* columns of WorkerClaims, a step of WorkerClaims or one of four of its   *)
(* own: a turn that fails before it is sent, the marking of a session, the *)
(* recovery with its blocked turns, and an exception after the task.  The  *)
(* invariants of WorkerClaims are carried over along that classification;  *)
(* the order of the turns and the single session then follow from them.    *)
(***************************************************************************)
EXTENDS ConversationWorker, LedgerProofs

Steps == {"none", "opening", "ready", "mark", "close", "closing"}
Turns == [step : Steps, exec : Executions \cup {NoExecution}, continuity : Continuities, sid : Nat]

\* What a thread does around its task goes with what it does in it.
TurnOK ==
  /\ turn \in [Threads -> Turns]
  /\ \A t \in Threads : turn[t].step \in {"mark", "close", "closing"} =>
       turn[t].exec \in Executions /\ task[t].pc = "idle"
  /\ \A t \in Threads : turn[t].step \in {"opening", "ready"} => task[t].pc = "started"
  /\ \A t \in Threads : turn[t].step = "opening" => turn[t].sid # 0

\* The steps of a conversation that are no steps of WorkerClaims.
FailsTurn(t) ==
  /\ task[t].pc = "started"
  /\ Observed(t, "ERROR")
  /\ UNCHANGED <<rowVars, runVars, process, requests, boundVars>>

OnlyStops ==
  /\ stops' = stops + 1
  /\ UNCHANGED <<rowVars, runVars, process, task, requests, late>>

\* Each step of a conversation, seen from the columns of WorkerClaims.
LEMMA Classified ==
  ASSUME TurnOK, ConversationNext
  PROVE  \/ [Next]_vars
         \/ \E t \in Threads : FailsTurn(t)
         \/ \E t \in Threads : MarkConversationSessionUnusable(t)
         \/ \E p \in Processes, S \in SUBSET Executions : ReconcileTurns(p, S)
         \/ OnlyStops
<1> DEFINE Goal == \/ [Next]_vars
                   \/ \E t \in Threads : FailsTurn(t)
                   \/ \E t \in Threads : MarkConversationSessionUnusable(t)
                   \/ \E p \in Processes, S \in SUBSET Executions : ReconcileTurns(p, S)
                   \/ OnlyStops
<1>1. ASSUME NEW t \in Threads, NEW e \in Executions, ClaimTurn(t, e)
      PROVE  Goal
  BY <1>1 DEF ClaimTurn, Next
<1>2. ASSUME NEW t \in Threads, TurnStep(t)
      PROVE  Goal
  <2>1. CASE PrepareTurn(t) \/ RecordTurnMetadata(t) \/ MarkTurnSubmissionStarted(t) \/ CompleteTurn(t)
    <3>1. ThreadStep(t)
      BY <2>1 DEF PrepareTurn, RecordTurnMetadata, MarkTurnSubmissionStarted, CompleteTurn, ThreadStep
    <3>2. QED
      BY <3>1 DEF Next
  <2>2. CASE SetupTurnFails(t)
    BY <2>2 DEF SetupTurnFails, Next
  <2>3. CASE EnsureConversationSession(t)
    <3>1. FailsTurn(t) \/ UNCHANGED vars
      BY <2>3 DEF EnsureConversationSession, FailsTurn, vars
    <3>2. QED
      BY <3>1
  <2>4. CASE MarkConversationSessionUnusable(t)
    BY <2>4
  <2>5. CASE MarkUnusableRefused(t) \/ CloseConversation(t)
    BY <2>5 DEF MarkUnusableRefused, CloseConversation
  <2>6. QED
    BY <1>2, <2>1, <2>2, <2>3, <2>4, <2>5 DEF TurnStep
<1>3. ASSUME NEW t \in Threads, TargetCall(t)
      PROVE  Goal
  <2>1. CASE SessionOpens(t) \/ \E ok \in BOOLEAN : SessionCloses(t, ok)
    BY <2>1 DEF SessionOpens, SessionCloses
  <2>2. ASSUME NEW c \in Continuities, SessionOpenFails(t, c)
        PROVE  FailsTurn(t)
    BY <2>2 DEF SessionOpenFails, FailsTurn, TurnOK
  <2>3. CASE SubmitTurn(t)
    BY <2>3 DEF SubmitTurn, ThreadStep, Next
  <2>4. ASSUME NEW result \in TerminalOutcomes, NEW c \in Continuities, TurnAnswers(t, result, c)
        PROVE  Goal
    BY <2>4 DEF TurnAnswers, ThreadStep, Next
  <2>5. QED
    BY <1>3, <2>1, <2>2, <2>3, <2>4 DEF TargetCall
<1>4. ASSUME NEW t \in Threads, TurnEscapes(t)
      PROVE  Goal
  BY <1>4 DEF TurnEscapes, OnlyStops, Next
<1>5. ASSUME NEW p \in Processes, CrashWorker(p) \/ ExitWorker(p)
      PROVE  Goal
  BY <1>5 DEF CrashWorker, ExitWorker, Next
<1>6. CASE OutsideTurns
  BY <1>6 DEF OutsideTurns, Next
<1>7. QED
  BY <1>1, <1>2, <1>3, <1>4, <1>5, <1>6 DEF ConversationNext, ApartFromTarget

\* A stutter of the whole state is one of WorkerClaims.
LEMMA ClassifiedStep ==
  ASSUME TurnOK, [ConversationNext]_allVars
  PROVE  \/ [Next]_vars
         \/ \E t \in Threads : FailsTurn(t)
         \/ \E t \in Threads : MarkConversationSessionUnusable(t)
         \/ \E p \in Processes, S \in SUBSET Executions : ReconcileTurns(p, S)
         \/ OnlyStops
BY Classified DEF allVars

-----------------------------------------------------------------------------
(* Types.                                                                  *)

LEMMA NoTurnType == NoTurn \in Turns /\ NoTurn.step = "none"
BY DEF NoTurn, Turns, Steps, Continuities

TurnsKept(t) == \A u \in Threads \ {t} : turn'[u] = turn[u]

LEMMA SetStepTurn ==
  ASSUME TurnOK, NEW t \in Threads, NEW s \in Steps, SetStep(t, s)
  PROVE  /\ turn' \in [Threads -> Turns] /\ TurnsKept(t)
         /\ turn'[t].step = s /\ turn'[t].exec = turn[t].exec /\ turn'[t].sid = turn[t].sid
<1> DEFINE moved == [turn[t] EXCEPT !.step = s]
<1>1. turn[t] \in Turns /\ turn \in [Threads -> Turns]
  BY DEF TurnOK
<1>2. /\ moved \in Turns /\ moved.step = s
      /\ moved.exec = turn[t].exec /\ moved.sid = turn[t].sid
  BY <1>1 DEF Turns
<1>3. turn' = [turn EXCEPT ![t] = moved]
  BY <1>1 DEF SetStep
<1> HIDE DEF moved
<1>4. QED
  BY <1>1, <1>2, <1>3 DEF TurnsKept

LEMMA SetContinuityTurn ==
  ASSUME TurnOK, NEW t \in Threads, NEW c \in Continuities, SetContinuity(t, c)
  PROVE  /\ turn' \in [Threads -> Turns] /\ TurnsKept(t)
         /\ turn'[t].step = "none" /\ turn'[t].continuity = c
<1> DEFINE moved == [turn[t] EXCEPT !.step = "none", !.continuity = c]
<1>1. turn[t] \in Turns /\ turn \in [Threads -> Turns]
  BY DEF TurnOK
<1>2. moved \in Turns /\ moved.step = "none" /\ moved.continuity = c
  BY <1>1 DEF Turns, Steps
<1>3. turn' = [turn EXCEPT ![t] = moved]
  BY <1>1 DEF SetContinuity
<1> HIDE DEF moved
<1>4. QED
  BY <1>1, <1>2, <1>3 DEF TurnsKept

LEMMA NoTurnTurn ==
  ASSUME TurnOK, NEW t \in Threads, turn' = [turn EXCEPT ![t] = NoTurn]
  PROVE  turn' \in [Threads -> Turns] /\ TurnsKept(t) /\ turn'[t].step = "none"
BY NoTurnType DEF TurnOK, TurnsKept

\* A step of thread t has only to answer for what t does itself.
LEMMA TurnOKKept ==
  ASSUME TurnOK, NEW t \in Threads, OthersKept(t), TurnsKept(t), turn' \in [Threads -> Turns],
         turn'[t].step \in {"mark", "close", "closing"} =>
           turn'[t].exec \in Executions /\ task'[t].pc = "idle",
         turn'[t].step \in {"opening", "ready"} => task'[t].pc = "started",
         turn'[t].step = "opening" => turn'[t].sid # 0
  PROVE  TurnOK'
BY DEF TurnOK, OthersKept, TurnsKept

\* Where a thread is in the code is kept by every step.
LEMMA TurnOKStep ==
  ASSUME TypeOK, opened \in [Runs -> Nat], TurnOK, ConversationNext
  PROVE  TurnOK'
<1> USE DEF Steps, Continuities
<1>1. ASSUME NEW t \in Threads, NEW e \in Executions, ClaimTurn(t, e)
      PROVE  TurnOK'
  <2>1. OthersKept(t)
    BY <1>1 DEF ClaimTurn, Claim, TypeOK, OthersKept
  <2>2. turn' = turn /\ turn[t].step = "none"
    BY <1>1 DEF ClaimTurn, Free, conversationVars
  <2>3. QED
    BY <2>1, <2>2, TurnOKKept DEF TurnsKept, TurnOK
<1>2. ASSUME NEW t \in Threads, TurnStep(t)
      PROVE  TurnOK'
  <2>1. CASE PrepareTurn(t)
    <3>1. OthersKept(t)
      BY <2>1, GoToStep, ObservedStep, ReleaseStep DEF PrepareTurn, Prepare, Pcs, TerminalOutcomes
    <3>2. turn' \in [Threads -> Turns] /\ TurnsKept(t) /\ turn'[t].step = "none"
      BY <2>1, SetContinuityTurn DEF PrepareTurn
    <3>3. QED
      BY <3>1, <3>2, TurnOKKept
  <2>2. CASE SetupTurnFails(t)
    <3>1. OthersKept(t)
      BY <2>2, ObservedStep DEF SetupTurnFails, SetupFails, TerminalOutcomes
    <3>2. turn' \in [Threads -> Turns] /\ TurnsKept(t) /\ turn'[t].step = "none"
      BY <2>2, SetContinuityTurn DEF SetupTurnFails
    <3>3. QED
      BY <3>1, <3>2, TurnOKKept
  <2>3. CASE RecordTurnMetadata(t)
    <3>1. OthersKept(t)
      BY <2>3, GoToStep, ObservedStep DEF RecordTurnMetadata, RecordRuntimeMetadata, Pcs, TerminalOutcomes
    <3>2. turn' \in [Threads -> Turns] /\ TurnsKept(t) /\ turn'[t].step = "none"
      BY <2>3, SetContinuityTurn DEF RecordTurnMetadata
    <3>3. QED
      BY <3>1, <3>2, TurnOKKept
  <2>4. CASE MarkTurnSubmissionStarted(t)
    <3>1. OthersKept(t)
      BY <2>4, GoToStep, ReleaseStep DEF MarkTurnSubmissionStarted, MarkSubmissionStarted, Pcs
    <3>2. turn' = turn /\ task[t].pc = "ready"
      BY <2>4 DEF MarkTurnSubmissionStarted, MarkSubmissionStarted, conversationVars
    <3>3. turn[t].step \notin {"mark", "close", "closing", "opening", "ready"}
      BY <3>2 DEF TurnOK
    <3>4. QED
      BY <3>1, <3>2, <3>3, TurnOKKept DEF TurnsKept, TurnOK
  <2>5. CASE EnsureConversationSession(t)
    <3>1. task[t].pc = "started"
      BY <2>5 DEF EnsureConversationSession
    <3>2. CASE Observed(t, "ERROR") /\ SetContinuity(t, "UNUSABLE")
      BY <3>1, <3>2, ObservedStep, SetContinuityTurn, TurnOKKept DEF TerminalOutcomes
    <3>3. CASE SetStep(t, "ready") /\ UNCHANGED task
      BY <3>1, <3>3, SetStepTurn, TurnOKKept DEF OthersKept
    <3>4. CASE /\ turn' = [turn EXCEPT ![t].step = "opening", ![t].sid = opened[RunOf[task[t].exec]] + 1]
               /\ UNCHANGED task
      <4> DEFINE new == opened[RunOf[task[t].exec]] + 1
                 moved == [turn[t] EXCEPT !.step = "opening", !.sid = new]
      <4>1. turn[t] \in Turns /\ turn \in [Threads -> Turns] /\ new \in Nat
        BY <3>1, ManifestAssumption DEF TurnOK, TypeOK
      <4>2. turn' = [turn EXCEPT ![t] = moved]
        BY <3>4, <4>1
      <4>3. new # 0
        BY <3>1, ManifestAssumption DEF TypeOK
      <4> HIDE DEF new
      <4>4. moved \in Turns /\ moved.step = "opening" /\ moved.sid # 0
        BY <4>1, <4>3 DEF Turns
      <4> HIDE DEF moved
      <4>5. /\ turn' \in [Threads -> Turns] /\ TurnsKept(t)
            /\ turn'[t].step = "opening" /\ turn'[t].sid # 0
        BY <4>1, <4>2, <4>4 DEF TurnsKept
      <4>6. QED
        BY <3>1, <3>4, <4>5, TurnOKKept DEF OthersKept
    <3>5. QED
      BY <2>5, <3>2, <3>3, <3>4 DEF EnsureConversationSession
  <2>6. CASE CompleteTurn(t)
    <3> DEFINE c == turn[t].continuity
               over == [step |-> IF c = "USABLE" THEN "close" ELSE "mark", exec |-> task[t].exec,
                        continuity |-> c, sid |-> 0]
    <3>1. OthersKept(t) /\ task'[t].pc = "idle"
      BY <2>6, ReleaseStep, IdleTaskIsIdle DEF CompleteTurn, CompleteExecution, Release, TypeOK
    <3>2. turn[t] \in Turns /\ turn \in [Threads -> Turns] /\ task[t].exec \in Executions
      BY <2>6 DEF TurnOK, TypeOK, CompleteTurn, CompleteExecution
    <3>3. over \in Turns /\ over.exec \in Executions /\ over.step \notin {"opening", "ready"}
      BY <3>2 DEF Turns
    <3>4. turn' = [turn EXCEPT ![t] = over]
      BY <2>6 DEF CompleteTurn
    <3> HIDE DEF over
    <3>5. turn' \in [Threads -> Turns] /\ TurnsKept(t) /\ turn'[t] = over
      BY <3>2, <3>3, <3>4 DEF TurnsKept
    <3>6. QED
      BY <3>1, <3>3, <3>5, TurnOKKept
  <2>7. CASE MarkConversationSessionUnusable(t)
    <3>1. OthersKept(t) /\ task' = task /\ turn[t].step = "mark" /\ SetStep(t, "close")
      BY <2>7 DEF MarkConversationSessionUnusable, OthersKept
    <3>2. turn[t].exec \in Executions /\ task[t].pc = "idle"
      BY <3>1 DEF TurnOK
    <3>3. QED
      BY <3>1, <3>2, SetStepTurn, TurnOKKept
  <2>8. CASE MarkUnusableRefused(t)
    <3>1. OthersKept(t) /\ turn' = [turn EXCEPT ![t] = NoTurn]
      BY <2>8 DEF MarkUnusableRefused, OthersKept, vars
    <3>2. QED
      BY <3>1, NoTurnTurn, TurnOKKept
  <2>9. CASE CloseConversation(t)
    <3>1. OthersKept(t) /\ task' = task /\ turn[t].step = "close"
      BY <2>9 DEF CloseConversation, OthersKept, vars
    <3>2. /\ turn[t].exec \in Executions /\ task[t].pc = "idle"
          /\ turn[t] \in Turns /\ turn \in [Threads -> Turns]
      BY <3>1 DEF TurnOK
    <3>3. CASE turn' = [turn EXCEPT ![t] = NoTurn]
      BY <3>1, <3>3, NoTurnTurn, TurnOKKept
    <3>4. CASE turn' = [turn EXCEPT ![t] = [turn[t] EXCEPT !.step = "closing"]]
      <4> DEFINE moved == [turn[t] EXCEPT !.step = "closing"]
      <4>1. moved \in Turns /\ moved.step = "closing" /\ moved.exec = turn[t].exec
        BY <3>2 DEF Turns
      <4>2. turn' = [turn EXCEPT ![t] = moved]
        BY <3>4
      <4> HIDE DEF moved
      <4>3. turn' \in [Threads -> Turns] /\ TurnsKept(t) /\ turn'[t] = moved
        BY <3>2, <4>1, <4>2 DEF TurnsKept
      <4>4. QED
        BY <3>1, <3>2, <4>1, <4>3, TurnOKKept
    <3>5. QED
      BY <2>9, <3>2, <3>3, <3>4 DEF CloseConversation
  <2>10. QED
    BY <1>2, <2>1, <2>2, <2>3, <2>4, <2>5, <2>6, <2>7, <2>8, <2>9 DEF TurnStep
<1>3. ASSUME NEW t \in Threads, TargetCall(t)
      PROVE  TurnOK'
  <2>1. CASE SessionOpens(t)
    <3>1. OthersKept(t) /\ task' = task /\ turn[t].step = "opening" /\ SetStep(t, "ready")
      BY <2>1 DEF SessionOpens, OthersKept, vars
    <3>2. task[t].pc = "started"
      BY <3>1 DEF TurnOK
    <3>3. QED
      BY <3>1, <3>2, SetStepTurn, TurnOKKept
  <2>2. ASSUME NEW c \in Continuities, SessionOpenFails(t, c)
        PROVE  TurnOK'
    <3>1. task[t].pc = "started" /\ Observed(t, "ERROR") /\ SetContinuity(t, c)
      BY <2>2 DEF SessionOpenFails, TurnOK
    <3>2. OthersKept(t)
      BY <3>1, ObservedStep DEF TerminalOutcomes
    <3>3. turn' \in [Threads -> Turns] /\ TurnsKept(t) /\ turn'[t].step = "none"
      BY <3>1, <2>2, SetContinuityTurn
    <3>4. QED
      BY <3>2, <3>3, TurnOKKept
  <2>3. CASE SubmitTurn(t)
    <3>1. OthersKept(t)
      BY <2>3, GoToStep DEF SubmitTurn, SubmitQuestion, Pcs
    <3>2. SetStep(t, "none")
      BY <2>3 DEF SubmitTurn
    <3>3. QED
      BY <3>1, <3>2, SetStepTurn, TurnOKKept
  <2>4. ASSUME NEW result \in TerminalOutcomes, NEW c \in Continuities, TurnAnswers(t, result, c)
        PROVE  TurnOK'
    <3>1. OthersKept(t)
      BY <2>4, ObservedStep DEF TurnAnswers, TargetAnswers
    <3>2. SetContinuity(t, c)
      BY <2>4 DEF TurnAnswers
    <3>3. turn' \in [Threads -> Turns] /\ TurnsKept(t) /\ turn'[t].step = "none"
      BY <3>2, <2>4, SetContinuityTurn
    <3>4. QED
      BY <3>1, <3>3, TurnOKKept
  <2>5. ASSUME NEW ok \in BOOLEAN, SessionCloses(t, ok)
        PROVE  TurnOK'
    <3>1. OthersKept(t) /\ turn' = [turn EXCEPT ![t] = NoTurn]
      BY <2>5 DEF SessionCloses, OthersKept, vars
    <3>2. QED
      BY <3>1, NoTurnTurn, TurnOKKept
  <2>6. QED
    BY <1>3, <2>1, <2>2, <2>3, <2>4, <2>5 DEF TargetCall
<1>4. ASSUME NEW t \in Threads, TurnEscapes(t)
      PROVE  TurnOK'
  <2>1. OthersKept(t)
    BY <1>4, ReleaseStep DEF TurnEscapes, TaskEscapes, OthersKept
  <2>2. turn' = [turn EXCEPT ![t] = NoTurn]
    BY <1>4 DEF TurnEscapes
  <2>3. QED
    BY <2>1, <2>2, NoTurnTurn, TurnOKKept
<1>5. ASSUME NEW p \in Processes, CrashWorker(p)
      PROVE  TurnOK'
  BY <1>5, NoTurnType, IdleTaskIsIdle DEF CrashWorker, Crash, TurnOK
<1>6. ASSUME UNCHANGED <<task, turn>>
      PROVE  TurnOK'
  BY <1>6 DEF TurnOK
<1>7. ASSUME NEW p \in Processes, ExitWorker(p)
      PROVE  TurnOK'
  BY <1>6, <1>7 DEF ExitWorker, Exit, conversationVars
<1>8. CASE OutsideTurns
  BY <1>6, <1>8 DEF OutsideTurns, RefreshClaimLease, LeaseExpires, DelayElapses, Stop, Restart,
                    conversationVars
<1>9. ASSUME NEW p \in Processes, NEW S \in SUBSET Executions, ReconcileTurns(p, S)
      PROVE  TurnOK'
  BY <1>6, <1>9 DEF ReconcileTurns
<1>10. QED
  BY <1>1, <1>2, <1>3, <1>4, <1>5, <1>7, <1>8, <1>9 DEF ConversationNext, ApartFromTarget

\* The columns of WorkerClaims keep their types in a conversation.
LEMMA WorkerTypeStep ==
  ASSUME TypeOK, TurnOK, [ConversationNext]_allVars
  PROVE  TypeOK'
<1> USE DEF rowVars, runVars, boundVars
<1>1. ASSUME NEW t \in Threads, FailsTurn(t)
      PROVE  TypeOK'
  <2>1. TaskOK'
    BY <1>1, ObservedStep DEF FailsTurn, TerminalOutcomes
  <2>2. QED
    BY <1>1, <2>1 DEF FailsTurn, TypeOK, TaskOK
<1>2. ASSUME NEW t \in Threads, MarkConversationSessionUnusable(t)
      PROVE  TypeOK'
  <2>1. runState' \in [Runs -> {"PENDING", "RUNNING"} \cup TerminalRunStates]
    BY <1>2, FinalizeRunsType DEF MarkConversationSessionUnusable, EndSessions
  <2>2. /\ outcome' \in [Executions -> {"PENDING", "RUNNING"} \cup TerminalOutcomes]
        /\ phase' \in [Executions -> {"NONE", "LEGACY_UNKNOWN", "TERMINAL"} \cup ClaimPhases]
    BY <1>2 DEF MarkConversationSessionUnusable, TypeOK, TerminalOutcomes
  <2>3. dispatchHeld' \in [Runs -> BOOLEAN]
    BY <1>2 DEF MarkConversationSessionUnusable, EndSessions, TypeOK
  <2>4. UNCHANGED <<claim, attempt, leased, snapshot, process, task, requests, boundVars>>
    BY <1>2 DEF MarkConversationSessionUnusable
  <2>5. QED
    BY <2>1, <2>2, <2>3, <2>4 DEF TypeOK
<1>3. ASSUME NEW p \in Processes, NEW S \in SUBSET Executions, ReconcileTurns(p, S)
      PROVE  TypeOK'
  <2>1. runState' \in [Runs -> {"PENDING", "RUNNING"} \cup TerminalRunStates]
    BY <1>3, FinalizeRunsType DEF ReconcileTurns, EndSessions
  <2>2. /\ outcome' \in [Executions -> {"PENDING", "RUNNING"} \cup TerminalOutcomes]
        /\ phase' \in [Executions -> {"NONE", "LEGACY_UNKNOWN", "TERMINAL"} \cup ClaimPhases]
    BY <1>3 DEF ReconcileTurns, TypeOK, TerminalOutcomes
  <2>3. dispatchHeld' \in [Runs -> BOOLEAN]
    BY <1>3 DEF ReconcileTurns, EndSessions, TypeOK
  <2>4. claim' \in [Executions -> [worker : Processes \cup {NoProcess}, token : Nat]]
    BY <1>3 DEF ReconcileTurns, ClaimsCleared, NoClaim, TypeOK
  <2>5. UNCHANGED <<attempt, leased, snapshot, process, task, requests, boundVars>>
    BY <1>3 DEF ReconcileTurns
  <2>6. QED
    BY <2>1, <2>2, <2>3, <2>4, <2>5 DEF TypeOK
<1>4. OnlyStops => TypeOK'
  BY DEF OnlyStops, TypeOK
<1>5. QED
  BY <1>1, <1>2, <1>3, <1>4, ClassifiedStep, TypeStep

AttemptTypes ==
  /\ session \in [Runs -> {"PENDING", "ACTIVE", "UNUSABLE", "CLOSED"}]
  /\ sessionId \in [Runs -> Nat]
  /\ attemptDone \in [Runs -> BOOLEAN]
  /\ opened \in [Runs -> Nat]
  /\ broken \in [Runs -> BOOLEAN]

LEMMA AttemptTypeStep ==
  ASSUME TypeOK, AttemptTypes, TurnOK, ConversationNext
  PROVE  AttemptTypes'
<1> USE DEF AttemptTypes, attemptVars, conversationVars
<1>1. ASSUME NEW t \in Threads, NEW e \in Executions, ClaimTurn(t, e)
      PROVE  AttemptTypes'
  BY <1>1 DEF ClaimTurn
<1>2. ASSUME NEW t \in Threads, TurnStep(t)
      PROVE  AttemptTypes'
  <2>1. CASE \/ PrepareTurn(t) \/ SetupTurnFails(t) \/ RecordTurnMetadata(t)
             \/ MarkTurnSubmissionStarted(t) \/ MarkUnusableRefused(t) \/ CloseConversation(t)
    BY <2>1 DEF PrepareTurn, SetupTurnFails, RecordTurnMetadata, MarkTurnSubmissionStarted,
                MarkUnusableRefused, CloseConversation
  <2>2. CASE EnsureConversationSession(t)
    <3>1. CASE UNCHANGED opened
      BY <2>2, <3>1 DEF EnsureConversationSession
    <3>2. CASE opened' = [opened EXCEPT ![RunOf[task[t].exec]] = @ + 1]
      <4> DEFINE new == opened[RunOf[task[t].exec]] + 1
      <4>1. new \in Nat
        BY <2>2, ManifestAssumption DEF EnsureConversationSession, TypeOK
      <4> HIDE DEF new
      <4>2. opened' \in [Runs -> Nat]
        <5>1. opened' = [opened EXCEPT ![RunOf[task[t].exec]] = new]
          BY <3>2 DEF new
        <5>2. QED
          BY <4>1, <5>1
      <4>3. QED
        BY <2>2, <4>2 DEF EnsureConversationSession
    <3>3. QED
      BY <2>2, <3>1, <3>2 DEF EnsureConversationSession
  <2>3. CASE CompleteTurn(t)
    BY <2>3 DEF CompleteTurn
  <2>4. CASE MarkConversationSessionUnusable(t)
    BY <2>4 DEF MarkConversationSessionUnusable, EndSessions
  <2>5. QED
    BY <1>2, <2>1, <2>2, <2>3, <2>4 DEF TurnStep
<1>3. ASSUME NEW t \in Threads, TargetCall(t)
      PROVE  AttemptTypes'
  <2>1. CASE SessionOpens(t)
    <3>1. turn[t].sid \in Nat
      BY DEF TurnOK, Turns
    <3>2. QED
      BY <2>1, <3>1 DEF SessionOpens
  <2>2. CASE \/ \E c \in Continuities : SessionOpenFails(t, c)
             \/ SubmitTurn(t)
             \/ \E result \in TerminalOutcomes, c \in Continuities : TurnAnswers(t, result, c)
    BY <2>2 DEF SessionOpenFails, SubmitTurn, TurnAnswers
  <2>3. ASSUME NEW ok \in BOOLEAN, SessionCloses(t, ok)
        PROVE  AttemptTypes'
    BY <2>3 DEF SessionCloses
  <2>4. QED
    BY <1>3, <2>1, <2>2, <2>3 DEF TargetCall
<1>4. ASSUME NEW t \in Threads, TurnEscapes(t)
      PROVE  AttemptTypes'
  BY <1>4 DEF TurnEscapes
<1>5. ASSUME NEW p \in Processes, CrashWorker(p) \/ ExitWorker(p)
      PROVE  AttemptTypes'
  BY <1>5 DEF CrashWorker, ExitWorker
<1>6. CASE OutsideTurns
  BY <1>6 DEF OutsideTurns
<1>7. ASSUME NEW p \in Processes, NEW S \in SUBSET Executions, ReconcileTurns(p, S)
      PROVE  AttemptTypes'
  BY <1>7 DEF ReconcileTurns, EndSessions
<1>8. QED
  BY <1>1, <1>2, <1>3, <1>4, <1>5, <1>6, <1>7 DEF ConversationNext, ApartFromTarget

\* The types with the places of the threads: an inductive form of
\* ConversationTypeOK.
ConversationTypes == TypeOK /\ AttemptTypes /\ TurnOK

LEMMA ConversationTypeStep ==
  ASSUME ConversationTypes, [ConversationNext]_allVars
  PROVE  ConversationTypes'
<1>1. CASE ConversationNext
  BY <1>1, WorkerTypeStep, AttemptTypeStep, TurnOKStep DEF ConversationTypes, AttemptTypes
<1>2. CASE UNCHANGED allVars
  BY <1>2, WorkerTypeStep
  DEF ConversationTypes, AttemptTypes, TurnOK, allVars, vars, conversationVars, attemptVars
<1>3. QED
  BY <1>1, <1>2

LEMMA ConversationTypesAlways == ConversationSpec => []ConversationTypes
<1>1. Init => TypeOK
  BY ManifestAssumption, ProcessAssumption, IdleTaskType
  DEF Init, TypeOK, NoClaim, TerminalOutcomes, ClaimPhases, TerminalRunStates, MembersOf, IdleTask
<1>2. ConversationInit => ConversationTypes
  BY <1>1, NoTurnType DEF ConversationInit, ConversationTypes, AttemptTypes, TurnOK
<1>3. QED
  BY <1>2, ConversationTypeStep, PTL DEF ConversationSpec

\* The worker, its conversations and their attempts keep their types, and a
\* thread that is still finishing a turn holds no task.
THEOREM ConversationTypeCorrect == ConversationSpec => []ConversationTypeOK
<1>1. ConversationTypes => ConversationTypeOK
  BY DEF ConversationTypes, AttemptTypes, TurnOK, Turns, Steps, ConversationTypeOK
<1>2. QED
  BY <1>1, ConversationTypesAlways, PTL

-----------------------------------------------------------------------------
(* The invariants of WorkerClaims hold in conversations.                   *)

\* A conversation has no row from before the migration: its RUNNING turns
\* carry a claim.
Clean == \A e \in Executions : outcome[e] = "RUNNING" => claim[e] # NoClaim

\* What the four steps of a conversation's own do to the rows.
LEMMA FailsTurnEffect ==
  ASSUME TypeOK, NEW t \in Threads, FailsTurn(t)
  PROVE  /\ OthersKept(t) /\ ClaimKept(t) /\ task[t].pc = "started" /\ task'[t].pc = "answered"
         /\ UNCHANGED <<outcome, phase, claim, attempt, runState, requests>>
BY ObservedStep DEF FailsTurn, TerminalOutcomes, rowVars, runVars

LEMMA MarkEffect ==
  ASSUME ConversationTypes, RunAggregation, NEW t \in Threads, MarkConversationSessionUnusable(t)
  PROVE  /\ \A e \in Executions :
              \/ UNCHANGED <<outcome[e], phase[e]>>
              \/ /\ outcome[e] = "PENDING" /\ RunOf[e] \in {RunOf[turn[t].exec]}
                 /\ outcome'[e] = "ERROR" /\ phase'[e] = "TERMINAL"
         /\ \A r \in {RunOf[turn[t].exec]} : \E e \in MembersOf(r) : outcome[e] \notin TerminalOutcomes
         /\ FinalizeRuns({RunOf[turn[t].exec]})
         /\ UNCHANGED <<claim, attempt, task, requests>>
<1> DEFINE r == RunOf[turn[t].exec]
           B == Blocked({r})
<1>1. /\ outcome' = [e \in Executions |-> IF e \in B THEN "ERROR" ELSE outcome[e]]
      /\ phase' = [e \in Executions |-> IF e \in B THEN "TERMINAL" ELSE phase[e]]
      /\ runState[r] \notin TerminalRunStates /\ turn[t].step = "mark"
      /\ FinalizeRuns({r})
      /\ UNCHANGED <<claim, attempt, task, requests>>
  BY DEF MarkConversationSessionUnusable, EndSessions
<1>2. \A e \in B : outcome[e] = "PENDING" /\ RunOf[e] \in {r}
  BY DEF Blocked
<1>3. r \in Runs
  BY <1>1, ManifestAssumption DEF ConversationTypes, TurnOK
<1>4. \E e \in MembersOf(r) : outcome[e] \notin TerminalOutcomes
  BY <1>1, <1>3 DEF RunAggregation
<1> HIDE DEF r, B
<1>5. \A e \in Executions : \/ UNCHANGED <<outcome[e], phase[e]>>
                            \/ /\ outcome[e] = "PENDING" /\ RunOf[e] \in {r}
                               /\ outcome'[e] = "ERROR" /\ phase'[e] = "TERMINAL"
  BY <1>1, <1>2
<1>6. QED
  BY <1>1, <1>4, <1>5 DEF r

LEMMA ReconcileTurnsEffect ==
  ASSUME TypeOK, NEW p \in Processes, NEW S \in SUBSET Executions, ReconcileTurns(p, S)
  PROVE  \E R \in SUBSET Runs :
         /\ \A e \in Executions :
              \/ UNCHANGED <<outcome[e], phase[e], claim[e]>>
              \/ /\ outcome[e] = "RUNNING" /\ phase[e] = "CLAIMED"
                 /\ outcome'[e] = "PENDING" /\ phase'[e] = "NONE" /\ claim'[e] = NoClaim
              \/ /\ outcome[e] \in {"PENDING", "RUNNING"} /\ RunOf[e] \in R
                 /\ outcome'[e] = "ERROR" /\ phase'[e] = "TERMINAL" /\ claim'[e] = claim[e]
         /\ \A r \in R : \E e \in MembersOf(r) : outcome[e] = "RUNNING"
         /\ EndSessions(R)
         /\ UNCHANGED <<attempt, task, requests, turn, sessionId, opened>>
<1> DEFINE unstarted == {e \in S : SafeToReclaim(e)}
           ambiguous == S \ unstarted
           R == {RunOf[e] : e \in ambiguous}
           closed == ambiguous \cup Blocked(R)
<1>1. /\ outcome' = [e \in Executions |->
           IF e \in unstarted THEN "PENDING" ELSE IF e \in closed THEN "ERROR" ELSE outcome[e]]
      /\ phase' = [e \in Executions |->
           IF e \in unstarted THEN "NONE" ELSE IF e \in closed THEN "TERMINAL" ELSE phase[e]]
      /\ claim' = [e \in Executions |-> IF e \in unstarted THEN NoClaim ELSE claim[e]]
      /\ EndSessions(R)
      /\ UNCHANGED <<attempt, task, requests, turn, sessionId, opened>>
  BY DEF ReconcileTurns, ClaimsCleared
<1>2. \A e \in S : outcome[e] = "RUNNING"
  BY DEF ReconcileTurns, Stale
<1>3. \A e \in unstarted : e \in S /\ phase[e] = "CLAIMED"
  BY DEF SafeToReclaim
<1>4. \A e \in ambiguous : e \in Executions /\ e \in S /\ RunOf[e] \in R /\ e \in MembersOf(RunOf[e])
  BY DEF MembersOf
<1>5. \A e \in Blocked(R) : outcome[e] = "PENDING" /\ RunOf[e] \in R
  BY DEF Blocked
<1>6. R \in SUBSET Runs
  BY ManifestAssumption
<1>7. \A r \in R : \E e \in MembersOf(r) : outcome[e] = "RUNNING"
  BY <1>2, <1>4
<1> HIDE DEF unstarted, ambiguous, R
<1>8. \A e \in closed : outcome[e] \in {"PENDING", "RUNNING"} /\ RunOf[e] \in R
  BY <1>2, <1>4, <1>5
<1> HIDE DEF closed
<1>9. \A e \in Executions :
              \/ UNCHANGED <<outcome[e], phase[e], claim[e]>>
              \/ /\ outcome[e] = "RUNNING" /\ phase[e] = "CLAIMED"
                 /\ outcome'[e] = "PENDING" /\ phase'[e] = "NONE" /\ claim'[e] = NoClaim
              \/ /\ outcome[e] \in {"PENDING", "RUNNING"} /\ RunOf[e] \in R
                 /\ outcome'[e] = "ERROR" /\ phase'[e] = "TERMINAL" /\ claim'[e] = claim[e]
  BY <1>1, <1>2, <1>3, <1>8
<1>10. QED
  BY <1>1, <1>6, <1>7, <1>9

\* The invariants of the worker that conversations rely on.
WorkerInv ==
  /\ ConversationTypes
  /\ ClaimStateConstraint
  /\ Clean
  /\ SubmissionInv
  /\ FencingTokens
  /\ RunAggregation

LEMMA CleanStep ==
  ASSUME TypeOK, ClaimStateConstraint, Clean, [Next]_vars
  PROVE  Clean'
<1> USE DEF Clean, rowVars, runVars
<1>1. ASSUME NEW t \in Threads, NEW e \in Executions, Claim(t, e)
      PROVE  Clean'
  <2>1. [worker |-> ProcessOf[t], token |-> NextToken(e)] # NoClaim
    BY ProcessAssumption DEF NoClaim
  <2>2. QED
    BY <1>1, <2>1 DEF Claim, TypeOK
<1>2. ASSUME NEW p \in Processes, NEW S \in SUBSET Executions, Reconcile(p, S)
      PROVE  Clean'
  <2>1. \A e \in Executions : outcome'[e] = "RUNNING" => outcome[e] = "RUNNING" /\ claim'[e] = claim[e]
    BY <1>2 DEF Reconcile, ClaimsCleared
  <2>2. QED
    BY <2>1
<1>3. ASSUME NEW t \in Threads, CompleteExecution(t)
      PROVE  Clean'
  <2>1. CASE Owns(t)
    BY <1>3, <2>1, CompleteEffect DEF TypeOK, TerminalOutcomes
  <2>2. CASE ~Owns(t)
    BY <1>3, <2>2 DEF CompleteExecution
  <2>3. QED
    BY <2>1, <2>2
<1>4. ASSUME UNCHANGED <<outcome, claim>>
      PROVE  Clean'
  BY <1>4
<1>5. QED
  BY <1>1, <1>2, <1>3, <1>4
  DEF Next, ThreadStep, Prepare, SetupFails, RecordRuntimeMetadata, MarkSubmissionStarted,
      SubmitQuestion, TargetAnswers, RefreshClaimLease, LeaseExpires, DelayElapses, Crash,
      TaskEscapes, Stop, Exit, Restart, vars

\* A step that gives nobody a claim, sends nothing, brings no row back before
\* the boundary and finalizes the runs whose turns it closes keeps them all.
LEMMA WorkerInvKept ==
  ASSUME WorkerInv, ConversationTypes', UNCHANGED <<attempt, requests>>,
         \A e \in Executions :
              \/ UNCHANGED <<outcome[e], phase[e], claim[e]>>
              \/ /\ outcome[e] = "RUNNING" /\ phase[e] = "CLAIMED"
                 /\ outcome'[e] = "PENDING" /\ phase'[e] = "NONE" /\ claim'[e] = NoClaim
              \/ /\ outcome[e] \in {"PENDING", "RUNNING"}
                 /\ outcome'[e] = "ERROR" /\ phase'[e] = "TERMINAL" /\ claim'[e] = claim[e],
         \A u \in Threads : task'[u].pc = "started" =>
           task[u].pc = "started" /\ task'[u].exec = task[u].exec,
         \A u \in Threads : task'[u].pc # "idle" =>
           task[u].pc # "idle" /\ task'[u].exec = task[u].exec /\ task'[u].token = task[u].token,
         RunAggregation'
  PROVE  WorkerInv'
<1>1. TypeOK
  BY DEF WorkerInv, ConversationTypes
<1>2. SubmissionInv'
  <2>1. \A e \in Executions : phase'[e] \in {"NONE", "CLAIMED"} => phase[e] \in {"NONE", "CLAIMED"}
    OBVIOUS
  <2>2. QED
    BY <1>1, <2>1, SubmissionKept DEF WorkerInv
<1>3. FencingTokens'
  BY <1>1, TokensKept DEF WorkerInv
<1>4. ClaimStateConstraint'
  BY DEF WorkerInv, ClaimStateConstraint, TerminalOutcomes
<1>5. Clean'
  BY DEF WorkerInv, Clean
<1>6. QED
  BY <1>2, <1>3, <1>4, <1>5 DEF WorkerInv

LEMMA WorkerInvStep ==
  ASSUME WorkerInv, [ConversationNext]_allVars
  PROVE  WorkerInv'
<1>1. ConversationTypes /\ ConversationTypes' /\ TypeOK /\ TypeOK' /\ TurnOK
  BY ConversationTypeStep DEF WorkerInv, ConversationTypes
<1>2. CASE [Next]_vars
  BY <1>1, <1>2, ClaimStateStep, CleanStep, SubmissionStep, FencingStep, AggregationStep DEF WorkerInv
<1>3. ASSUME NEW t \in Threads, FailsTurn(t)
      PROVE  WorkerInv'
  <2>1. /\ OthersKept(t) /\ ClaimKept(t) /\ task[t].pc = "started" /\ task'[t].pc = "answered"
        /\ UNCHANGED <<outcome, phase, claim, attempt, runState, requests>>
    BY <1>1, <1>3, FailsTurnEffect
  <2>2. RunAggregation'
    BY <2>1 DEF WorkerInv, RunAggregation
  <2>3. /\ \A u \in Threads : task'[u].pc = "started" =>
             task[u].pc = "started" /\ task'[u].exec = task[u].exec
        /\ \A u \in Threads : task'[u].pc # "idle" =>
             task[u].pc # "idle" /\ task'[u].exec = task[u].exec /\ task'[u].token = task[u].token
    BY <2>1, NotStarted, NoNewClaim
  <2>4. QED
    BY <1>1, <2>1, <2>2, <2>3, WorkerInvKept
<1>4. ASSUME NEW t \in Threads, MarkConversationSessionUnusable(t)
      PROVE  WorkerInv'
  <2> DEFINE R == {RunOf[turn[t].exec]}
  <2>1. /\ \A e \in Executions :
              \/ UNCHANGED <<outcome[e], phase[e]>>
              \/ /\ outcome[e] = "PENDING" /\ RunOf[e] \in R
                 /\ outcome'[e] = "ERROR" /\ phase'[e] = "TERMINAL"
        /\ \A r \in R : \E e \in MembersOf(r) : outcome[e] \notin TerminalOutcomes
        /\ FinalizeRuns(R)
        /\ UNCHANGED <<claim, attempt, task, requests>>
    BY <1>1, <1>4, MarkEffect DEF WorkerInv
  <2> HIDE DEF R
  <2>2. \A e \in Executions : outcome'[e] # outcome[e] =>
          outcome[e] \notin TerminalOutcomes /\ (outcome'[e] \in TerminalOutcomes => RunOf[e] \in R)
    BY <2>1 DEF TerminalOutcomes
  <2>3. outcome' \in [Executions -> {"PENDING", "RUNNING"} \cup TerminalOutcomes]
    BY <1>1 DEF TypeOK
  <2>4. RunAggregation'
    BY <1>1, <2>1, <2>2, <2>3, FinalizeKept DEF WorkerInv
  <2>5. QED
    BY <1>1, <2>1, <2>4, WorkerInvKept
<1>5. ASSUME NEW p \in Processes, NEW S \in SUBSET Executions, ReconcileTurns(p, S)
      PROVE  WorkerInv'
  <2>1. PICK R \in SUBSET Runs :
         /\ \A e \in Executions :
              \/ UNCHANGED <<outcome[e], phase[e], claim[e]>>
              \/ /\ outcome[e] = "RUNNING" /\ phase[e] = "CLAIMED"
                 /\ outcome'[e] = "PENDING" /\ phase'[e] = "NONE" /\ claim'[e] = NoClaim
              \/ /\ outcome[e] \in {"PENDING", "RUNNING"} /\ RunOf[e] \in R
                 /\ outcome'[e] = "ERROR" /\ phase'[e] = "TERMINAL" /\ claim'[e] = claim[e]
         /\ \A r \in R : \E e \in MembersOf(r) : outcome[e] = "RUNNING"
         /\ EndSessions(R)
         /\ UNCHANGED <<attempt, task, requests>>
    BY <1>1, <1>5, ReconcileTurnsEffect
  <2>2. FinalizeRuns(R)
    BY <2>1 DEF EndSessions
  <2>3. /\ \A e \in Executions : outcome'[e] # outcome[e] =>
             outcome[e] \notin TerminalOutcomes /\ (outcome'[e] \in TerminalOutcomes => RunOf[e] \in R)
        /\ \A r \in R : \E e \in MembersOf(r) : outcome[e] \notin TerminalOutcomes
    BY <2>1 DEF TerminalOutcomes
  <2>4. outcome' \in [Executions -> {"PENDING", "RUNNING"} \cup TerminalOutcomes]
    BY <1>1 DEF TypeOK
  <2>5. RunAggregation'
    BY <1>1, <2>2, <2>3, <2>4, FinalizeKept DEF WorkerInv
  <2>6. QED
    BY <1>1, <2>1, <2>5, WorkerInvKept
<1>6. CASE OnlyStops
  <2>1. UNCHANGED <<outcome, phase, claim, attempt, runState, task, requests>>
    BY <1>6 DEF OnlyStops, rowVars, runVars
  <2>2. RunAggregation'
    BY <2>1 DEF WorkerInv, RunAggregation
  <2>3. QED
    BY <1>1, <2>1, <2>2, WorkerInvKept
<1>7. QED
  BY <1>1, <1>2, <1>3, <1>4, <1>5, <1>6, ClassifiedStep

LEMMA WorkerInvInit == ConversationInit => WorkerInv
<1>1. Init => ClaimStateConstraint /\ SubmissionInv /\ FencingTokens /\ Clean
  BY NoLegacyTurns, IdleTaskIsIdle DEF Init, ClaimStateConstraint, SubmissionInv, FencingTokens, Clean
<1>2. Init => RunAggregation
  <2> SUFFICES ASSUME Init
               PROVE  RunAggregation
    OBVIOUS
  <2>1. \A r \in Runs : runState[r] \in {"PENDING", "RUNNING"}
    BY DEF Init
  <2>2. \A r \in Runs : \E e \in MembersOf(r) : outcome[e] \in {"PENDING", "RUNNING"}
    BY ManifestAssumption DEF Init, MembersOf
  <2>3. QED
    BY <2>1, <2>2 DEF RunAggregation, TerminalOutcomes, TerminalRunStates
<1>3. Init => TypeOK
  BY ManifestAssumption, ProcessAssumption, IdleTaskType
  DEF Init, TypeOK, NoClaim, TerminalOutcomes, ClaimPhases, TerminalRunStates, MembersOf, IdleTask
<1>4. ConversationInit => ConversationTypes
  BY <1>3, NoTurnType DEF ConversationInit, ConversationTypes, AttemptTypes, TurnOK
<1>5. QED
  BY <1>1, <1>2, <1>4 DEF ConversationInit, WorkerInv

\* What the worker guarantees of its rows holds in conversations too: the
\* session around the turns, the blocking of dependents and their recovery
\* break neither the constraint of the table, nor the submission boundary,
\* nor the fencing of claims, nor the state of the Runs.
THEOREM ConversationKeepsWorkerInvariants ==
  ConversationSpec => [](ClaimStateConstraint /\ AtMostOneRequest /\ SingleOwner /\ RunAggregation)
<1>1. WorkerInv => ClaimStateConstraint /\ AtMostOneRequest /\ SingleOwner /\ RunAggregation
  BY DEF WorkerInv, SubmissionInv, AtMostOneRequest, FencingTokens, SingleOwner, Owns
<1>2. QED
  BY <1>1, WorkerInvInit, WorkerInvStep, PTL DEF ConversationSpec

-----------------------------------------------------------------------------
(* What any step may do to the rows, the requests and the boundary.        *)

\* Of a row that WorkerClaims changes: a claim, a reclaim, or an end.
LEMMA WorkerRowStep ==
  ASSUME TypeOK, ClaimStateConstraint, RunAggregation, [Next]_vars, NEW e \in Executions
  PROVE  /\ outcome[e] \in TerminalOutcomes => UNCHANGED <<outcome[e], claim[e]>>
         /\ outcome'[e] = "RUNNING" => outcome[e] \in {"PENDING", "RUNNING"}
         /\ outcome'[e] = "PENDING" => outcome[e] = "PENDING" \/ phase[e] = "CLAIMED"
         /\ outcome[e] = "PENDING" /\ outcome'[e] # "PENDING" => outcome'[e] = "RUNNING"
         /\ claim'[e] # claim[e] => outcome[e] = "PENDING" \/ phase[e] = "CLAIMED"
         /\ phase'[e] \in {"NONE", "CLAIMED"} => phase[e] \in {"NONE", "CLAIMED"}
<1> DEFINE Goal == /\ outcome[e] \in TerminalOutcomes => UNCHANGED <<outcome[e], claim[e]>>
                   /\ outcome'[e] = "RUNNING" => outcome[e] \in {"PENDING", "RUNNING"}
                   /\ outcome'[e] = "PENDING" => outcome[e] = "PENDING" \/ phase[e] = "CLAIMED"
                   /\ outcome[e] = "PENDING" /\ outcome'[e] # "PENDING" => outcome'[e] = "RUNNING"
                   /\ claim'[e] # claim[e] => outcome[e] = "PENDING" \/ phase[e] = "CLAIMED"
                   /\ phase'[e] \in {"NONE", "CLAIMED"} => phase[e] \in {"NONE", "CLAIMED"}
<1> USE DEF rowVars, runVars
<1>1. ASSUME NEW t \in Threads, NEW f \in Executions, Claim(t, f)
      PROVE  Goal
  <2>1. outcome[f] = "PENDING" /\ phase[f] = "NONE"
    BY <1>1 DEF Claim, Eligible, ClaimStateConstraint, TerminalOutcomes
  <2>2. CASE e = f
    BY <1>1, <2>1, <2>2 DEF Claim, TypeOK, TerminalOutcomes
  <2>3. CASE e # f
    <3>1. UNCHANGED <<outcome[e], phase[e], claim[e]>>
      BY <1>1, <2>3 DEF Claim, TypeOK
    <3>2. QED
      BY <3>1 DEF TypeOK, TerminalOutcomes
  <2>4. QED
    BY <2>2, <2>3
<1>2. ASSUME NEW p \in Processes, NEW S \in SUBSET Executions, Reconcile(p, S)
      PROVE  Goal
  <2>1. CASE e \in S
    BY <1>2, <2>1 DEF Reconcile, ClaimsCleared, Stale, SafeToReclaim, TerminalOutcomes
  <2>2. CASE e \notin S
    <3>1. UNCHANGED <<outcome[e], phase[e], claim[e]>>
      BY <1>2, <2>2 DEF Reconcile, ClaimsCleared
    <3>2. QED
      BY <3>1 DEF TypeOK, TerminalOutcomes
  <2>3. QED
    BY <2>1, <2>2
<1>3. ASSUME NEW t \in Threads, MarkSubmissionStarted(t)
      PROVE  Goal
  BY <1>3 DEF MarkSubmissionStarted, TypeOK, TerminalOutcomes
<1>4. ASSUME NEW t \in Threads, CompleteExecution(t)
      PROVE  Goal
  <2>1. CASE Owns(t)
    <3>1. phase' = [phase EXCEPT ![task[t].exec] = "TERMINAL"]
      BY <1>4, <2>1 DEF CompleteExecution
    <3>2. CASE e = task[t].exec
      BY <1>4, <2>1, <3>1, <3>2, CompleteEffect DEF TypeOK, TerminalOutcomes
    <3>3. CASE e # task[t].exec
      <4>1. UNCHANGED <<outcome[e], phase[e], claim[e]>>
        BY <1>4, <2>1, <3>1, <3>3, CompleteEffect DEF TypeOK
      <4>2. QED
        BY <4>1 DEF TypeOK, TerminalOutcomes
    <3>4. QED
      BY <3>2, <3>3
  <2>2. CASE ~Owns(t)
    BY <1>4, <2>2 DEF CompleteExecution, TypeOK, TerminalOutcomes
  <2>3. QED
    BY <2>1, <2>2
<1>5. ASSUME UNCHANGED <<outcome, phase, claim>>
      PROVE  Goal
  BY <1>5 DEF TypeOK, TerminalOutcomes
<1>6. QED
  BY <1>1, <1>2, <1>3, <1>4, <1>5
  DEF Next, ThreadStep, Prepare, SetupFails, RecordRuntimeMetadata, SubmitQuestion, TargetAnswers,
      RefreshClaimLease, LeaseExpires, DelayElapses, Crash, TaskEscapes, Stop, Exit, Restart, vars

\* A turn that a step of a conversation changes: the same, or it is closed as
\* blocked or by the recovery.
LEMMA RowStep ==
  ASSUME WorkerInv, [ConversationNext]_allVars, NEW e \in Executions
  PROVE  /\ outcome[e] \in TerminalOutcomes => UNCHANGED <<outcome[e], claim[e]>>
         /\ outcome'[e] = "RUNNING" => outcome[e] \in {"PENDING", "RUNNING"}
         /\ outcome'[e] = "PENDING" => outcome[e] = "PENDING" \/ phase[e] = "CLAIMED"
         /\ outcome[e] = "PENDING" /\ outcome'[e] \notin {"PENDING", "RUNNING"} => claim'[e] = claim[e]
         /\ claim'[e] # claim[e] => outcome[e] = "PENDING" \/ phase[e] = "CLAIMED"
         /\ phase'[e] \in {"NONE", "CLAIMED"} => phase[e] \in {"NONE", "CLAIMED"}
<1>1. ConversationTypes /\ TypeOK /\ TurnOK /\ ClaimStateConstraint /\ RunAggregation
  BY DEF WorkerInv, ConversationTypes
<1>2. CASE [Next]_vars
  BY <1>1, <1>2, WorkerRowStep
<1>3. ASSUME NEW t \in Threads, FailsTurn(t)
      PROVE  UNCHANGED <<outcome, phase, claim>>
  BY <1>1, <1>3, FailsTurnEffect
<1>4. CASE OnlyStops
  BY <1>1, <1>4 DEF OnlyStops, rowVars, TypeOK, TerminalOutcomes
<1>5. ASSUME NEW t \in Threads, MarkConversationSessionUnusable(t)
      PROVE  \/ UNCHANGED <<outcome[e], phase[e], claim[e]>>
             \/ /\ outcome[e] \in {"PENDING", "RUNNING"}
                /\ outcome'[e] = "ERROR" /\ phase'[e] = "TERMINAL" /\ claim'[e] = claim[e]
  BY <1>1, <1>5, MarkEffect
<1>6. ASSUME NEW p \in Processes, NEW S \in SUBSET Executions, ReconcileTurns(p, S)
      PROVE  \/ UNCHANGED <<outcome[e], phase[e], claim[e]>>
             \/ /\ outcome[e] = "RUNNING" /\ phase[e] = "CLAIMED"
                /\ outcome'[e] = "PENDING" /\ phase'[e] = "NONE" /\ claim'[e] = NoClaim
             \/ /\ outcome[e] \in {"PENDING", "RUNNING"}
                /\ outcome'[e] = "ERROR" /\ phase'[e] = "TERMINAL" /\ claim'[e] = claim[e]
  BY <1>1, <1>6, ReconcileTurnsEffect
<1>7. QED
  BY <1>1, <1>2, <1>3, <1>4, <1>5, <1>6, ClassifiedStep DEF TypeOK, TerminalOutcomes

\* A thread crosses the boundary of a row it owns, and a request is sent by a
\* thread that crossed it.
Crosses(u) ==
  /\ Owns(u) /\ phase[task[u].exec] = "CLAIMED"
  /\ UNCHANGED <<outcome, claim, requests>>

Boundary ==
  /\ \A u \in Threads : task'[u].pc = "started" =>
       /\ task'[u].exec = task[u].exec /\ task'[u].token = task[u].token
       /\ task[u].pc = "started" \/ (task[u].pc = "ready" /\ Crosses(u))
  /\ \A e \in Executions : requests'[e] # requests[e] =>
       /\ UNCHANGED <<outcome, claim>>
       /\ \E u \in Threads : task[u].pc = "started" /\ task[u].exec = e

LEMMA BoundaryKept ==
  ASSUME NEW t \in Threads, OthersKept(t), task'[t].pc # "started", UNCHANGED requests
  PROVE  Boundary
BY DEF Boundary, OthersKept

LEMMA WorkerBoundaryStep ==
  ASSUME TypeOK, [Next]_vars
  PROVE  Boundary
<1> USE DEF rowVars, runVars
<1>1. ASSUME NEW t \in Threads, NEW e \in Executions, Claim(t, e)
      PROVE  Boundary
  <2>1. OthersKept(t) /\ task'[t].pc # "started" /\ requests' = requests
    BY <1>1 DEF Claim, TypeOK, OthersKept
  <2>2. QED
    BY <2>1, BoundaryKept
<1>2. ASSUME NEW t \in Threads, Prepare(t)
      PROVE  Boundary
  <2>1. OthersKept(t) /\ task'[t].pc # "started" /\ requests' = requests
    BY <1>2, GoToStep, ObservedStep, ReleaseStep DEF Prepare, Pcs, TerminalOutcomes
  <2>2. QED
    BY <2>1, BoundaryKept
<1>3. ASSUME NEW t \in Threads, SetupFails(t) \/ RecordRuntimeMetadata(t)
      PROVE  Boundary
  <2>1. OthersKept(t) /\ task'[t].pc # "started" /\ requests' = requests
    BY <1>3, GoToStep, ObservedStep DEF SetupFails, RecordRuntimeMetadata, Pcs, TerminalOutcomes
  <2>2. QED
    BY <2>1, BoundaryKept
<1>4. ASSUME NEW t \in Threads, MarkSubmissionStarted(t)
      PROVE  Boundary
  <2>1. CASE Owns(t) /\ phase[task[t].exec] = "CLAIMED"
    <3>1. /\ OthersKept(t) /\ ClaimKept(t) /\ task'[t].pc = "started" /\ task[t].pc = "ready"
          /\ UNCHANGED <<outcome, claim, requests>>
      BY <1>4, <2>1, GoToStep DEF MarkSubmissionStarted, Pcs
    <3>2. QED
      BY <2>1, <3>1 DEF Boundary, Crosses, OthersKept, ClaimKept
  <2>2. CASE ~(Owns(t) /\ phase[task[t].exec] = "CLAIMED")
    <3>1. OthersKept(t) /\ task'[t].pc # "started" /\ requests' = requests
      BY <1>4, <2>2, ReleaseStep DEF MarkSubmissionStarted
    <3>2. QED
      BY <3>1, BoundaryKept
  <2>3. QED
    BY <2>1, <2>2
<1>5. ASSUME NEW t \in Threads, SubmitQuestion(t)
      PROVE  Boundary
  <2>1. OthersKept(t) /\ task'[t].pc = "waiting" /\ task[t].pc = "started" /\ UNCHANGED <<outcome, claim>>
    BY <1>5, GoToStep DEF SubmitQuestion, Pcs
  <2>2. \A e \in Executions : requests'[e] # requests[e] => e = task[t].exec
    BY <1>5 DEF SubmitQuestion, TypeOK
  <2>3. QED
    BY <2>1, <2>2 DEF Boundary, OthersKept
<1>6. ASSUME NEW t \in Threads, NEW result \in TerminalOutcomes, TargetAnswers(t, result)
      PROVE  Boundary
  <2>1. OthersKept(t) /\ task'[t].pc # "started" /\ requests' = requests
    BY <1>6, ObservedStep DEF TargetAnswers
  <2>2. QED
    BY <2>1, BoundaryKept
<1>7. ASSUME NEW t \in Threads, CompleteExecution(t) \/ TaskEscapes(t)
      PROVE  Boundary
  <2>1. OthersKept(t) /\ task'[t].pc # "started" /\ requests' = requests
    BY <1>7, ReleaseStep DEF CompleteExecution, TaskEscapes
  <2>2. QED
    BY <2>1, BoundaryKept
<1>8. ASSUME NEW p \in Processes, Crash(p)
      PROVE  Boundary
  BY <1>8, IdleTaskIsIdle DEF Crash, Boundary
<1>9. ASSUME UNCHANGED <<task, requests>>
      PROVE  Boundary
  BY <1>9 DEF Boundary
<1>10. QED
  BY <1>1, <1>2, <1>3, <1>4, <1>5, <1>6, <1>7, <1>8, <1>9
  DEF Next, ThreadStep, Reconcile, RefreshClaimLease, LeaseExpires, DelayElapses, Stop, Exit,
      Restart, vars

LEMMA BoundaryStep ==
  ASSUME WorkerInv, [ConversationNext]_allVars
  PROVE  Boundary
<1>1. ConversationTypes /\ TypeOK /\ TurnOK /\ RunAggregation
  BY DEF WorkerInv, ConversationTypes
<1>2. CASE [Next]_vars
  BY <1>1, <1>2, WorkerBoundaryStep
<1>3. ASSUME NEW t \in Threads, FailsTurn(t)
      PROVE  Boundary
  BY <1>1, <1>3, FailsTurnEffect, BoundaryKept
<1>4. UNCHANGED <<task, requests>> => Boundary
  BY DEF Boundary
<1>5. ASSUME NEW t \in Threads, MarkConversationSessionUnusable(t)
      PROVE  Boundary
  BY <1>1, <1>4, <1>5, MarkEffect
<1>6. ASSUME NEW p \in Processes, NEW S \in SUBSET Executions, ReconcileTurns(p, S)
      PROVE  Boundary
  BY <1>1, <1>4, <1>6, ReconcileTurnsEffect
<1>7. QED
  BY <1>1, <1>2, <1>3, <1>4, <1>5, <1>6, ClassifiedStep DEF OnlyStops

-----------------------------------------------------------------------------
(* Observations and blocked turns.                                         *)

\* In a conversation as well, no step overwrites a captured observation.
THEOREM ConversationObservations ==
  ConversationSpec => [][\A e \in Executions : outcome[e] \in TerminalOutcomes =>
                           UNCHANGED <<outcome[e], claim[e]>>]_allVars
<1>1. WorkerInv /\ [ConversationNext]_allVars =>
        \A e \in Executions : outcome[e] \in TerminalOutcomes => UNCHANGED <<outcome[e], claim[e]>>
  BY RowStep
<1>2. QED
  BY <1>1, WorkerInvInit, WorkerInvStep, PTL DEF ConversationSpec

\* Nobody will send a turn that was closed without an owner.
UnownedInv ==
  \A e \in Executions : outcome[e] \in TerminalOutcomes /\ claim[e] = NoClaim =>
    /\ requests[e] = 0
    /\ \A u \in Threads : task[u].pc = "started" => task[u].exec # e

LEMMA UnownedStep ==
  ASSUME WorkerInv, WorkerInv', UnownedInv, [ConversationNext]_allVars
  PROVE  UnownedInv'
<1> SUFFICES ASSUME NEW e \in Executions, outcome'[e] \in TerminalOutcomes, claim'[e] = NoClaim
             PROVE  /\ requests'[e] = 0
                    /\ \A u \in Threads : task'[u].pc = "started" => task'[u].exec # e
  BY DEF UnownedInv
<1>1. Boundary /\ SubmissionInv /\ Clean /\ ClaimStateConstraint /\ TypeOK
  BY BoundaryStep DEF WorkerInv, ConversationTypes
<1>2. CASE outcome[e] \in TerminalOutcomes
  <2>1. claim[e] = NoClaim
    BY <1>2, RowStep
  <2>2. requests[e] = 0 /\ \A u \in Threads : task[u].pc = "started" => task[u].exec # e
    BY <1>2, <2>1 DEF UnownedInv
  <2>3. \A u \in Threads : task[u].exec = e => ~Crosses(u)
    BY <1>2 DEF Crosses, Owns, TerminalOutcomes
  <2>4. QED
    BY <1>1, <2>2, <2>3 DEF Boundary
<1>3. CASE outcome[e] = "PENDING"
  <2>1. phase[e] = "NONE"
    BY <1>1, <1>3 DEF ClaimStateConstraint, TerminalOutcomes
  <2>2. requests[e] = 0 /\ \A u \in Threads : task[u].pc = "started" => task[u].exec # e
    BY <1>1, <2>1 DEF SubmissionInv
  <2>3. \A u \in Threads : task[u].exec = e => ~Crosses(u)
    BY <1>3 DEF Crosses, Owns
  <2>4. QED
    BY <1>1, <2>2, <2>3 DEF Boundary
<1>4. CASE outcome[e] = "RUNNING"
  <2>1. claim[e] # NoClaim
    BY <1>1, <1>4 DEF Clean
  <2>2. phase[e] = "CLAIMED"
    BY <1>4, <2>1, RowStep
  <2>3. requests[e] = 0 /\ \A u \in Threads : task[u].pc = "started" => task[u].exec # e
    BY <1>1, <2>2 DEF SubmissionInv
  <2>4. \A u \in Threads : task[u].exec = e => ~Crosses(u)
    BY <1>4 DEF Crosses, TerminalOutcomes
  <2>5. QED
    BY <1>1, <2>3, <2>4 DEF Boundary
<1>5. QED
  BY <1>1, <1>2, <1>3, <1>4 DEF TypeOK

\* A turn that was closed because its session was gone was never sent, and no
\* worker that lost it will send it.
THEOREM BlockedNeverSent == ConversationSpec => []BlockedTurnsNeverSent
<1>1. ConversationInit => UnownedInv
  BY NoLegacyTurns DEF ConversationInit, Init, UnownedInv, TerminalOutcomes
<1>2. WorkerInv /\ UnownedInv /\ [ConversationNext]_allVars => WorkerInv' /\ UnownedInv'
  BY WorkerInvStep, UnownedStep
<1>3. UnownedInv => BlockedTurnsNeverSent
  BY DEF UnownedInv, BlockedTurnsNeverSent
<1>4. QED
  BY <1>1, <1>2, <1>3, WorkerInvInit, PTL DEF ConversationSpec

-----------------------------------------------------------------------------
(* The completion of attempts.                                             *)

\* A thread that closes the session does so for a conversation that is over.
CompletionInv ==
  /\ \A r \in Runs : attemptDone[r] \/ session[r] = "CLOSED" => AllTurnsTerminal(outcome, r)
  /\ \A t \in Threads : turn[t].step = "closing" => AllTurnsTerminal(outcome, RunOf[turn[t].exec])

\* Turns that are over stay over.
LEMMA OverStaysOver ==
  ASSUME WorkerInv, [ConversationNext]_allVars, NEW r, AllTurnsTerminal(outcome, r)
  PROVE  AllTurnsTerminal(outcome', r)
BY RowStep DEF AllTurnsTerminal, MembersOf

\* A step that completes no attempt and starts closing no session keeps it.
LEMMA CompletionKept ==
  ASSUME WorkerInv, CompletionInv, [ConversationNext]_allVars,
         \A r \in Runs : attemptDone'[r] \/ session'[r] = "CLOSED" =>
           attemptDone[r] \/ session[r] = "CLOSED" \/ AllTurnsTerminal(outcome', r),
         \A u \in Threads : turn'[u].step = "closing" =>
           \/ turn[u].step = "closing" /\ turn'[u].exec = turn[u].exec
           \/ AllTurnsTerminal(outcome', RunOf[turn'[u].exec])
  PROVE  CompletionInv'
<1>1. \A r \in Runs : attemptDone[r] \/ session[r] = "CLOSED" => AllTurnsTerminal(outcome', r)
  BY OverStaysOver DEF CompletionInv
<1>2. \A u \in Threads : turn[u].step = "closing" => AllTurnsTerminal(outcome', RunOf[turn[u].exec])
  BY OverStaysOver DEF CompletionInv
<1>3. QED
  BY <1>1, <1>2 DEF CompletionInv

LEMMA EndSessionsCompletion ==
  ASSUME AttemptTypes, NEW R, EndSessions(R)
  PROVE  \A r \in Runs : attemptDone'[r] \/ session'[r] = "CLOSED" =>
           attemptDone[r] \/ session[r] = "CLOSED" \/ AllTurnsTerminal(outcome', r)
BY DEF EndSessions, AttemptTypes

LEMMA CompletionStep ==
  ASSUME WorkerInv, CompletionInv, [ConversationNext]_allVars
  PROVE  CompletionInv'
<1> USE DEF attemptVars, conversationVars
<1>1. TurnOK /\ AttemptTypes /\ TypeOK
  BY DEF WorkerInv, ConversationTypes
<1>2. ASSUME UNCHANGED <<session, attemptDone, turn>>
      PROVE  CompletionInv'
  BY <1>2, CompletionKept
<1>3. ASSUME NEW t \in Threads, UNCHANGED <<session, attemptDone>>, TurnsKept(t),
             turn'[t].step # "closing"
      PROVE  CompletionInv'
  BY <1>3, CompletionKept DEF TurnsKept
<1>4. ASSUME NEW t \in Threads, NEW c \in Continuities, SetContinuity(t, c)
      PROVE  TurnsKept(t) /\ turn'[t].step # "closing"
  BY <1>1, <1>4, SetContinuityTurn
<1>5. ASSUME NEW t \in Threads, TurnStep(t)
      PROVE  CompletionInv'
  <2>1. CASE PrepareTurn(t) \/ SetupTurnFails(t) \/ RecordTurnMetadata(t)
    <3>1. \E c \in Continuities : SetContinuity(t, c)
      BY <2>1 DEF PrepareTurn, SetupTurnFails, RecordTurnMetadata, Continuities
    <3>2. UNCHANGED <<session, attemptDone>>
      BY <2>1 DEF PrepareTurn, SetupTurnFails, RecordTurnMetadata
    <3>3. QED
      BY <1>3, <1>4, <3>1, <3>2
  <2>2. CASE MarkTurnSubmissionStarted(t)
    BY <1>2, <2>2 DEF MarkTurnSubmissionStarted
  <2>3. CASE EnsureConversationSession(t)
    <3>1. UNCHANGED <<session, attemptDone>>
      BY <2>3 DEF EnsureConversationSession
    <3>2. CASE SetContinuity(t, "UNUSABLE")
      BY <1>3, <1>4, <3>1, <3>2 DEF Continuities
    <3>3. CASE SetStep(t, "ready")
      BY <1>1, <1>3, <3>1, <3>3, SetStepTurn DEF Steps
    <3>4. CASE turn' = [turn EXCEPT ![t].step = "opening", ![t].sid = opened[RunOf[task[t].exec]] + 1]
      <4>1. TurnsKept(t) /\ turn'[t].step = "opening"
        BY <1>1, <3>4 DEF TurnOK, Turns, TurnsKept
      <4>2. QED
        BY <1>3, <3>1, <4>1
    <3>5. QED
      BY <2>3, <3>2, <3>3, <3>4 DEF EnsureConversationSession
  <2>4. CASE CompleteTurn(t)
    <3>1. TurnsKept(t) /\ turn'[t].step # "closing" /\ UNCHANGED <<session, attemptDone>>
      BY <1>1, <2>4 DEF CompleteTurn, TurnOK, TurnsKept
    <3>2. QED
      BY <1>3, <3>1
  <2>5. CASE MarkConversationSessionUnusable(t)
    <3>1. \A r \in Runs : attemptDone'[r] \/ session'[r] = "CLOSED" =>
            attemptDone[r] \/ session[r] = "CLOSED" \/ AllTurnsTerminal(outcome', r)
      BY <1>1, <2>5, EndSessionsCompletion DEF MarkConversationSessionUnusable
    <3>2. TurnsKept(t) /\ turn'[t].step = "close"
      BY <1>1, <2>5, SetStepTurn DEF MarkConversationSessionUnusable, Steps
    <3>3. QED
      BY <3>1, <3>2, CompletionKept DEF TurnsKept
  <2>6. CASE MarkUnusableRefused(t)
    BY <1>1, <1>3, <2>6, NoTurnTurn DEF MarkUnusableRefused
  <2>7. CASE CloseConversation(t)
    <3>1. UNCHANGED <<session, attemptDone, outcome>>
      BY <2>7 DEF CloseConversation, vars, rowVars
    <3>2. CASE turn' = [turn EXCEPT ![t] = NoTurn]
      BY <1>1, <1>3, <3>1, <3>2, NoTurnTurn
    <3>3. CASE /\ turn' = [turn EXCEPT ![t] = [turn[t] EXCEPT !.step = "closing"]]
               /\ AllTurnsTerminal(outcome, RunOf[turn[t].exec])
      <4> DEFINE moved == [turn[t] EXCEPT !.step = "closing"]
      <4>1. turn[t] \in Turns /\ turn \in [Threads -> Turns]
        BY <1>1 DEF TurnOK
      <4>2. moved.exec = turn[t].exec
        BY <4>1 DEF Turns
      <4>3. turn' = [turn EXCEPT ![t] = moved]
        BY <3>3
      <4> HIDE DEF moved
      <4>4. TurnsKept(t) /\ turn'[t].exec = turn[t].exec
        BY <4>1, <4>2, <4>3 DEF TurnsKept
      <4>5. AllTurnsTerminal(outcome', RunOf[turn'[t].exec])
        BY <3>1, <3>3, <4>4
      <4>6. QED
        BY <3>1, <4>4, <4>5, CompletionKept DEF TurnsKept
    <3>4. QED
      BY <1>1, <2>7, <3>2, <3>3 DEF CloseConversation, TurnOK
  <2>8. QED
    BY <1>5, <2>1, <2>2, <2>3, <2>4, <2>5, <2>6, <2>7 DEF TurnStep
<1>6. ASSUME NEW t \in Threads, TargetCall(t)
      PROVE  CompletionInv'
  <2>1. CASE SessionOpens(t)
    <3>1. \A r \in Runs : attemptDone'[r] \/ session'[r] = "CLOSED" => attemptDone[r] \/ session[r] = "CLOSED"
      BY <1>1, <2>1 DEF SessionOpens, AttemptTypes
    <3>2. TurnsKept(t) /\ turn'[t].step = "ready"
      BY <1>1, <2>1, SetStepTurn DEF SessionOpens, Steps
    <3>3. QED
      BY <3>1, <3>2, CompletionKept DEF TurnsKept
  <2>2. CASE \/ \E c \in Continuities : SessionOpenFails(t, c)
             \/ \E result \in TerminalOutcomes, c \in Continuities : TurnAnswers(t, result, c)
    BY <1>3, <1>4, <2>2 DEF SessionOpenFails, TurnAnswers
  <2>3. CASE SubmitTurn(t)
    BY <1>1, <1>3, <2>3, SetStepTurn DEF SubmitTurn, Steps
  <2>4. ASSUME NEW ok \in BOOLEAN, SessionCloses(t, ok)
        PROVE  CompletionInv'
    <3> DEFINE r == RunOf[turn[t].exec]
    <3>1. AllTurnsTerminal(outcome', r)
      BY <2>4, OverStaysOver DEF SessionCloses, CompletionInv
    <3>2. /\ attemptDone' = [attemptDone EXCEPT ![r] = TRUE]
          /\ session' = [session EXCEPT ![r] = "CLOSED"] \/ session' = session
      BY <2>4 DEF SessionCloses
    <3>3. TurnsKept(t) /\ turn'[t].step = "none"
      BY <1>1, <2>4, NoTurnTurn DEF SessionCloses
    <3> HIDE DEF r
    <3>4. \A q \in Runs : attemptDone'[q] \/ session'[q] = "CLOSED" =>
            q = r \/ attemptDone[q] \/ session[q] = "CLOSED"
      BY <1>1, <3>2 DEF AttemptTypes
    <3>5. QED
      BY <3>1, <3>3, <3>4, CompletionKept DEF TurnsKept
  <2>5. QED
    BY <1>6, <2>1, <2>2, <2>3, <2>4 DEF TargetCall
<1>7. ASSUME NEW t \in Threads, TurnEscapes(t)
      PROVE  CompletionInv'
  BY <1>1, <1>3, <1>7, NoTurnTurn DEF TurnEscapes
<1>8. ASSUME NEW p \in Processes, CrashWorker(p)
      PROVE  CompletionInv'
  <2>1. \A u \in Threads : turn'[u].step = "closing" => turn[u].step = "closing" /\ turn'[u].exec = turn[u].exec
    BY <1>8, NoTurnType DEF CrashWorker
  <2>2. QED
    BY <1>8, <2>1, CompletionKept DEF CrashWorker
<1>9. ASSUME NEW p \in Processes, NEW S \in SUBSET Executions, ReconcileTurns(p, S)
      PROVE  CompletionInv'
  <2>1. turn' = turn /\ \E R : EndSessions(R)
    BY <1>1, <1>9, ReconcileTurnsEffect
  <2>2. QED
    BY <1>1, <2>1, EndSessionsCompletion, CompletionKept
<1>10. ASSUME NEW t \in Threads, NEW e \in Executions, ClaimTurn(t, e)
       PROVE  CompletionInv'
  BY <1>2, <1>10 DEF ClaimTurn
<1>11. ASSUME NEW p \in Processes, ExitWorker(p)
       PROVE  CompletionInv'
  BY <1>2, <1>11 DEF ExitWorker
<1>12. CASE OutsideTurns \/ UNCHANGED allVars
  BY <1>2, <1>12 DEF OutsideTurns, allVars
<1>13. QED
  BY <1>5, <1>6, <1>7, <1>8, <1>9, <1>10, <1>11, <1>12 DEF ConversationNext, ApartFromTarget

\* An attempt completes, and its session is recorded as closed, only after
\* the last of its turns, whatever threads and recovery finish beside it.
THEOREM AttemptsCompleteLast == ConversationSpec => []AttemptCompletion
<1>1. ConversationInit => CompletionInv
  BY NoTurnType DEF ConversationInit, CompletionInv
<1>2. WorkerInv /\ CompletionInv /\ [ConversationNext]_allVars => WorkerInv' /\ CompletionInv'
  BY WorkerInvStep, CompletionStep
<1>3. CompletionInv => AttemptCompletion
  BY ManifestAssumption DEF CompletionInv, AttemptCompletion, AllTurnsTerminal, MembersOf
<1>4. QED
  BY <1>1, <1>2, <1>3, WorkerInvInit, PTL DEF ConversationSpec

-----------------------------------------------------------------------------
(* One session per attempt.                                                *)

\* Thread t calls the target to open a session.
StartsOpening(t) ==
  LET e == task[t].exec
  IN  /\ task[t].pc = "started" /\ Free(t) /\ FirstTurn(e)
      /\ opened' = [opened EXCEPT ![RunOf[e]] = @ + 1]
      /\ turn'[t].step = "opening" /\ TurnsKept(t)
      /\ UNCHANGED <<task, phase, sessionId>>

\* The only step that opens a session, and the only one that records it.
LEMMA OpenedStep ==
  ASSUME TypeOK, TurnOK, AttemptTypes, [ConversationNext]_allVars
  PROVE  /\ opened' = opened \/ \E t \in Threads : StartsOpening(t)
         /\ \A r \in Runs : sessionId[r] # 0 => sessionId'[r] = sessionId[r]
<1> DEFINE Goal == /\ opened' = opened \/ \E t \in Threads : StartsOpening(t)
                   /\ \A r \in Runs : sessionId[r] # 0 => sessionId'[r] = sessionId[r]
<1> USE DEF attemptVars, conversationVars
<1>1. ASSUME UNCHANGED <<opened, sessionId>>
      PROVE  Goal
  BY <1>1
<1>2. ASSUME NEW t \in Threads, TurnStep(t)
      PROVE  Goal
  <2>1. CASE EnsureConversationSession(t)
    <3>1. CASE UNCHANGED opened
      BY <1>1, <2>1, <3>1 DEF EnsureConversationSession
    <3>2. CASE /\ turn' = [turn EXCEPT ![t].step = "opening", ![t].sid = opened[RunOf[task[t].exec]] + 1]
               /\ opened' = [opened EXCEPT ![RunOf[task[t].exec]] = @ + 1]
               /\ FirstTurn(task[t].exec) /\ UNCHANGED task
      <4>1. TurnsKept(t) /\ turn'[t].step = "opening"
        BY <3>2 DEF TurnOK, Turns, TurnsKept
      <4>2. StartsOpening(t)
        BY <2>1, <3>2, <4>1 DEF EnsureConversationSession, StartsOpening, rowVars
      <4>3. QED
        BY <2>1, <4>2 DEF EnsureConversationSession
    <3>3. QED
      BY <2>1, <3>1, <3>2 DEF EnsureConversationSession
  <2>2. QED
    BY <1>1, <1>2, <2>1
    DEF TurnStep, PrepareTurn, SetupTurnFails, RecordTurnMetadata, MarkTurnSubmissionStarted,
        CompleteTurn, MarkConversationSessionUnusable, MarkUnusableRefused, CloseConversation
<1>3. ASSUME NEW t \in Threads, TargetCall(t)
      PROVE  Goal
  <2>1. CASE SessionOpens(t)
    BY <2>1 DEF SessionOpens, AttemptTypes
  <2>2. QED
    BY <1>1, <1>3, <2>1 DEF TargetCall, SessionOpenFails, SubmitTurn, TurnAnswers, SessionCloses
<1>4. QED
  BY <1>1, <1>2, <1>3
  DEF ConversationNext, ApartFromTarget, ClaimTurn, TurnEscapes, ReconcileTurns, CrashWorker,
      ExitWorker, OutsideTurns, allVars

\* A thread past the boundary is free of the session only before it looks for
\* it.
LEMMA FreeStep ==
  ASSUME TypeOK, TurnOK, [ConversationNext]_allVars, NEW u \in Threads,
         task[u].pc = "started", task'[u].pc = "started", turn'[u].step = "none"
  PROVE  turn[u].step = "none"
<1> USE DEF conversationVars, vars
<1>1. ASSUME turn' = turn
      PROVE  turn[u].step = "none"
  BY <1>1
<1>2. ASSUME NEW t \in Threads, TurnsKept(t),
             task[t].pc # "started" \/ task'[t].pc # "started" \/ turn'[t].step # "none"
      PROVE  turn[u].step = "none"
  BY <1>2 DEF TurnsKept
<1>3. ASSUME NEW t \in Threads, NEW c \in Continuities, SetContinuity(t, c)
      PROVE  TurnsKept(t)
  BY <1>3, SetContinuityTurn
<1>4. ASSUME NEW t \in Threads, TurnStep(t)
      PROVE  turn[u].step = "none"
  <2>1. CASE PrepareTurn(t) \/ SetupTurnFails(t) \/ RecordTurnMetadata(t)
    <3>1. \E c \in Continuities : SetContinuity(t, c)
      BY <2>1 DEF PrepareTurn, SetupTurnFails, RecordTurnMetadata, Continuities
    <3>2. task[t].pc # "started"
      BY <2>1 DEF PrepareTurn, SetupTurnFails, RecordTurnMetadata, Prepare, SetupFails, RecordRuntimeMetadata
    <3>3. QED
      BY <1>2, <1>3, <3>1, <3>2
  <2>2. CASE MarkTurnSubmissionStarted(t)
    BY <1>1, <2>2 DEF MarkTurnSubmissionStarted
  <2>3. CASE EnsureConversationSession(t)
    <3>1. CASE Observed(t, "ERROR") /\ SetContinuity(t, "UNUSABLE")
      <4>1. task'[t].pc = "answered" /\ TurnsKept(t)
        BY <1>3, <2>3, <3>1, ObservedStep DEF EnsureConversationSession, TerminalOutcomes, Continuities
      <4>2. QED
        BY <1>2, <4>1
    <3>2. CASE SetStep(t, "ready")
      BY <1>2, <3>2, SetStepTurn DEF Steps
    <3>3. CASE turn' = [turn EXCEPT ![t].step = "opening", ![t].sid = opened[RunOf[task[t].exec]] + 1]
      <4>1. TurnsKept(t) /\ turn'[t].step = "opening"
        BY <3>3 DEF TurnOK, Turns, TurnsKept
      <4>2. QED
        BY <1>2, <4>1
    <3>4. QED
      BY <2>3, <3>1, <3>2, <3>3 DEF EnsureConversationSession
  <2>4. CASE CompleteTurn(t)
    <3>1. TurnsKept(t) /\ task[t].pc = "answered"
      BY <2>4 DEF CompleteTurn, CompleteExecution, TurnOK, TurnsKept
    <3>2. QED
      BY <1>2, <3>1
  <2>5. CASE MarkConversationSessionUnusable(t)
    BY <1>2, <2>5, SetStepTurn DEF MarkConversationSessionUnusable, Steps
  <2>6. CASE MarkUnusableRefused(t) \/ CloseConversation(t)
    <3>1. TurnsKept(t) /\ task[t].pc = "idle"
      BY <2>6 DEF MarkUnusableRefused, CloseConversation, TurnOK, TurnsKept
    <3>2. QED
      BY <1>2, <3>1
  <2>7. QED
    BY <1>4, <2>1, <2>2, <2>3, <2>4, <2>5, <2>6 DEF TurnStep
<1>5. ASSUME NEW t \in Threads, TargetCall(t)
      PROVE  turn[u].step = "none"
  <2>1. CASE SessionOpens(t)
    BY <1>2, <2>1, SetStepTurn DEF SessionOpens, Steps
  <2>2. ASSUME NEW c \in Continuities, SessionOpenFails(t, c)
        PROVE  turn[u].step = "none"
    <3>1. task'[t].pc = "answered" /\ TurnsKept(t)
      BY <1>3, <2>2, ObservedStep DEF SessionOpenFails, TurnOK, TerminalOutcomes
    <3>2. QED
      BY <1>2, <3>1
  <2>3. CASE SubmitTurn(t)
    <3>1. TurnsKept(t)
      BY <2>3, SetStepTurn DEF SubmitTurn, Steps
    <3>2. task'[t].pc = "waiting"
      BY <2>3, GoToStep DEF SubmitTurn, SubmitQuestion, Pcs
    <3>3. QED
      BY <1>2, <3>1, <3>2
  <2>4. ASSUME NEW result \in TerminalOutcomes, NEW c \in Continuities, TurnAnswers(t, result, c)
        PROVE  turn[u].step = "none"
    BY <1>2, <1>3, <2>4 DEF TurnAnswers, TargetAnswers
  <2>5. ASSUME NEW ok \in BOOLEAN, SessionCloses(t, ok)
        PROVE  turn[u].step = "none"
    <3>1. TurnsKept(t) /\ task[t].pc = "idle"
      BY <2>5 DEF SessionCloses, TurnOK, TurnsKept
    <3>2. QED
      BY <1>2, <3>1
  <2>6. QED
    BY <1>5, <2>1, <2>2, <2>3, <2>4, <2>5 DEF TargetCall
<1>6. ASSUME NEW t \in Threads, TurnEscapes(t)
      PROVE  turn[u].step = "none"
  <2>1. TurnsKept(t)
    BY <1>6, NoTurnTurn DEF TurnEscapes
  <2>2. task'[t].pc # "started" \/ task[t].pc # "started"
    BY <1>6, ReleaseStep DEF TurnEscapes, TaskEscapes
  <2>3. QED
    BY <1>2, <2>1, <2>2
<1>7. ASSUME NEW p \in Processes, CrashWorker(p)
      PROVE  turn[u].step = "none"
  BY <1>7, IdleTaskIsIdle DEF CrashWorker, Crash
<1>8. QED
  BY <1>1, <1>4, <1>5, <1>6, <1>7
  DEF ConversationNext, ApartFromTarget, ClaimTurn, ReconcileTurns, ExitWorker, OutsideTurns, allVars

\* No session was opened yet while the first turn is before the boundary, or
\* the thread that passed it has still to look for the session.
SessionInv ==
  /\ \A r \in Runs : opened[r] <= 1
  /\ \A e \in Executions : FirstTurn(e) /\ phase[e] \in {"NONE", "CLAIMED"} => opened[RunOf[e]] = 0
  /\ \A t \in Threads : task[t].pc = "started" /\ Free(t) /\ FirstTurn(task[t].exec) =>
       opened[RunOf[task[t].exec]] = 0

LEMMA SessionStep ==
  ASSUME WorkerInv, WorkerInv', SessionInv, [ConversationNext]_allVars
  PROVE  SessionInv'
<1>1. TypeOK /\ TurnOK /\ AttemptTypes /\ SubmissionInv /\ Boundary
  BY BoundaryStep DEF WorkerInv, ConversationTypes
<1>2. \A e \in Executions : phase'[e] \in {"NONE", "CLAIMED"} => phase[e] \in {"NONE", "CLAIMED"}
  BY RowStep
<1>3. \A u \in Threads : task'[u].pc = "started" =>
        /\ task'[u].exec = task[u].exec /\ task[u].exec \in Executions
        /\ task[u].pc = "started" \/ phase[task[u].exec] = "CLAIMED"
  BY <1>1 DEF Boundary, Crosses, TypeOK
<1>4. CASE opened' = opened
  <2>1. ASSUME NEW u \in Threads, task'[u].pc = "started", turn'[u].step = "none",
               FirstTurn(task'[u].exec)
        PROVE  opened'[RunOf[task'[u].exec]] = 0
    <3>1. CASE task[u].pc = "started"
      <4>1. Free(u)
        BY <1>1, <2>1, <3>1, FreeStep DEF Free
      <4>2. QED
        BY <1>3, <1>4, <2>1, <3>1, <4>1 DEF SessionInv
    <3>2. CASE phase[task[u].exec] = "CLAIMED"
      BY <1>3, <1>4, <2>1, <3>2 DEF SessionInv
    <3>3. QED
      BY <1>3, <2>1, <3>1, <3>2
  <2>2. QED
    BY <1>2, <1>4, <2>1 DEF SessionInv, Free, FirstTurn
<1>5. ASSUME NEW t \in Threads, StartsOpening(t)
      PROVE  SessionInv'
  <2> DEFINE e == task[t].exec
             r == RunOf[e]
  <2>1. /\ e \in Executions /\ r \in Runs /\ Ordinal[e] = 1 /\ task[t].pc = "started"
        /\ opened[r] = 0 /\ opened' = [opened EXCEPT ![r] = opened[r] + 1]
        /\ phase[e] \notin {"NONE", "CLAIMED"}
        /\ \A u \in Threads : task[u].pc = "started" /\ task[u].exec = e => u = t
        /\ turn'[t].step = "opening" /\ UNCHANGED <<task, phase>>
        /\ \A u \in Threads \ {t} : turn'[u] = turn[u]
    BY <1>1, <1>5, ManifestAssumption
    DEF StartsOpening, FirstTurn, SessionInv, SubmissionInv, TypeOK, TurnsKept
  <2>2. \A f \in Executions : RunOf[f] = r /\ Ordinal[f] = 1 => f = e
    BY <2>1, OrdinalAssumption
  <2>3. \A u \in Threads : task[u].pc = "started" => task[u].exec \in Executions
    BY <1>1 DEF TypeOK
  <2> HIDE DEF e, r
  <2>4. \A q \in Runs : opened'[q] = IF q = r THEN 1 ELSE opened[q]
    BY <1>1, <2>1 DEF AttemptTypes
  <2>5. \A f \in Executions : RunOf[f] \in Runs
    BY ManifestAssumption
  <2>6. \A q \in Runs : opened'[q] <= 1
    BY <2>4 DEF SessionInv
  <2>7. \A f \in Executions : FirstTurn(f) /\ phase'[f] \in {"NONE", "CLAIMED"} => opened'[RunOf[f]] = 0
    BY <2>1, <2>2, <2>4, <2>5 DEF SessionInv, FirstTurn
  <2>8. ASSUME NEW u \in Threads, task'[u].pc = "started", turn'[u].step = "none",
               FirstTurn(task'[u].exec)
        PROVE  opened'[RunOf[task'[u].exec]] = 0
    <3>1. u # t /\ task[u].pc = "started" /\ turn[u].step = "none" /\ FirstTurn(task[u].exec)
      BY <2>1, <2>8
    <3>2. opened[RunOf[task[u].exec]] = 0
      BY <3>1 DEF SessionInv, Free
    <3>3. RunOf[task[u].exec] # r
      BY <2>1, <2>2, <2>3, <3>1 DEF FirstTurn
    <3>4. QED
      BY <2>1, <2>3, <2>4, <2>5, <3>1, <3>2, <3>3
  <2>9. QED
    BY <2>6, <2>7, <2>8 DEF SessionInv, Free, FirstTurn
<1>6. QED
  BY <1>1, <1>4, <1>5, OpenedStep

\* An attempt opens one session at most, through crashes and recovery, and
\* never replaces the one it recorded.
THEOREM OneSession == ConversationSpec => OneSessionPerAttempt
<1>1. ConversationInit => SessionInv
  BY IdleTaskIsIdle, ManifestAssumption DEF ConversationInit, Init, SessionInv
<1>2. WorkerInv /\ SessionInv /\ [ConversationNext]_allVars => WorkerInv' /\ SessionInv'
  BY WorkerInvStep, SessionStep
<1>3. WorkerInv /\ SessionInv' /\ [ConversationNext]_allVars =>
        [\A r \in Runs : opened'[r] <= 1 /\ (sessionId[r] # 0 => sessionId'[r] = sessionId[r])]_allVars
  BY OpenedStep DEF SessionInv, WorkerInv, ConversationTypes
<1>4. QED
  BY <1>1, <1>2, <1>3, WorkerInvInit, PTL DEF ConversationSpec, OneSessionPerAttempt

-----------------------------------------------------------------------------
(* The order of the turns.                                                 *)

\* The steps that leave the outcomes alone, and the four that do not.
LEMMA OutcomeActors ==
  ASSUME [ConversationNext]_allVars
  PROVE  \/ outcome' = outcome
         \/ \E t \in Threads, e \in Executions : ClaimTurn(t, e)
         \/ \E t \in Threads : CompleteTurn(t)
         \/ \E t \in Threads : MarkConversationSessionUnusable(t)
         \/ \E p \in Processes, S \in SUBSET Executions : ReconcileTurns(p, S)
<1> DEFINE Goal == \/ outcome' = outcome
                   \/ \E t \in Threads, e \in Executions : ClaimTurn(t, e)
                   \/ \E t \in Threads : CompleteTurn(t)
                   \/ \E t \in Threads : MarkConversationSessionUnusable(t)
                   \/ \E p \in Processes, S \in SUBSET Executions : ReconcileTurns(p, S)
<1> USE DEF vars, rowVars
<1>1. ASSUME NEW t \in Threads, TurnStep(t)
      PROVE  Goal
  BY <1>1
  DEF TurnStep, PrepareTurn, Prepare, SetupTurnFails, SetupFails, RecordTurnMetadata,
      RecordRuntimeMetadata, MarkTurnSubmissionStarted, MarkSubmissionStarted,
      EnsureConversationSession, MarkUnusableRefused, CloseConversation
<1>2. ASSUME NEW t \in Threads, TargetCall(t)
      PROVE  Goal
  BY <1>2
  DEF TargetCall, SessionOpens, SessionOpenFails, SubmitTurn, SubmitQuestion, TurnAnswers,
      TargetAnswers, SessionCloses
<1>3. ASSUME NEW t \in Threads, TurnEscapes(t)
      PROVE  Goal
  BY <1>3 DEF TurnEscapes, TaskEscapes
<1>4. ASSUME NEW p \in Processes, CrashWorker(p) \/ ExitWorker(p)
      PROVE  Goal
  BY <1>4 DEF CrashWorker, Crash, ExitWorker, Exit
<1>5. CASE OutsideTurns
  BY <1>5 DEF OutsideTurns, RefreshClaimLease, LeaseExpires, DelayElapses, Stop, Restart
<1>6. QED
  BY <1>1, <1>2, <1>3, <1>4, <1>5 DEF ConversationNext, ApartFromTarget, allVars

LEMMA OutcomeStep ==
  ASSUME [ConversationNext]_allVars
  PROVE  \/ outcome' = outcome
         \/ \E t \in Threads, e \in Executions : ClaimTurn(t, e)
         \/ \E t \in Threads : CompleteExecution(t)
         \/ \E t \in Threads : MarkConversationSessionUnusable(t)
         \/ \E p \in Processes, S \in SUBSET Executions : ReconcileTurns(p, S)
BY OutcomeActors DEF CompleteTurn

LEMMA ClaimedIsReady ==
  ASSUME WorkerInv, [ConversationNext]_allVars, NEW e \in Executions,
         outcome'[e] = "RUNNING", outcome[e] # "RUNNING"
  PROVE  TurnReady(e)
<1>1. TypeOK /\ ConversationTypes /\ RunAggregation
  BY DEF WorkerInv, ConversationTypes
<1>2. ASSUME NEW t \in Threads, NEW f \in Executions, ClaimTurn(t, f)
      PROVE  TurnReady(e)
  BY <1>1, <1>2 DEF ClaimTurn, Claim, TypeOK
<1>3. ASSUME NEW t \in Threads, CompleteExecution(t)
      PROVE  FALSE
  <2>1. CASE Owns(t)
    BY <1>1, <1>3, <2>1, CompleteEffect DEF TypeOK, TerminalOutcomes
  <2>2. QED
    BY <1>3, <2>1 DEF CompleteExecution
<1>4. ASSUME NEW t \in Threads, MarkConversationSessionUnusable(t)
      PROVE  FALSE
  BY <1>1, <1>4, MarkEffect
<1>5. ASSUME NEW p \in Processes, NEW S \in SUBSET Executions, ReconcileTurns(p, S)
      PROVE  FALSE
  BY <1>1, <1>5, ReconcileTurnsEffect
<1>6. QED
  BY <1>2, <1>3, <1>4, <1>5, OutcomeStep

\* A RUNNING turn is ended by the thread that owns it and has its answer, or
\* by the recovery, which ends every queued turn of the conversation with it.
LEMMA EndedStep ==
  ASSUME WorkerInv, [ConversationNext]_allVars, NEW e \in Executions,
         outcome[e] = "RUNNING", outcome'[e] \in TerminalOutcomes
  PROVE  \/ \E t \in Threads : task[t].pc = "answered" /\ task[t].exec = e /\ Owns(t)
         \/ \A f \in Executions : RunOf[f] = RunOf[e] /\ outcome[f] = "PENDING" => outcome'[f] = "ERROR"
<1>1. TypeOK /\ ConversationTypes /\ RunAggregation
  BY DEF WorkerInv, ConversationTypes
<1>2. ASSUME NEW t \in Threads, NEW f \in Executions, ClaimTurn(t, f)
      PROVE  FALSE
  BY <1>1, <1>2 DEF ClaimTurn, Claim, TypeOK, TerminalOutcomes
<1>3. ASSUME NEW t \in Threads, CompleteExecution(t)
      PROVE  task[t].pc = "answered" /\ task[t].exec = e /\ Owns(t)
  <2>1. CASE Owns(t)
    <3>1. outcome' = [outcome EXCEPT ![task[t].exec] = task[t].result]
      BY <1>1, <1>3, <2>1, CompleteEffect
    <3>2. QED
      BY <1>1, <1>3, <2>1, <3>1 DEF CompleteExecution, TypeOK, TerminalOutcomes
  <2>2. QED
    BY <1>3, <2>1 DEF CompleteExecution, TerminalOutcomes
<1>4. ASSUME NEW t \in Threads, MarkConversationSessionUnusable(t)
      PROVE  FALSE
  BY <1>1, <1>4, MarkEffect DEF TerminalOutcomes
<1>5. ASSUME NEW p \in Processes, NEW S \in SUBSET Executions, ReconcileTurns(p, S),
             NEW f \in Executions, RunOf[f] = RunOf[e], outcome[f] = "PENDING"
      PROVE  outcome'[f] = "ERROR"
  <2> DEFINE unstarted == {g \in S : SafeToReclaim(g)}
             ambiguous == S \ unstarted
             R == {RunOf[g] : g \in ambiguous}
             closed == ambiguous \cup Blocked(R)
  <2>1. /\ \A g \in Executions : outcome'[g] =
             IF g \in unstarted THEN "PENDING" ELSE IF g \in closed THEN "ERROR" ELSE outcome[g]
        /\ \A g \in S : outcome[g] = "RUNNING"
    BY <1>5 DEF ReconcileTurns, Stale
  <2>2. \A g \in Blocked(R) : outcome[g] = "PENDING"
    BY DEF Blocked
  <2>3. e \in ambiguous
    BY <2>1, <2>2 DEF TerminalOutcomes
  <2>4. RunOf[f] \in R
    BY <1>5, <2>3
  <2>5. f \in Blocked(R)
    BY <1>5, <2>4 DEF Blocked
  <2>6. f \notin unstarted
    BY <1>5, <2>1
  <2>7. QED
    BY <2>1, <2>5, <2>6
<1>6. QED
  BY <1>2, <1>3, <1>4, <1>5, OutcomeStep DEF TerminalOutcomes

Later(e, f) == RunOf[f] = RunOf[e] /\ Ordinal[f] > Ordinal[e]
NoOneSends(f) == \A u \in Threads : task[u].pc = "started" => task[u].exec # f

\* While a turn is open none after it was sent or is about to be.  While a
\* thread may still send a turn, also one that lost it to the recovery, the
\* turns after it were not sent either, and none is in the queue unless the
\* turn is still that thread's own.
OrderInv ==
  /\ \A e, f \in Executions : Later(e, f) /\ outcome[e] \in {"PENDING", "RUNNING"} =>
       outcome[f] # "RUNNING" /\ requests[f] = 0 /\ NoOneSends(f)
  /\ \A u \in Threads : task[u].pc = "started" =>
       \A f \in Executions : Later(task[u].exec, f) =>
         /\ outcome[f] # "RUNNING" /\ requests[f] = 0 /\ NoOneSends(f)
         /\ outcome[f] = "PENDING" => outcome[task[u].exec] = "RUNNING"
  /\ \A u \in Threads : task[u].pc = "started" /\ outcome[task[u].exec] = "RUNNING" => Owns(u)

\* Nobody claims, sends or crosses the boundary of a turn after an open one
\* or one that may still be sent.
LEMMA LaterKept ==
  ASSUME WorkerInv, [ConversationNext]_allVars, NEW f \in Executions,
         outcome[f] # "RUNNING", requests[f] = 0, NoOneSends(f)
  PROVE  /\ requests'[f] = 0 /\ NoOneSends(f)'
         /\ outcome'[f] = "RUNNING" => TurnReady(f)
<1>1. Boundary
  BY BoundaryStep
<1>2. \A u \in Threads : task[u].exec = f => ~Crosses(u)
  BY DEF Crosses, Owns
<1>3. QED
  BY <1>1, <1>2, ClaimedIsReady DEF Boundary, NoOneSends

LEMMA OpenOrderStep ==
  ASSUME WorkerInv, OrderInv, [ConversationNext]_allVars, NEW e \in Executions, NEW f \in Executions,
         Later(e, f), outcome'[e] \in {"PENDING", "RUNNING"}
  PROVE  outcome'[f] # "RUNNING" /\ requests'[f] = 0 /\ NoOneSends(f)'
<1>1. TypeOK
  BY DEF WorkerInv, ConversationTypes
<1>2. outcome[e] \in {"PENDING", "RUNNING"}
  BY <1>1, RowStep DEF TypeOK, TerminalOutcomes
<1>3. outcome[f] # "RUNNING" /\ requests[f] = 0 /\ NoOneSends(f)
  BY <1>2 DEF OrderInv
<1>4. ~TurnReady(f)
  BY <1>2, OrdinalAssumption DEF TurnReady, Later, MembersOf, TerminalOutcomes
<1>5. QED
  BY <1>3, <1>4, LaterKept

LEMMA SendingOrderStep ==
  ASSUME WorkerInv, OrderInv, [ConversationNext]_allVars, NEW u \in Threads,
         task'[u].pc = "started", NEW f \in Executions, Later(task'[u].exec, f)
  PROVE  /\ outcome'[f] # "RUNNING" /\ requests'[f] = 0 /\ NoOneSends(f)'
         /\ outcome'[f] = "PENDING" => outcome'[task'[u].exec] = "RUNNING"
<1> DEFINE e == task[u].exec
<1>1. TypeOK /\ Boundary /\ SubmissionInv /\ FencingTokens /\ ClaimStateConstraint
  BY BoundaryStep DEF WorkerInv, ConversationTypes
<1>2. /\ task'[u].exec = e
      /\ task[u].pc = "started" \/ (task[u].pc = "ready" /\ Crosses(u))
  BY <1>1 DEF Boundary
<1>3. e \in Executions /\ task[u].pc # "idle"
  BY <1>1, <1>2 DEF TypeOK
<1>4. CASE Crosses(u)
  <2>1. outcome[e] = "RUNNING" /\ outcome' = outcome
    BY <1>4 DEF Crosses, Owns
  <2>2. outcome'[f] # "RUNNING" /\ requests'[f] = 0 /\ NoOneSends(f)'
    BY <1>2, <1>3, <2>1, OpenOrderStep
  <2>3. QED
    BY <1>2, <2>1, <2>2
<1>5. CASE task[u].pc = "started"
  <2>1. /\ outcome[f] # "RUNNING" /\ requests[f] = 0 /\ NoOneSends(f)
        /\ outcome[f] = "PENDING" => outcome[e] = "RUNNING"
    BY <1>2, <1>5 DEF OrderInv
  <2>2. requests'[f] = 0 /\ NoOneSends(f)' /\ (outcome'[f] = "RUNNING" => TurnReady(f))
    BY <2>1, LaterKept
  <2>3. TurnReady(f) => outcome[e] \in TerminalOutcomes
    BY <1>2, <1>3, OrdinalAssumption DEF TurnReady, Later, MembersOf
  <2>4. outcome'[f] # "RUNNING"
    <3>1. CASE outcome'[f] = "RUNNING"
      <4>1. outcome[f] = "PENDING"
        BY <2>1, <3>1, RowStep
      <4>2. QED
        BY <2>1, <2>2, <2>3, <3>1, <4>1 DEF TerminalOutcomes
    <3>2. QED
      BY <3>1
  <2>5. ASSUME outcome'[f] = "PENDING"
        PROVE  outcome'[e] = "RUNNING"
    <3>1. outcome[f] = "PENDING"
      <4>1. phase[f] = "CLAIMED" => outcome[f] = "RUNNING"
        BY <1>1 DEF ClaimStateConstraint, ClaimPhases
      <4>2. QED
        BY <2>1, <2>5, <4>1, RowStep
    <3>2. outcome[e] = "RUNNING" /\ Owns(u)
      BY <1>5, <2>1, <3>1 DEF OrderInv
    <3>3. phase[e] # "CLAIMED"
      BY <1>1, <1>5 DEF SubmissionInv
    <3>4. outcome'[e] # "PENDING"
      BY <1>3, <3>2, <3>3, RowStep
    <3>5. outcome'[e] \notin TerminalOutcomes
      <4> SUFFICES ASSUME outcome'[e] \in TerminalOutcomes
                   PROVE  FALSE
        OBVIOUS
      <4>1. RunOf[f] = RunOf[e]
        BY <1>2 DEF Later
      <4>2. PICK t \in Threads : task[t].pc = "answered" /\ task[t].exec = e /\ Owns(t)
        BY <1>3, <2>5, <3>1, <3>2, <4>1, EndedStep
      <4>3. t = u
        BY <1>1, <1>3, <3>2, <4>2 DEF FencingTokens, Owns
      <4>4. QED
        BY <1>5, <4>2, <4>3
    <3>6. outcome'[e] \in {"PENDING", "RUNNING"} \cup TerminalOutcomes
      BY <1>3, WorkerInvStep DEF WorkerInv, ConversationTypes, TypeOK
    <3>7. QED
      BY <3>4, <3>5, <3>6
  <2>6. QED
    BY <1>2, <2>2, <2>4, <2>5
<1>6. QED
  BY <1>2, <1>4, <1>5

LEMMA OwnershipStep ==
  ASSUME WorkerInv, OrderInv, [ConversationNext]_allVars, NEW u \in Threads,
         task'[u].pc = "started", outcome'[task'[u].exec] = "RUNNING"
  PROVE  Owns(u)'
<1> DEFINE e == task[u].exec
<1>1. TypeOK /\ Boundary /\ SubmissionInv /\ ClaimStateConstraint
  BY BoundaryStep DEF WorkerInv, ConversationTypes
<1>2. /\ task'[u].exec = e /\ task'[u].token = task[u].token
      /\ task[u].pc = "started" \/ (task[u].pc = "ready" /\ Crosses(u))
  BY <1>1 DEF Boundary
<1>3. e \in Executions
  BY <1>1, <1>2 DEF TypeOK
<1>4. CASE Crosses(u)
  BY <1>2, <1>4 DEF Crosses, Owns
<1>5. CASE task[u].pc = "started"
  <2>1. phase[e] \notin {"NONE", "CLAIMED"}
    BY <1>1, <1>5 DEF SubmissionInv
  <2>2. outcome[e] # "PENDING"
    BY <1>1, <1>3, <2>1 DEF ClaimStateConstraint, TerminalOutcomes
  <2>3. outcome[e] = "RUNNING" /\ claim'[e] = claim[e]
    BY <1>2, <1>3, <2>1, <2>2, RowStep
  <2>4. Owns(u)
    BY <1>5, <2>3 DEF OrderInv
  <2>5. QED
    BY <1>2, <2>3, <2>4 DEF Owns
<1>6. QED
  BY <1>2, <1>4, <1>5

LEMMA OrderStep ==
  ASSUME WorkerInv, OrderInv, [ConversationNext]_allVars
  PROVE  OrderInv'
BY OpenOrderStep, SendingOrderStep, OwnershipStep DEF OrderInv, Later

\* The target hears the turns of a conversation in their order: no late
\* worker sends a turn after a later one was sent.
THEOREM TurnsInOrder == ConversationSpec => TurnsSentInOrder
<1>1. ConversationInit => OrderInv
  BY NoLegacyTurns, IdleTaskIsIdle
  DEF ConversationInit, Init, OrderInv, NoOneSends, Later
<1>2. WorkerInv /\ OrderInv /\ [ConversationNext]_allVars => WorkerInv' /\ OrderInv'
  BY WorkerInvStep, OrderStep
<1>3. WorkerInv /\ OrderInv /\ [ConversationNext]_allVars =>
        [\A e \in Executions : requests'[e] # requests[e] =>
           \A f \in MembersOf(RunOf[e]) : Ordinal[f] > Ordinal[e] => requests[f] = 0]_allVars
  BY BoundaryStep DEF Boundary, OrderInv, Later, MembersOf
<1>4. QED
  BY <1>1, <1>2, <1>3, WorkerInvInit, PTL DEF ConversationSpec, TurnsSentInOrder

-----------------------------------------------------------------------------
(* The conversation ledger is implemented.                                 *)

\* No answer and no timeout without a request, in conversations too.
LEMMA ConversationAnsweredStep ==
  ASSUME WorkerInv, AnsweredAsked, [ConversationNext]_allVars
  PROVE  AnsweredAsked'
<1>1. ConversationTypes /\ TypeOK /\ TurnOK /\ SubmissionInv /\ RunAggregation
  BY DEF WorkerInv, ConversationTypes
<1>2. CASE [Next]_vars
  BY <1>1, <1>2, AnsweredStep
<1>3. ASSUME NEW t \in Threads, FailsTurn(t)
      PROVE  AnsweredAsked'
  <2>1. Observed(t, "ERROR") /\ UNCHANGED requests
    BY <1>3 DEF FailsTurn
  <2>2. task'[t].pc = "answered"
    BY <1>1, <1>3, FailsTurnEffect
  <2>3. QED
    BY <1>1, <2>1, <2>2, ErrorObserved, NoAnswer
<1>4. ASSUME UNCHANGED <<task, requests>>
      PROVE  AnsweredAsked'
  BY <1>1, <1>4, AnsweredKept
<1>5. ASSUME NEW t \in Threads, MarkConversationSessionUnusable(t)
      PROVE  AnsweredAsked'
  BY <1>1, <1>4, <1>5, MarkEffect
<1>6. ASSUME NEW p \in Processes, NEW S \in SUBSET Executions, ReconcileTurns(p, S)
      PROVE  AnsweredAsked'
  BY <1>1, <1>4, <1>6, ReconcileTurnsEffect
<1>7. QED
  BY <1>1, <1>2, <1>3, <1>4, <1>5, <1>6, ClassifiedStep DEF OnlyStops

\* A session is opened before a thread asks over it.
OpenedInv ==
  /\ \A r \in Runs : sessionId[r] # 0 => opened[r] # 0
  /\ \A t \in Threads : turn[t].step \in {"opening", "ready"} => opened[RunOf[task[t].exec]] # 0

LEMMA OpenedStays ==
  ASSUME WorkerInv, [ConversationNext]_allVars, NEW r \in Runs, opened[r] # 0
  PROVE  opened'[r] # 0
<1>1. TypeOK /\ TurnOK /\ AttemptTypes
  BY DEF WorkerInv, ConversationTypes
<1>2. ASSUME NEW t \in Threads, StartsOpening(t)
      PROVE  opened'[r] # 0
  BY <1>1, <1>2 DEF StartsOpening, AttemptTypes
<1>3. QED
  BY <1>1, <1>2, OpenedStep

\* The step of a thread leaves the others alone.
LEMMA ActsAlone ==
  ASSUME TypeOK, TurnOK, NEW t \in Threads, TurnStep(t) \/ TargetCall(t)
  PROVE  OthersKept(t) /\ TurnsKept(t)
<1> DEFINE Goal == OthersKept(t) /\ TurnsKept(t)
<1>1. ASSUME NEW c \in Continuities, SetContinuity(t, c)
      PROVE  TurnsKept(t)
  BY <1>1, SetContinuityTurn
<1>2. ASSUME NEW s \in Steps, SetStep(t, s)
      PROVE  TurnsKept(t)
  BY <1>2, SetStepTurn
<1>3. task' = task => OthersKept(t)
  BY DEF OthersKept
<1>4. CASE PrepareTurn(t)
  BY <1>1, <1>4, GoToStep, ObservedStep, ReleaseStep
  DEF PrepareTurn, Prepare, Pcs, TerminalOutcomes, Continuities
<1>5. CASE SetupTurnFails(t)
  BY <1>1, <1>5, ObservedStep DEF SetupTurnFails, SetupFails, TerminalOutcomes, Continuities
<1>6. CASE RecordTurnMetadata(t)
  BY <1>1, <1>6, GoToStep, ObservedStep
  DEF RecordTurnMetadata, RecordRuntimeMetadata, Pcs, TerminalOutcomes, Continuities
<1>7. CASE MarkTurnSubmissionStarted(t)
  BY <1>7, GoToStep, ReleaseStep
  DEF MarkTurnSubmissionStarted, MarkSubmissionStarted, Pcs, TurnsKept, conversationVars
<1>8. CASE EnsureConversationSession(t)
  <2>1. CASE Observed(t, "ERROR") /\ SetContinuity(t, "UNUSABLE")
    BY <1>1, <1>8, <2>1, ObservedStep DEF EnsureConversationSession, TerminalOutcomes, Continuities
  <2>2. CASE SetStep(t, "ready") /\ task' = task
    BY <1>2, <1>3, <2>2 DEF Steps
  <2>3. CASE /\ turn' = [turn EXCEPT ![t].step = "opening", ![t].sid = opened[RunOf[task[t].exec]] + 1]
             /\ task' = task
    BY <1>3, <2>3 DEF TurnOK, TurnsKept
  <2>4. QED
    BY <1>8, <2>1, <2>2, <2>3 DEF EnsureConversationSession
<1>9. CASE CompleteTurn(t)
  BY <1>9, ReleaseStep DEF CompleteTurn, CompleteExecution, TurnOK, TurnsKept
<1>10. CASE MarkConversationSessionUnusable(t)
  BY <1>2, <1>3, <1>10 DEF MarkConversationSessionUnusable, Steps
<1>11. CASE MarkUnusableRefused(t)
  BY <1>3, <1>11, NoTurnTurn DEF MarkUnusableRefused, vars
<1>12. CASE CloseConversation(t)
  BY <1>3, <1>12 DEF CloseConversation, TurnOK, TurnsKept, vars
<1>13. CASE SessionOpens(t)
  BY <1>2, <1>3, <1>13 DEF SessionOpens, Steps, vars
<1>14. ASSUME NEW c \in Continuities, SessionOpenFails(t, c)
       PROVE  Goal
  BY <1>1, <1>14, ObservedStep DEF SessionOpenFails, TurnOK, TerminalOutcomes
<1>15. CASE SubmitTurn(t)
  BY <1>2, <1>15, GoToStep DEF SubmitTurn, SubmitQuestion, Pcs, Steps
<1>16. ASSUME NEW result \in TerminalOutcomes, NEW c \in Continuities, TurnAnswers(t, result, c)
       PROVE  Goal
  BY <1>1, <1>16, ObservedStep DEF TurnAnswers, TargetAnswers
<1>17. ASSUME NEW ok \in BOOLEAN, SessionCloses(t, ok)
       PROVE  Goal
  BY <1>3, <1>17, NoTurnTurn DEF SessionCloses, vars
<1>18. QED
  BY <1>4, <1>5, <1>6, <1>7, <1>8, <1>9, <1>10, <1>11, <1>12, <1>13, <1>14, <1>15, <1>16, <1>17
  DEF TurnStep, TargetCall

\* A thread moves on by a claim or a step of its own, or it is stopped by a
\* crash or an exception.
LEMMA ThreadMoves ==
  ASSUME TypeOK, TurnOK, [ConversationNext]_allVars, NEW u \in Threads
  PROVE  \/ UNCHANGED <<task[u], turn[u]>>
         \/ stops' # 0 /\ task'[u].pc = "idle" /\ turn'[u].step = "none"
         \/ \E e \in Executions : ClaimTurn(u, e)
         \/ TurnStep(u) \/ TargetCall(u)
<1> DEFINE Goal == \/ UNCHANGED <<task[u], turn[u]>>
                   \/ stops' # 0 /\ task'[u].pc = "idle" /\ turn'[u].step = "none"
                   \/ \E e \in Executions : ClaimTurn(u, e)
                   \/ TurnStep(u) \/ TargetCall(u)
<1>1. ASSUME NEW t \in Threads, NEW e \in Executions, ClaimTurn(t, e)
      PROVE  Goal
  <2>1. OthersKept(t) /\ turn' = turn
    BY <1>1 DEF ClaimTurn, Claim, OthersKept, TypeOK, conversationVars
  <2>2. QED
    BY <1>1, <2>1 DEF OthersKept
<1>2. ASSUME NEW t \in Threads, TurnStep(t) \/ TargetCall(t)
      PROVE  Goal
  BY <1>2, ActsAlone DEF OthersKept, TurnsKept
<1>3. ASSUME NEW t \in Threads, TurnEscapes(t)
      PROVE  Goal
  <2>1. stops' # 0
    BY <1>3 DEF TurnEscapes, TaskEscapes, TypeOK
  <2>2. OthersKept(t) /\ task'[t].pc = "idle"
    BY <1>3, ReleaseStep DEF TurnEscapes, TaskEscapes, OthersKept
  <2>3. TurnsKept(t) /\ turn'[t].step = "none"
    BY <1>3, NoTurnTurn DEF TurnEscapes
  <2>4. QED
    BY <2>1, <2>2, <2>3 DEF OthersKept, TurnsKept
<1>4. ASSUME NEW p \in Processes, CrashWorker(p)
      PROVE  Goal
  BY <1>4, NoTurnType, IdleTaskIsIdle DEF CrashWorker, Crash, TypeOK
<1>5. ASSUME UNCHANGED <<task, turn>>
      PROVE  Goal
  BY <1>5
<1>6. QED
  BY <1>1, <1>2, <1>3, <1>4, <1>5
  DEF ConversationNext, ApartFromTarget, ReconcileTurns, ExitWorker, Exit, OutsideTurns,
      RefreshClaimLease, LeaseExpires, DelayElapses, Stop, Restart, conversationVars, allVars, vars

LEMMA OpenedInvStep ==
  ASSUME WorkerInv, WorkerInv', OpenedInv, [ConversationNext]_allVars
  PROVE  OpenedInv'
<1> USE DEF attemptVars, conversationVars
<1>1. TypeOK /\ TurnOK /\ TurnOK' /\ AttemptTypes /\ Boundary
  BY BoundaryStep DEF WorkerInv, ConversationTypes
<1>2. ASSUME NEW r \in Runs, sessionId'[r] # 0
      PROVE  opened'[r] # 0
  <2>1. CASE sessionId[r] # 0
    BY <2>1, OpenedStays DEF OpenedInv
  <2>2. CASE sessionId[r] = 0
    <3>1. PICK t \in Threads : SessionOpens(t)
      BY <1>2, <2>2
      DEF ConversationNext, ApartFromTarget, TargetCall, TurnStep, ClaimTurn, PrepareTurn,
          SetupTurnFails, RecordTurnMetadata, MarkTurnSubmissionStarted, EnsureConversationSession,
          CompleteTurn, MarkConversationSessionUnusable, MarkUnusableRefused, CloseConversation,
          TurnEscapes, ReconcileTurns, CrashWorker, ExitWorker, OutsideTurns, SessionOpenFails,
          SubmitTurn, TurnAnswers, SessionCloses, allVars
    <3>2. r = RunOf[task[t].exec] /\ turn[t].step = "opening"
      BY <1>1, <1>2, <2>2, <3>1 DEF SessionOpens, AttemptTypes
    <3>3. QED
      BY <3>2, OpenedStays DEF OpenedInv
  <2>3. QED
    BY <2>1, <2>2
<1>3. ASSUME NEW u \in Threads, turn'[u].step \in {"opening", "ready"}
      PROVE  opened'[RunOf[task'[u].exec]] # 0
  <2>1. task'[u].pc = "started"
    BY <1>1, <1>3 DEF TurnOK
  <2>2. task'[u].exec = task[u].exec
    BY <1>1, <2>1 DEF Boundary
  <2>3. task'[u].exec \in Executions
    BY <2>1 DEF WorkerInv, ConversationTypes, TypeOK
  <2>4. RunOf[task[u].exec] \in Runs
    BY <2>2, <2>3, ManifestAssumption
  <2>5. CASE turn[u].step \in {"opening", "ready"}
    BY <2>2, <2>4, <2>5, OpenedStays DEF OpenedInv
  <2>6. CASE turn[u].step \notin {"opening", "ready"}
    <3>1. EnsureConversationSession(u)
      <4>1. ASSUME NEW e \in Executions, ClaimTurn(u, e)
            PROVE  FALSE
        BY <1>1, <2>1, <4>1 DEF ClaimTurn, Claim, TypeOK
      <4>2. ASSUME TurnStep(u), ~EnsureConversationSession(u)
            PROVE  FALSE
        <5>1. CASE MarkTurnSubmissionStarted(u)
          BY <1>3, <2>6, <5>1 DEF MarkTurnSubmissionStarted
        <5>2. CASE CompleteTurn(u)
          BY <1>1, <2>1, <5>2, ReleaseStep DEF CompleteTurn, CompleteExecution
        <5>3. CASE MarkConversationSessionUnusable(u) \/ MarkUnusableRefused(u) \/ CloseConversation(u)
          BY <1>1, <2>1, <5>3
          DEF MarkConversationSessionUnusable, MarkUnusableRefused, CloseConversation, TurnOK, vars
        <5>4. CASE PrepareTurn(u) \/ SetupTurnFails(u) \/ RecordTurnMetadata(u)
          <6>1. \E c \in Continuities : SetContinuity(u, c)
            BY <5>4 DEF PrepareTurn, SetupTurnFails, RecordTurnMetadata, Continuities
          <6>2. QED
            BY <1>1, <1>3, <6>1, SetContinuityTurn
        <5>5. QED
          BY <4>2, <5>1, <5>2, <5>3, <5>4 DEF TurnStep
      <4>3. ASSUME TargetCall(u)
            PROVE  FALSE
        <5>1. CASE SessionOpens(u) \/ SubmitTurn(u)
          BY <2>6, <5>1 DEF SessionOpens, SubmitTurn
        <5>2. CASE \/ \E c \in Continuities : SessionOpenFails(u, c)
                   \/ \E result \in TerminalOutcomes, c \in Continuities : TurnAnswers(u, result, c)
          BY <1>1, <1>3, <5>2, SetContinuityTurn DEF SessionOpenFails, TurnAnswers
        <5>3. CASE \E ok \in BOOLEAN : SessionCloses(u, ok)
          BY <1>1, <1>3, <5>3, NoTurnTurn DEF SessionCloses
        <5>4. QED
          BY <4>3, <5>1, <5>2, <5>3 DEF TargetCall
      <4>4. QED
        BY <1>1, <1>3, <2>1, <2>6, <4>1, <4>2, <4>3, ThreadMoves
    <3>2. CASE SetContinuity(u, "UNUSABLE")
      BY <1>1, <1>3, <3>2, SetContinuityTurn DEF Continuities
    <3>3. CASE sessionId[RunOf[task[u].exec]] # 0
      BY <2>2, <2>4, <3>3, OpenedStays DEF OpenedInv
    <3>4. CASE opened' = [opened EXCEPT ![RunOf[task[u].exec]] = @ + 1]
      BY <1>1, <2>2, <2>4, <3>4 DEF AttemptTypes
    <3>5. QED
      BY <3>1, <3>2, <3>3, <3>4 DEF EnsureConversationSession
  <2>7. QED
    BY <2>5, <2>6
<1>4. QED
  BY <1>2, <1>3 DEF OpenedInv

\* All that a conversation relies on.
ConversationInv ==
  WorkerInv /\ AnsweredAsked /\ UnownedInv /\ CompletionInv /\ SessionInv /\ OrderInv /\ OpenedInv

LEMMA ConversationInvInit == ConversationInit => ConversationInv
<1>1. ConversationInit => CompletionInv /\ OpenedInv
  BY NoTurnType, IdleTaskIsIdle DEF ConversationInit, CompletionInv, OpenedInv
<1>2. ConversationInit => UnownedInv
  BY NoLegacyTurns DEF ConversationInit, Init, UnownedInv, TerminalOutcomes
<1>3. ConversationInit => SessionInv /\ AnsweredAsked
  BY IdleTaskIsIdle, ManifestAssumption DEF ConversationInit, Init, SessionInv, AnsweredAsked
<1>4. ConversationInit => OrderInv
  BY NoLegacyTurns, IdleTaskIsIdle
  DEF ConversationInit, Init, OrderInv, NoOneSends, Later
<1>5. QED
  BY <1>1, <1>2, <1>3, <1>4, WorkerInvInit DEF ConversationInv

LEMMA ConversationInvStep ==
  ASSUME ConversationInv, [ConversationNext]_allVars
  PROVE  ConversationInv'
<1>1. WorkerInv /\ WorkerInv'
  BY WorkerInvStep DEF ConversationInv
<1>2. AnsweredAsked' /\ CompletionInv' /\ OrderInv'
  BY <1>1, ConversationAnsweredStep, CompletionStep, OrderStep DEF ConversationInv
<1>3. UnownedInv' /\ SessionInv' /\ OpenedInv'
  BY <1>1, UnownedStep, SessionStep, OpenedInvStep DEF ConversationInv
<1>4. QED
  BY <1>1, <1>2, <1>3 DEF ConversationInv

LEMMA ConversationInvAlways == ConversationSpec => []ConversationInv
BY ConversationInvInit, ConversationInvStep, PTL DEF ConversationSpec

\* The two ledgers judge alike.
LEMMA SameObservations == Conversation!Observations = TerminalOutcomes
BY DEF Conversation!Observations, TerminalOutcomes

LEMMA ConversationJudgeStep ==
  ASSUME TypeOK', RunAggregation'
  PROVE  Conversation!Judge
BY JudgeStep DEF Ledger!Judge, Conversation!Judge, Ledger!Verdict, Conversation!Verdict,
                 Ledger!Observations, Conversation!Observations

\* The parts of the state that the conversation ledger shows.
Shown == <<outcome, phase, claim, requests, runState, opened, attemptDone>>

LEMMA ConversationLedgerStutter ==
  ASSUME UNCHANGED Shown
  PROVE  UNCHANGED Conversation!conversationLedgerVars
BY DEF Shown, Conversation!conversationLedgerVars, Conversation!ledgerVars, Status

LEMMA ConversationLedgerStart ==
  ASSUME WorkerInv, ConversationInit
  PROVE  Conversation!ConversationLedgerInit
<1>1. TypeOK /\ RunAggregation /\ Init
  BY DEF WorkerInv, ConversationTypes, ConversationInit
<1>2. Ledger!LedgerInit
  BY <1>1, LedgerStart
<1>3. Conversation!LedgerInit
  BY <1>2 DEF Ledger!LedgerInit, Conversation!LedgerInit, Ledger!Verdict, Conversation!Verdict,
              Ledger!Observations, Conversation!Observations
<1>4. \A e \in Executions : outcome[e] = "PENDING" /\ Status(e) = "QUEUED"
  BY NoLegacyTurns DEF ConversationInit, Init, Status
<1>5. QED
  BY <1>3, <1>4 DEF Conversation!ConversationLedgerInit, ConversationInit, TerminalOutcomes

\* A turn is over for the ledger when its row is terminal.
LEMMA ObservedTurn ==
  ASSUME TypeOK, NEW e \in Executions
  PROVE  Conversation!Observed(e) <=> outcome[e] \in TerminalOutcomes
BY StatusTerminal, SameObservations DEF Conversation!Observed, TerminalOutcomes

LEMMA QueuedTurn ==
  ASSUME TypeOK, NEW e \in Executions
  PROVE  Status(e) = "QUEUED" <=> outcome[e] = "PENDING"
BY DEF Status, TypeOK, TerminalOutcomes

\* A claimed turn is taken, a turn past the boundary is begun.
LEMMA ClaimTakes ==
  ASSUME ConversationInv, ConversationInv', NEW t \in Threads, NEW e \in Executions, ClaimTurn(t, e)
  PROVE  Conversation!TakeTurn(e)
<1> USE DEF rowVars, runVars
<1>1. TypeOK /\ TypeOK' /\ RunAggregation' /\ ClaimStateConstraint
  BY DEF ConversationInv, WorkerInv, ConversationTypes
<1>2. Claim(t, e) /\ TurnReady(e) /\ UNCHANGED <<opened, attemptDone>>
  BY DEF ClaimTurn, conversationVars, attemptVars
<1>3. /\ outcome[e] = "PENDING" /\ outcome'[e] = "RUNNING" /\ phase'[e] = "CLAIMED"
      /\ \A f \in Executions \ {e} : UNCHANGED <<outcome[f], phase[f], claim[f]>>
      /\ UNCHANGED requests
  BY <1>1, <1>2 DEF Claim, Eligible, TypeOK
<1>4. Status(e) = "QUEUED" /\ \A f \in Executions : Status(f)' = IF f = e THEN "OWNED" ELSE Status(f)
  BY <1>3 DEF Status
<1>5. Conversation!Take(e)
  BY <1>1, <1>3, <1>4, ConversationJudgeStep DEF Conversation!Take
<1>6. \A f \in Conversation!Before(e) : Conversation!Observed(f)
  BY <1>1, <1>2, ObservedTurn DEF Conversation!Before, Conversation!TurnsOf, TurnReady, MembersOf
<1>7. {f \in Executions : outcome'[f] \in TerminalOutcomes /\ claim'[f] = NoClaim}
        = {f \in Executions : outcome[f] \in TerminalOutcomes /\ claim[f] = NoClaim}
  BY <1>3 DEF TerminalOutcomes
<1>8. QED
  BY <1>2, <1>5, <1>6, <1>7 DEF Conversation!TakeTurn

LEMMA BoundaryBegins ==
  ASSUME ConversationInv, ConversationInv', NEW t \in Threads, MarkTurnSubmissionStarted(t)
  PROVE  [Conversation!ConversationLedgerNext]_(Conversation!conversationLedgerVars)
<1> DEFINE e == task[t].exec
<1> USE DEF rowVars, runVars
<1>1. TypeOK /\ TypeOK' /\ RunAggregation'
  BY DEF ConversationInv, WorkerInv, ConversationTypes
<1>2. MarkSubmissionStarted(t) /\ UNCHANGED <<opened, attemptDone>>
  BY DEF MarkTurnSubmissionStarted, conversationVars, attemptVars
<1>3. UNCHANGED <<outcome, claim, requests, runState>>
  BY <1>2 DEF MarkSubmissionStarted
<1>4. CASE Owns(t) /\ phase[e] = "CLAIMED"
  <2>1. e \in Executions /\ outcome[e] = "RUNNING" /\ Status(e) = "OWNED"
    BY <1>1, <1>2, <1>4 DEF MarkSubmissionStarted, TypeOK, Owns, Status
  <2>2. phase' = [phase EXCEPT ![e] = "SUBMISSION_STARTED"]
    BY <1>2, <1>4 DEF MarkSubmissionStarted
  <2> HIDE DEF e
  <2>3. \A f \in Executions : Status(f)' = IF f = e THEN "SENDING" ELSE Status(f)
    BY <1>1, <1>3, <2>1, <2>2 DEF Status, TypeOK
  <2>4. Conversation!BeginSending(e)
    BY <1>1, <1>3, <2>1, <2>3, ConversationJudgeStep DEF Conversation!BeginSending
  <2>5. Conversation!BeginTurn(e)
    BY <1>2, <1>3, <2>4 DEF Conversation!BeginTurn
  <2>6. QED
    BY <2>1, <2>5 DEF Conversation!ConversationLedgerNext
<1>5. CASE ~(Owns(t) /\ phase[e] = "CLAIMED")
  <2>1. UNCHANGED Shown
    BY <1>2, <1>3, <1>5 DEF MarkSubmissionStarted, Shown
  <2>2. QED
    BY <2>1, ConversationLedgerStutter
<1>6. QED
  BY <1>4, <1>5

\* A thread past the boundary is about to send a turn that was not given up
\* and whose predecessors are over, before any later turn.
LEMMA StartedTurn ==
  ASSUME ConversationInv, NEW t \in Threads, task[t].pc = "started"
  PROVE  LET e == task[t].exec
         IN  /\ e \in Executions /\ RunOf[e] \in Runs
             /\ Status(e) \notin {"QUEUED", "OWNED"}
             /\ requests[e] = 0
             /\ ~(outcome[e] \in TerminalOutcomes /\ claim[e] = NoClaim)
             /\ \A f \in Executions : Later(f, e) => outcome[f] \in TerminalOutcomes
             /\ \A f \in Executions : Later(e, f) => requests[f] = 0
<1> DEFINE e == task[t].exec
<1>1. TypeOK /\ SubmissionInv /\ ClaimStateConstraint /\ UnownedInv /\ OrderInv
  BY DEF ConversationInv, WorkerInv, ConversationTypes
<1>2. e \in Executions /\ RunOf[e] \in Runs
  BY <1>1, ManifestAssumption DEF TypeOK
<1>3. phase[e] \notin {"NONE", "CLAIMED"} /\ requests[e] = 0
  BY <1>1 DEF SubmissionInv
<1>4. Status(e) \notin {"QUEUED", "OWNED"}
  BY <1>1, <1>2, <1>3 DEF Status, ClaimStateConstraint, TypeOK, TerminalOutcomes
<1>5. ~(outcome[e] \in TerminalOutcomes /\ claim[e] = NoClaim)
  BY <1>1, <1>2 DEF UnownedInv
<1>6. ASSUME NEW f \in Executions, Later(f, e)
      PROVE  outcome[f] \in TerminalOutcomes
  <2>1. ~NoOneSends(e)
    BY DEF NoOneSends
  <2>2. outcome[f] \notin {"PENDING", "RUNNING"}
    BY <1>1, <1>2, <1>6, <2>1 DEF OrderInv
  <2>3. QED
    BY <1>1, <2>2 DEF TypeOK
<1>7. ASSUME NEW f \in Executions, Later(e, f)
      PROVE  requests[f] = 0
  BY <1>1, <1>7 DEF OrderInv
<1>8. QED
  BY <1>2, <1>3, <1>4, <1>5, <1>6, <1>7

LEMMA OpeningOpens ==
  ASSUME ConversationInv, NEW t \in Threads, EnsureConversationSession(t), opened' # opened
  PROVE  Conversation!ConversationLedgerNext
<1> DEFINE e == task[t].exec
           r == RunOf[e]
<1>1. /\ task[t].pc = "started" /\ Free(t) /\ FirstTurn(e)
      /\ opened' = [opened EXCEPT ![r] = @ + 1]
      /\ UNCHANGED <<rowVars, runVars, requests, attemptDone>>
  BY DEF EnsureConversationSession, attemptVars
<1>2. /\ e \in Executions /\ r \in Runs /\ Status(e) \notin {"QUEUED", "OWNED"} /\ requests[e] = 0
      /\ ~(outcome[e] \in TerminalOutcomes /\ claim[e] = NoClaim)
      /\ \A f \in Executions : Later(e, f) => requests[f] = 0
  BY <1>1, StartedTurn
<1>3. opened[r] = 0
  BY <1>1 DEF ConversationInv, SessionInv
<1>4. \A f \in Executions : RunOf[f] = r => f = e \/ Later(e, f)
  BY <1>1, <1>2, OrdinalAssumption DEF FirstTurn, Later
<1>5. \A f \in Executions : ~(Ordinal[f] < Ordinal[e])
  BY <1>1, OrdinalAssumption DEF FirstTurn
<1> HIDE DEF e, r
<1>6. opened' = [opened EXCEPT ![r] = 1]
  BY <1>1, <1>3
<1>7. UNCHANGED <<[f \in Executions |-> Status(f)],
                  {f \in Executions : outcome[f] \in TerminalOutcomes /\ claim[f] = NoClaim}>>
  BY <1>1 DEF Status, rowVars
<1>8. Conversation!Before(e) = {}
  BY <1>5 DEF Conversation!Before, Conversation!TurnsOf
<1>9. \A f \in Conversation!TurnsOf(r) : requests[f] = 0
  BY <1>2, <1>4 DEF Conversation!TurnsOf
<1>10. Conversation!OpenSession(e)
  BY <1>1, <1>2, <1>3, <1>6, <1>7, <1>8, <1>9 DEF Conversation!OpenSession, Conversation!ledgerVars, rowVars, runVars, r
<1>11. QED
  BY <1>2, <1>10 DEF Conversation!ConversationLedgerNext

LEMMA SubmitAsks ==
  ASSUME ConversationInv, NEW t \in Threads, SubmitTurn(t)
  PROVE  Conversation!ConversationLedgerNext
<1> DEFINE e == task[t].exec
           r == RunOf[e]
<1>1. /\ task[t].pc = "started" /\ turn[t].step = "ready"
      /\ requests' = [requests EXCEPT ![e] = @ + 1]
      /\ UNCHANGED <<rowVars, runVars, opened, attemptDone>>
  BY DEF SubmitTurn, SubmitQuestion, attemptVars
<1>2. /\ e \in Executions /\ r \in Runs /\ Status(e) \notin {"QUEUED", "OWNED"} /\ requests[e] = 0
      /\ ~(outcome[e] \in TerminalOutcomes /\ claim[e] = NoClaim)
      /\ \A f \in Executions : Later(f, e) => outcome[f] \in TerminalOutcomes
      /\ \A f \in Executions : Later(e, f) => requests[f] = 0
  BY <1>1, StartedTurn
<1>3. opened[r] = 1
  <2>1. opened[r] # 0 /\ opened[r] <= 1 /\ opened[r] \in Nat
    BY <1>1, <1>2 DEF ConversationInv, OpenedInv, SessionInv, WorkerInv, ConversationTypes, AttemptTypes
  <2> HIDE DEF r
  <2>2. QED
    BY <2>1
<1>4. TypeOK
  BY DEF ConversationInv, WorkerInv, ConversationTypes
<1> HIDE DEF e
<1>5. requests' = [requests EXCEPT ![e] = 1]
  BY <1>1, <1>2
<1>6. UNCHANGED <<[f \in Executions |-> Status(f)],
                  [q \in Runs |-> IF runState[q] \in TerminalRunStates THEN runState[q] ELSE "OPEN"],
                  {f \in Executions : outcome[f] \in TerminalOutcomes /\ claim[f] = NoClaim}>>
  BY <1>1 DEF Status, rowVars, runVars
<1>7. Conversation!Ask(e)
  BY <1>1, <1>2, <1>5, <1>6 DEF Conversation!Ask
<1>8. \A f \in Conversation!Before(e) : Conversation!Observed(f)
  BY <1>2, <1>4, ObservedTurn DEF Conversation!Before, Conversation!TurnsOf, Later
<1>9. \A f \in Conversation!After(e) : requests[f] = 0
  BY <1>2 DEF Conversation!After, Conversation!TurnsOf, Later
<1>10. Conversation!AskTurn(e)
  BY <1>1, <1>2, <1>3, <1>6, <1>7, <1>8, <1>9 DEF Conversation!AskTurn
<1>11. QED
  BY <1>2, <1>10 DEF Conversation!ConversationLedgerNext

LEMMA CompletionObserves ==
  ASSUME ConversationInv, ConversationInv', NEW t \in Threads, CompleteTurn(t)
  PROVE  [Conversation!ConversationLedgerNext]_(Conversation!conversationLedgerVars)
<1> DEFINE e == task[t].exec
           q == task[t].result
<1>1. /\ TypeOK /\ TypeOK' /\ RunAggregation' /\ AnsweredAsked /\ SubmissionInv /\ Clean
  BY DEF ConversationInv, WorkerInv, ConversationTypes
<1>2. CompleteExecution(t) /\ UNCHANGED <<opened, attemptDone>>
  BY DEF CompleteTurn, attemptVars
<1>3. UNCHANGED <<claim, requests>>
  BY <1>2 DEF CompleteExecution
<1>4. CASE Owns(t)
  <2>1. /\ e \in Executions /\ outcome[e] = "RUNNING" /\ q \in TerminalOutcomes
        /\ outcome' = [outcome EXCEPT ![e] = q]
    BY <1>1, <1>2, <1>4, CompleteEffect
  <2>2. phase' = [phase EXCEPT ![e] = "TERMINAL"]
    BY <1>2, <1>4 DEF CompleteExecution
  <2>3. q = "ERROR" \/ (requests[e] = 1 /\ phase[e] \notin {"NONE", "CLAIMED"})
    BY <1>1, <1>2, <2>1 DEF CompleteExecution, AnsweredAsked, SubmissionInv
  <2>4. claim[e] # NoClaim
    BY <1>1, <2>1 DEF Clean
  <2> HIDE DEF e, q
  <2>5. Status(e) \in {"OWNED", "SENDING"} /\ (phase[e] # "CLAIMED" => Status(e) = "SENDING")
    BY <2>1 DEF Status
  <2>6. \A f \in Executions : Status(f)' = IF f = e THEN q ELSE Status(f)
    BY <1>1, <2>1, <2>2 DEF Status, TypeOK, TerminalOutcomes
  <2>7. Conversation!Observe(e, q)
    BY <1>1, <1>3, <2>1, <2>3, <2>5, <2>6, ConversationJudgeStep DEF Conversation!Observe
  <2>8. {f \in Executions : outcome'[f] \in TerminalOutcomes /\ claim'[f] = NoClaim}
          = {f \in Executions : outcome[f] \in TerminalOutcomes /\ claim[f] = NoClaim}
    BY <1>1, <1>3, <2>1, <2>4 DEF TypeOK
  <2>9. Conversation!ObserveTurn(e, q)
    BY <1>2, <2>7, <2>8 DEF Conversation!ObserveTurn
  <2>10. QED
    BY <2>1, <2>9, SameObservations DEF Conversation!ConversationLedgerNext
<1>5. CASE ~Owns(t)
  <2>1. UNCHANGED Shown
    BY <1>2, <1>3, <1>5 DEF CompleteExecution, Shown
  <2>2. QED
    BY <2>1, ConversationLedgerStutter
<1>6. QED
  BY <1>4, <1>5

\* The attempts of R end with what their turns have become.
LEMMA EndingsShown ==
  ASSUME TypeOK', NEW R, EndSessions(R)
  PROVE  attemptDone' = [r \in Runs |-> attemptDone[r] \/
           (r \in R /\ \A f \in Conversation!TurnsOf(r) :
              [g \in Executions |-> Status(g)'][f] \in Conversation!Observations)]
<1>1. \A f \in Executions : Status(f)' \in Conversation!Observations <=> outcome'[f] \in TerminalOutcomes
  BY StatusTerminalNext, SameObservations DEF TerminalOutcomes
<1>2. \A r \in Runs : AllTurnsTerminal(outcome', r)
        <=> \A f \in Conversation!TurnsOf(r) :
              [g \in Executions |-> Status(g)'][f] \in Conversation!Observations
  BY <1>1 DEF AllTurnsTerminal, MembersOf, Conversation!TurnsOf
<1>3. QED
  BY <1>2 DEF EndSessions

LEMMA MarkGivesUp ==
  ASSUME ConversationInv, ConversationInv', NEW t \in Threads, MarkConversationSessionUnusable(t)
  PROVE  Conversation!ConversationLedgerNext
<1> DEFINE r == RunOf[turn[t].exec]
           B == Blocked({r})
<1>1. TypeOK /\ TypeOK' /\ TurnOK /\ RunAggregation' /\ ClaimStateConstraint
  BY DEF ConversationInv, WorkerInv, ConversationTypes
<1>2. /\ turn[t].step = "mark" /\ runState[r] \notin TerminalRunStates
      /\ outcome' = [e \in Executions |-> IF e \in B THEN "ERROR" ELSE outcome[e]]
      /\ phase' = [e \in Executions |-> IF e \in B THEN "TERMINAL" ELSE phase[e]]
      /\ EndSessions({r})
      /\ UNCHANGED <<claim, requests, opened>>
  BY DEF MarkConversationSessionUnusable
<1>3. r \in Runs
  BY <1>1, <1>2, ManifestAssumption DEF TurnOK
<1> HIDE DEF r
<1>4. \A e \in Executions : e \in B <=> RunOf[e] \in {r} /\ outcome[e] = "PENDING"
  BY DEF Blocked
<1>5. Conversation!Queued({r}) = B
  BY <1>1, <1>4, QueuedTurn DEF Conversation!Queued, Blocked
<1>6. B \subseteq Executions /\ \A e \in B : claim[e] = NoClaim
  BY <1>1, <1>4 DEF Blocked, ClaimStateConstraint, TerminalOutcomes
<1> HIDE DEF B
<1>7. \A e \in Executions : Status(e)' = IF e \in B THEN "ERROR" ELSE Status(e)
  BY <1>2, <1>4 DEF Status
<1>8. {e \in Executions : outcome'[e] \in TerminalOutcomes /\ claim'[e] = NoClaim}
        = {e \in Executions : outcome[e] \in TerminalOutcomes /\ claim[e] = NoClaim} \cup B
  BY <1>2, <1>6 DEF TerminalOutcomes
<1>9. Conversation!EndTurns({}, {r})
  <2>1. attemptDone' = [q \in Runs |-> attemptDone[q] \/
           (q \in {r} /\ \A f \in Conversation!TurnsOf(q) :
              [g \in Executions |-> Status(g)'][f] \in Conversation!Observations)]
    BY <1>1, <1>2, EndingsShown
  <2>2. [e \in Executions |-> Status(e)'] = [e \in Executions |->
           IF e \in {} THEN IF [g \in Executions |-> Status(g)][e] = "OWNED" THEN "QUEUED" ELSE "ERROR"
           ELSE IF e \in B THEN "ERROR" ELSE [g \in Executions |-> Status(g)][e]]
    BY <1>7
  <2>3. Conversation!Judge
    BY <1>1, ConversationJudgeStep
  <2>4. QED
    BY <1>2, <1>5, <1>8, <2>1, <2>2, <2>3 DEF Conversation!EndTurns
<1>10. Conversation!GiveUp(r)
  BY <1>2, <1>3, <1>9 DEF Conversation!GiveUp
<1>11. QED
  BY <1>3, <1>10 DEF Conversation!ConversationLedgerNext

LEMMA ReconcileRecovers ==
  ASSUME ConversationInv, ConversationInv', NEW p \in Processes, NEW S \in SUBSET Executions,
         ReconcileTurns(p, S)
  PROVE  Conversation!ConversationLedgerNext
<1> DEFINE unstarted == {e \in S : SafeToReclaim(e)}
           ambiguous == S \ unstarted
           ended == {RunOf[e] : e \in ambiguous}
           R == Conversation!Sent(S)
           closed == ambiguous \cup Blocked(ended)
<1>1. TypeOK /\ TypeOK' /\ RunAggregation' /\ ClaimStateConstraint /\ Clean
  BY DEF ConversationInv, WorkerInv, ConversationTypes
<1>2. /\ outcome' = [e \in Executions |->
           IF e \in unstarted THEN "PENDING" ELSE IF e \in closed THEN "ERROR" ELSE outcome[e]]
      /\ phase' = [e \in Executions |->
           IF e \in unstarted THEN "NONE" ELSE IF e \in closed THEN "TERMINAL" ELSE phase[e]]
      /\ claim' = [e \in Executions |-> IF e \in unstarted THEN NoClaim ELSE claim[e]]
      /\ EndSessions(ended)
      /\ UNCHANGED <<requests, opened>>
  BY DEF ReconcileTurns, ClaimsCleared
<1>3. \A e \in S : e \in Executions /\ outcome[e] = "RUNNING" /\ claim[e] # NoClaim
  BY <1>1 DEF ReconcileTurns, Stale, Clean
<1>4. /\ \A e \in S : e \in unstarted <=> phase[e] = "CLAIMED"
      /\ \A e \in Executions : e \in unstarted => e \in S
      /\ \A e \in Executions : e \in ambiguous <=> e \in S /\ e \notin unstarted
  BY DEF SafeToReclaim
<1>5. \A e \in S : Status(e) = IF e \in unstarted THEN "OWNED" ELSE "SENDING"
  BY <1>3, <1>4 DEF Status
<1>6. ended = R
  <2>1. {f \in S : [g \in Executions |-> Status(g)][f] = "SENDING"} = ambiguous
    <3> HIDE DEF unstarted
    <3>1. QED
      BY <1>3, <1>5
  <2> HIDE DEF ambiguous
  <2>2. QED
    BY <2>1 DEF Conversation!Sent
<1> HIDE DEF ended, R
<1>7. Conversation!Queued(R) = Blocked(R)
  BY <1>1, QueuedTurn DEF Conversation!Queued, Blocked
<1>8. \A e \in Blocked(R) : e \in Executions /\ outcome[e] = "PENDING" /\ claim[e] = NoClaim
  BY <1>1 DEF Blocked, ClaimStateConstraint, TerminalOutcomes
<1> HIDE DEF unstarted, ambiguous
<1>9. \A e \in Executions : e \in closed <=> e \in ambiguous \/ e \in Blocked(R)
  BY <1>6
<1> HIDE DEF closed
<1>10. \A e \in Executions : Status(e)' =
         IF e \in S THEN IF Status(e) = "OWNED" THEN "QUEUED" ELSE "ERROR"
         ELSE IF e \in Blocked(R) THEN "ERROR" ELSE Status(e)
  <2>1. ASSUME NEW e \in Executions, e \in S
        PROVE  Status(e)' = IF Status(e) = "OWNED" THEN "QUEUED" ELSE "ERROR"
    BY <1>2, <1>4, <1>5, <1>9, <2>1 DEF Status
  <2>2. ASSUME NEW e \in Executions, e \notin S
        PROVE  Status(e)' = IF e \in Blocked(R) THEN "ERROR" ELSE Status(e)
    BY <1>2, <1>4, <1>9, <2>2 DEF Status
  <2>3. QED
    BY <2>1, <2>2
<1>11. {e \in Executions : outcome'[e] \in TerminalOutcomes /\ claim'[e] = NoClaim}
         = {e \in Executions : outcome[e] \in TerminalOutcomes /\ claim[e] = NoClaim} \cup Blocked(R)
  <2>1. ASSUME NEW e \in Executions
        PROVE  (outcome'[e] \in TerminalOutcomes /\ claim'[e] = NoClaim)
                 <=> (outcome[e] \in TerminalOutcomes /\ claim[e] = NoClaim) \/ e \in Blocked(R)
    BY <1>2, <1>3, <1>4, <1>8, <1>9 DEF TerminalOutcomes
  <2>2. QED
    BY <1>8, <2>1
<1>12. Conversation!EndTurns(S, R)
  <2>1. attemptDone' = [q \in Runs |-> attemptDone[q] \/
           (q \in R /\ \A f \in Conversation!TurnsOf(q) :
              [g \in Executions |-> Status(g)'][f] \in Conversation!Observations)]
    BY <1>1, <1>2, <1>6, EndingsShown
  <2>2. [e \in Executions |-> Status(e)'] = [e \in Executions |->
           IF e \in S THEN IF [g \in Executions |-> Status(g)][e] = "OWNED" THEN "QUEUED" ELSE "ERROR"
           ELSE IF e \in Blocked(R) THEN "ERROR" ELSE [g \in Executions |-> Status(g)][e]]
    BY <1>10
  <2>3. Conversation!Judge
    BY <1>1, ConversationJudgeStep
  <2>4. QED
    BY <1>2, <1>7, <1>11, <2>1, <2>2, <2>3 DEF Conversation!EndTurns
<1>13. Conversation!RecoverTurns(S)
  BY <1>3, <1>5, <1>12 DEF Conversation!RecoverTurns, R
<1>14. QED
  BY <1>13 DEF Conversation!ConversationLedgerNext

LEMMA CloseEnds ==
  ASSUME ConversationInv, NEW t \in Threads, NEW ok \in BOOLEAN, SessionCloses(t, ok)
  PROVE  Conversation!ConversationLedgerNext
<1> DEFINE r == RunOf[turn[t].exec]
<1>1. TypeOK /\ TurnOK /\ CompletionInv
  BY DEF ConversationInv, WorkerInv, ConversationTypes
<1>2. /\ turn[t].step = "closing"
      /\ attemptDone' = [attemptDone EXCEPT ![r] = TRUE]
      /\ UNCHANGED <<vars, opened>>
  BY DEF SessionCloses
<1>3. r \in Runs /\ AllTurnsTerminal(outcome, r)
  BY <1>1, <1>2, ManifestAssumption DEF TurnOK, CompletionInv
<1> HIDE DEF r
<1>4. \A f \in Conversation!TurnsOf(r) : Conversation!Observed(f)
  BY <1>1, <1>3, ObservedTurn DEF AllTurnsTerminal, MembersOf, Conversation!TurnsOf
<1>5. UNCHANGED <<[f \in Executions |-> Status(f)], requests,
                  [q \in Runs |-> IF runState[q] \in TerminalRunStates THEN runState[q] ELSE "OPEN"],
                  {f \in Executions : outcome[f] \in TerminalOutcomes /\ claim[f] = NoClaim}>>
  BY <1>2 DEF Status, vars, rowVars, runVars
<1>6. Conversation!CloseConversation(r)
  BY <1>2, <1>4, <1>5 DEF Conversation!CloseConversation, Conversation!ledgerVars
<1>7. QED
  BY <1>3, <1>6 DEF Conversation!ConversationLedgerNext

\* Every step of a conversation is a step of its ledger or a stutter.
LEMMA ConversationLedgerStep ==
  ASSUME ConversationInv, ConversationInv', [ConversationNext]_allVars
  PROVE  [Conversation!ConversationLedgerNext]_(Conversation!conversationLedgerVars)
<1> DEFINE Goal == [Conversation!ConversationLedgerNext]_(Conversation!conversationLedgerVars)
<1> USE DEF rowVars, runVars, attemptVars, conversationVars
<1>1. ASSUME UNCHANGED Shown
      PROVE  Goal
  BY <1>1, ConversationLedgerStutter
<1>2. ASSUME NEW t \in Threads, TurnStep(t)
      PROVE  Goal
  <2>1. CASE PrepareTurn(t) \/ SetupTurnFails(t)
    BY <1>1, <2>1 DEF PrepareTurn, Prepare, SetupTurnFails, SetupFails, Shown
  <2>2. CASE RecordTurnMetadata(t)
    BY <1>1, <2>2 DEF RecordTurnMetadata, RecordRuntimeMetadata, Shown
  <2>3. CASE MarkUnusableRefused(t) \/ CloseConversation(t)
    BY <1>1, <2>3 DEF MarkUnusableRefused, CloseConversation, Shown, vars
  <2>4. CASE EnsureConversationSession(t)
    <3>1. CASE opened' = opened
      BY <1>1, <2>4, <3>1 DEF EnsureConversationSession, Shown
    <3>2. CASE opened' # opened
      BY <2>4, <3>2, OpeningOpens
    <3>3. QED
      BY <3>1, <3>2
  <2>5. CASE MarkTurnSubmissionStarted(t)
    BY <2>5, BoundaryBegins
  <2>6. CASE CompleteTurn(t)
    BY <2>6, CompletionObserves
  <2>7. CASE MarkConversationSessionUnusable(t)
    BY <2>7, MarkGivesUp
  <2>8. QED
    BY <1>2, <2>1, <2>2, <2>3, <2>4, <2>5, <2>6, <2>7 DEF TurnStep
<1>3. ASSUME NEW t \in Threads, TargetCall(t)
      PROVE  Goal
  <2>1. CASE SessionOpens(t) \/ \E c \in Continuities : SessionOpenFails(t, c)
    BY <1>1, <2>1 DEF SessionOpens, SessionOpenFails, Shown, vars
  <2>2. CASE \E result \in TerminalOutcomes, c \in Continuities : TurnAnswers(t, result, c)
    BY <1>1, <2>2 DEF TurnAnswers, TargetAnswers, Shown
  <2>3. QED
    BY <1>3, <2>1, <2>2, SubmitAsks, CloseEnds DEF TargetCall
<1>4. ASSUME NEW t \in Threads, TurnEscapes(t)
      PROVE  Goal
  BY <1>1, <1>4 DEF TurnEscapes, TaskEscapes, Shown
<1>5. ASSUME NEW p \in Processes, CrashWorker(p) \/ ExitWorker(p)
      PROVE  Goal
  BY <1>1, <1>5 DEF CrashWorker, Crash, ExitWorker, Exit, Shown
<1>6. CASE OutsideTurns
  BY <1>1, <1>6 DEF OutsideTurns, RefreshClaimLease, LeaseExpires, DelayElapses, Stop, Restart, Shown
<1>7. CASE UNCHANGED allVars
  BY <1>1, <1>7 DEF allVars, vars, Shown
<1>8. ASSUME NEW t \in Threads, NEW e \in Executions, ClaimTurn(t, e)
      PROVE  Goal
  BY <1>8, ClaimTakes DEF Conversation!ConversationLedgerNext
<1>9. QED
  BY <1>2, <1>3, <1>4, <1>5, <1>6, <1>7, <1>8, ReconcileRecovers DEF ConversationNext, ApartFromTarget

\* The worker implements the conversation ledger, whatever crashes, stalls and
\* recoveries happen and however many workers take part: turns are asked one
\* after the other over one session, none twice and none that was given up,
\* and a conversation ends once, after its last turn.
THEOREM ConversationImplemented == ConversationSpec => ImplementsConversation
<1>1. ConversationInv /\ ConversationInit => Conversation!ConversationLedgerInit
  BY ConversationLedgerStart DEF ConversationInv
<1>2. ConversationInv /\ ConversationInv' /\ [ConversationNext]_allVars
        => [Conversation!ConversationLedgerNext]_(Conversation!conversationLedgerVars)
  BY ConversationLedgerStep
<1>3. QED
  BY <1>1, <1>2, ConversationInvAlways, PTL
  DEF ConversationSpec, ImplementsConversation, Conversation!ConversationLedgerSpec

-----------------------------------------------------------------------------
(* The ends of turns and attempts.                                         *)

\* A turn ends with the observation of its owner, or because the session is
\* given up: with it if it was running.
LEMMA TerminalStep ==
  ASSUME WorkerInv, [ConversationNext]_allVars, NEW e \in Executions,
         outcome[e] \notin TerminalOutcomes, outcome'[e] \in TerminalOutcomes
  PROVE  \/ \E t \in Threads : CompleteTurn(t) /\ Owns(t) /\ task[t].exec = e
         \/ session'[RunOf[e]] = "UNUSABLE" /\ (outcome[e] = "RUNNING" => broken'[RunOf[e]])
<1> USE DEF vars, rowVars
<1>1. /\ ConversationTypes /\ TypeOK /\ TurnOK /\ RunAggregation /\ RunOf[e] \in Runs
      /\ outcome'[e] # outcome[e]
  BY ManifestAssumption DEF WorkerInv, ConversationTypes
<1>2. ASSUME NEW t \in Threads, NEW f \in Executions, ClaimTurn(t, f)
      PROVE  FALSE
  BY <1>1, <1>2 DEF ClaimTurn, Claim, TypeOK, TerminalOutcomes
<1>3. ASSUME NEW t \in Threads, CompleteTurn(t)
      PROVE  Owns(t) /\ task[t].exec = e
  <2>1. CompleteExecution(t)
    BY <1>3 DEF CompleteTurn
  <2>2. Owns(t)
    BY <1>1, <2>1 DEF CompleteExecution
  <2>3. outcome' = [outcome EXCEPT ![task[t].exec] = task[t].result]
    BY <1>1, <2>1, <2>2, CompleteEffect
  <2>4. QED
    BY <1>1, <2>2, <2>3 DEF TypeOK
<1>4. ASSUME NEW t \in Threads, MarkConversationSessionUnusable(t)
      PROVE  session'[RunOf[e]] = "UNUSABLE" /\ outcome[e] = "PENDING"
  <2>1. outcome[e] = "PENDING" /\ RunOf[e] \in {RunOf[turn[t].exec]}
    BY <1>1, <1>4, MarkEffect
  <2>2. EndSessions({RunOf[turn[t].exec]})
    BY <1>4 DEF MarkConversationSessionUnusable
  <2>3. QED
    BY <1>1, <2>1, <2>2 DEF EndSessions
<1>5. ASSUME NEW p \in Processes, NEW S \in SUBSET Executions, ReconcileTurns(p, S)
      PROVE  session'[RunOf[e]] = "UNUSABLE" /\ broken'[RunOf[e]]
  <2> DEFINE unstarted == {f \in S : SafeToReclaim(f)}
             ambiguous == S \ unstarted
             R == {RunOf[f] : f \in ambiguous}
             closed == ambiguous \cup Blocked(R)
  <2>1. /\ \A f \in Executions : outcome'[f] =
             IF f \in unstarted THEN "PENDING" ELSE IF f \in closed THEN "ERROR" ELSE outcome[f]
        /\ EndSessions(R)
        /\ broken' = [r \in Runs |-> broken[r] \/ r \in R]
    BY <1>5 DEF ReconcileTurns
  <2>2. e \in closed
    <3> HIDE DEF unstarted, closed
    <3>1. QED
      BY <1>1, <2>1 DEF TerminalOutcomes
  <2>3. RunOf[e] \in R
    BY <2>2 DEF Blocked
  <2> HIDE DEF R
  <2>4. QED
    BY <1>1, <2>1, <2>3 DEF EndSessions
<1>6. QED
  BY <1>1, <1>2, <1>3, <1>4, <1>5, OutcomeActors

\* What never goes back.
LEMMA AttemptNeverGoesBack ==
  ASSUME WorkerInv, [ConversationNext]_allVars, NEW r \in Runs
  PROVE  /\ broken[r] => broken'[r]
         /\ attemptDone[r] => attemptDone'[r]
         /\ stops # 0 => stops' # 0
<1> DEFINE Goal == /\ broken[r] => broken'[r]
                   /\ attemptDone[r] => attemptDone'[r]
                   /\ stops # 0 => stops' # 0
<1> USE DEF vars, boundVars, attemptVars, conversationVars
<1>1. TypeOK /\ TurnOK /\ AttemptTypes
  BY DEF WorkerInv, ConversationTypes
<1>2. ASSUME NEW t \in Threads, TurnStep(t)
      PROVE  Goal
  <2>1. CASE \/ PrepareTurn(t) \/ SetupTurnFails(t) \/ RecordTurnMetadata(t) \/ MarkTurnSubmissionStarted(t)
             \/ EnsureConversationSession(t) \/ MarkUnusableRefused(t) \/ CloseConversation(t)
    BY <2>1
    DEF PrepareTurn, Prepare, SetupTurnFails, SetupFails, RecordTurnMetadata, RecordRuntimeMetadata,
        MarkTurnSubmissionStarted, MarkSubmissionStarted, EnsureConversationSession,
        MarkUnusableRefused, CloseConversation
  <2>2. CASE CompleteTurn(t)
    BY <1>1, <2>2 DEF CompleteTurn, CompleteExecution, AttemptTypes
  <2>3. CASE MarkConversationSessionUnusable(t)
    BY <1>1, <2>3 DEF MarkConversationSessionUnusable, EndSessions, AttemptTypes
  <2>4. QED
    BY <1>2, <2>1, <2>2, <2>3 DEF TurnStep
<1>3. ASSUME NEW t \in Threads, TargetCall(t)
      PROVE  Goal
  BY <1>1, <1>3
  DEF TargetCall, SessionOpens, SessionOpenFails, SubmitTurn, SubmitQuestion, TurnAnswers,
      TargetAnswers, SessionCloses, AttemptTypes
<1>4. ASSUME NEW t \in Threads, TurnEscapes(t)
      PROVE  Goal
  BY <1>1, <1>4 DEF TurnEscapes, TaskEscapes, TypeOK
<1>5. ASSUME NEW p \in Processes, CrashWorker(p) \/ ExitWorker(p)
      PROVE  Goal
  BY <1>1, <1>5 DEF CrashWorker, Crash, ExitWorker, Exit, TypeOK
<1>6. CASE OutsideTurns
  BY <1>1, <1>6 DEF OutsideTurns, RefreshClaimLease, LeaseExpires, DelayElapses, Stop, Restart, TypeOK
<1>7. ASSUME NEW p \in Processes, NEW S \in SUBSET Executions, ReconcileTurns(p, S)
      PROVE  Goal
  BY <1>1, <1>7 DEF ReconcileTurns, EndSessions, AttemptTypes
<1>8. ASSUME NEW t \in Threads, NEW e \in Executions, ClaimTurn(t, e)
      PROVE  Goal
  BY <1>8 DEF ClaimTurn, Claim
<1>9. QED
  BY <1>2, <1>3, <1>4, <1>5, <1>6, <1>7, <1>8 DEF ConversationNext, ApartFromTarget, allVars

PastBoundary(u) == task[u].pc \in {"started", "waiting"}

\* A worker that sends or has sent a turn owns it, or lost it to a recovery
\* that left the continuity in doubt.
OwnedInv ==
  \A u \in Threads : PastBoundary(u) => Owns(u) \/ broken[RunOf[task[u].exec]]

LEMMA PastBoundaryStep ==
  ASSUME WorkerInv, [ConversationNext]_allVars, NEW u \in Threads, PastBoundary(u)'
  PROVE  /\ task'[u].exec = task[u].exec /\ task'[u].token = task[u].token
         /\ PastBoundary(u) \/ Crosses(u)
<1>1. TypeOK /\ TurnOK /\ Boundary
  BY BoundaryStep DEF WorkerInv, ConversationTypes
<1>2. CASE task'[u].pc = "started"
  BY <1>1, <1>2 DEF Boundary, PastBoundary
<1>3. ASSUME task'[u].pc = "waiting"
      PROVE  ClaimKept(u) /\ PastBoundary(u)
  <2> USE DEF vars
  <2>1. CASE task'[u] = task[u]
    BY <1>3, <2>1 DEF ClaimKept, PastBoundary
  <2>2. ASSUME NEW e \in Executions, ClaimTurn(u, e)
        PROVE  FALSE
    BY <1>1, <1>3, <2>2 DEF ClaimTurn, Claim, TypeOK
  <2>3. ASSUME task[u].pc # "idle", NEW l \in Pcs \ {"answered", "waiting"}, GoTo(u, l)
        PROVE  FALSE
    BY <1>1, <1>3, <2>3, GoToStep
  <2>4. ASSUME task[u].pc # "idle", NEW q \in TerminalOutcomes, Observed(u, q)
        PROVE  FALSE
    BY <1>1, <1>3, <2>4, ObservedStep
  <2>5. ASSUME Release(u)
        PROVE  FALSE
    BY <1>1, <1>3, <2>5, ReleaseStep
  <2>6. CASE TurnStep(u)
    <3>1. CASE PrepareTurn(u)
      BY <2>3, <2>4, <2>5, <3>1 DEF PrepareTurn, Prepare, Pcs, TerminalOutcomes
    <3>2. CASE SetupTurnFails(u) \/ RecordTurnMetadata(u)
      BY <2>3, <2>4, <3>2
      DEF SetupTurnFails, SetupFails, RecordTurnMetadata, RecordRuntimeMetadata, Pcs, TerminalOutcomes
    <3>3. CASE MarkTurnSubmissionStarted(u)
      BY <2>3, <2>5, <3>3 DEF MarkTurnSubmissionStarted, MarkSubmissionStarted, Pcs
    <3>4. CASE EnsureConversationSession(u)
      BY <2>1, <2>4, <3>4 DEF EnsureConversationSession, TerminalOutcomes
    <3>5. CASE CompleteTurn(u)
      BY <2>5, <3>5 DEF CompleteTurn, CompleteExecution
    <3>6. CASE MarkConversationSessionUnusable(u) \/ MarkUnusableRefused(u) \/ CloseConversation(u)
      BY <2>1, <3>6 DEF MarkConversationSessionUnusable, MarkUnusableRefused, CloseConversation
    <3>7. QED
      BY <2>6, <3>1, <3>2, <3>3, <3>4, <3>5, <3>6 DEF TurnStep
  <2>7. CASE TargetCall(u)
    <3>1. CASE SessionOpens(u) \/ \E ok \in BOOLEAN : SessionCloses(u, ok)
      BY <2>1, <3>1 DEF SessionOpens, SessionCloses
    <3>2. CASE \E c \in Continuities : SessionOpenFails(u, c)
      BY <1>1, <2>4, <3>2 DEF SessionOpenFails, TurnOK, TerminalOutcomes
    <3>3. CASE SubmitTurn(u)
      BY <1>1, <3>3, GoToStep DEF SubmitTurn, SubmitQuestion, Pcs, PastBoundary
    <3>4. CASE \E result \in TerminalOutcomes, c \in Continuities : TurnAnswers(u, result, c)
      BY <2>4, <3>4 DEF TurnAnswers, TargetAnswers
    <3>5. QED
      BY <2>7, <3>1, <3>2, <3>3, <3>4 DEF TargetCall
  <2>8. QED
    BY <1>1, <1>3, <2>1, <2>2, <2>6, <2>7, ThreadMoves
<1>4. QED
  BY <1>2, <1>3 DEF PastBoundary, ClaimKept

\* A thread past the boundary holds a row that no recovery may queue again.
LEMMA PastBoundaryRow ==
  ASSUME WorkerInv, AnsweredAsked, NEW u \in Threads, PastBoundary(u)
  PROVE  task[u].exec \in Executions /\ phase[task[u].exec] \notin {"NONE", "CLAIMED"}
<1>1. TypeOK /\ SubmissionInv
  BY DEF WorkerInv, ConversationTypes
<1>2. task[u].exec \in Executions
  BY <1>1 DEF TypeOK, PastBoundary
<1>3. CASE task[u].pc = "started"
  BY <1>1, <1>2, <1>3 DEF SubmissionInv
<1>4. CASE task[u].pc = "waiting"
  BY <1>1, <1>2, <1>4 DEF SubmissionInv, AnsweredAsked
<1>5. QED
  BY <1>2, <1>3, <1>4 DEF PastBoundary

LEMMA OwnedStep ==
  ASSUME WorkerInv, WorkerInv', AnsweredAsked, OwnedInv, [ConversationNext]_allVars
  PROVE  OwnedInv'
<1> SUFFICES ASSUME NEW u \in Threads, PastBoundary(u)'
             PROVE  Owns(u)' \/ broken'[RunOf[task'[u].exec]]
  BY DEF OwnedInv
<1> DEFINE e == task[u].exec
<1>1. /\ TypeOK /\ TypeOK' /\ FencingTokens /\ ClaimStateConstraint
      /\ task'[u].exec = e /\ task'[u].token = task[u].token
  BY PastBoundaryStep DEF WorkerInv, ConversationTypes
<1>2. CASE Crosses(u)
  BY <1>1, <1>2 DEF Crosses, Owns
<1>3. CASE PastBoundary(u)
  <2>1. e \in Executions /\ RunOf[e] \in Runs /\ phase[e] \notin {"NONE", "CLAIMED"} /\ task[u].pc # "idle"
    BY <1>3, PastBoundaryRow, ManifestAssumption DEF PastBoundary
  <2>2. CASE broken[RunOf[e]]
    BY <1>1, <2>1, <2>2, AttemptNeverGoesBack
  <2>3. CASE Owns(u)
    <3>1. outcome[e] = "RUNNING"
      BY <2>3 DEF Owns
    <3>2. claim'[e] = claim[e] /\ outcome'[e] # "PENDING"
      BY <2>1, <3>1, RowStep
    <3>3. CASE outcome'[e] = "RUNNING"
      BY <1>1, <2>3, <3>2, <3>3 DEF Owns
    <3>4. CASE outcome'[e] \in TerminalOutcomes
      <4>1. ASSUME NEW t \in Threads, CompleteTurn(t), Owns(t), task[t].exec = e
            PROVE  FALSE
        <5>1. t = u
          BY <1>1, <2>1, <2>3, <4>1 DEF FencingTokens, Owns, CompleteTurn, CompleteExecution
        <5>2. task'[u].pc = "idle"
          BY <1>1, <4>1, <5>1, ReleaseStep DEF CompleteTurn, CompleteExecution
        <5>3. QED
          BY <5>2 DEF PastBoundary
      <4>2. outcome[e] \notin TerminalOutcomes
        BY <3>1 DEF TerminalOutcomes
      <4>3. QED
        BY <1>1, <2>1, <3>1, <3>4, <4>1, <4>2, TerminalStep
    <3>5. QED
      BY <1>1, <2>1, <3>2, <3>3, <3>4 DEF TypeOK
  <2>4. QED
    BY <1>3, <2>2, <2>3 DEF OwnedInv
<1>4. QED
  BY <1>2, <1>3, PastBoundaryStep

\* An open call that fails tells the truth: it does not vouch for a session
\* that was never recorded.
OpensFailHonestly ==
  \A t \in Threads : turn[t].step = "opening" /\ task'[t].pc = "answered" =>
    turn'[t].continuity # "USABLE"

\* What thread u does, or has learned, took a recorded session.
Heard(u) ==
  \/ turn[u].step = "ready" \/ task[u].pc = "waiting"
  \/ task[u].pc = "answered" /\ turn[u].continuity = "USABLE"

HeardInv ==
  /\ \A u \in Threads : Heard(u) => sessionId[RunOf[task[u].exec]] # 0
  /\ \A u \in Threads : turn[u].step = "closing" => sessionId[RunOf[turn[u].exec]] # 0

LEMMA SessionIdStays ==
  ASSUME WorkerInv, [ConversationNext]_allVars, NEW r \in Runs, sessionId[r] # 0
  PROVE  sessionId'[r] # 0
BY OpenedStep DEF WorkerInv, ConversationTypes

\* A thread that hears of the session was a step before it, or reads or
\* records the session in this step.
LEMMA HeardMoves ==
  ASSUME WorkerInv, [ConversationNext]_allVars, OpensFailHonestly, NEW u \in Threads, Heard(u)'
  PROVE  /\ task'[u].exec = task[u].exec /\ task[u].exec \in Executions
         /\ Heard(u) \/ sessionId'[RunOf[task[u].exec]] # 0
<1> DEFINE e == task[u].exec
           Goal == task'[u].exec = e /\ e \in Executions /\ (Heard(u) \/ sessionId'[RunOf[e]] # 0)
<1> USE DEF vars
<1>1. TypeOK /\ TypeOK' /\ TurnOK /\ TurnOK' /\ AttemptTypes
  BY WorkerInvStep DEF WorkerInv, ConversationTypes
<1>2. /\ task'[u].pc # "idle"
      /\ turn'[u].step = "ready" \/ task'[u].pc = "waiting" \/ task'[u].pc = "answered"
      /\ task'[u].pc = "answered" => turn'[u].step \notin {"ready", "opening"}
      /\ turn'[u].step = "ready" \/ task'[u].pc = "waiting" \/ turn'[u].continuity = "USABLE"
  BY <1>1 DEF Heard, TurnOK
<1>3. task[u].pc # "idle" => e \in Executions
  BY <1>1 DEF TypeOK
<1>4. CASE UNCHANGED <<task[u], turn[u]>>
  <2>1. Heard(u)
    BY <1>4 DEF Heard
  <2>2. task[u].pc # "idle"
    BY <1>2, <1>4
  <2>3. QED
    BY <1>3, <1>4, <2>1, <2>2
<1>5. ASSUME NEW f \in Executions, ClaimTurn(u, f)
      PROVE  FALSE
  BY <1>1, <1>2, <1>5 DEF ClaimTurn, Claim, TypeOK, Free, conversationVars
<1>6. CASE TurnStep(u)
  <2>1. ASSUME NEW c \in Continuities \ {"USABLE"}, SetContinuity(u, c), task'[u].pc # "waiting"
        PROVE  FALSE
    BY <1>1, <1>2, <2>1, SetContinuityTurn
  <2>2. ASSUME NEW l \in Pcs \ {"answered", "waiting"}, GoTo(u, l), task[u].pc # "idle", turn'[u].step # "ready"
        PROVE  FALSE
    BY <1>1, <1>2, <2>2, GoToStep
  <2>3. ASSUME Release(u)
        PROVE  FALSE
    BY <1>1, <1>2, <2>3, ReleaseStep
  <2>4. ASSUME task' = task, turn[u].step \in {"mark", "close", "closing"}
        PROVE  FALSE
    BY <1>1, <1>2, <2>4 DEF TurnOK
  <2>5. ASSUME task[u].pc # "idle", NEW q \in TerminalOutcomes, Observed(u, q)
        PROVE  task'[u].pc = "answered"
    BY <1>1, <2>5, ObservedStep
  <2>6. CASE PrepareTurn(u)
    <3>1. turn'[u].step = "none"
      BY <1>1, <2>6, SetContinuityTurn DEF PrepareTurn, Continuities
    <3>2. CASE e \in Preflight
      BY <2>1, <2>2, <2>3, <2>5, <2>6, <3>1, <3>2
      DEF PrepareTurn, Prepare, Pcs, TerminalOutcomes, Continuities
    <3>3. CASE e \notin Preflight
      BY <2>2, <2>3, <2>6, <3>1, <3>3 DEF PrepareTurn, Prepare, Pcs
    <3>4. QED
      BY <3>2, <3>3
  <2>7. CASE SetupTurnFails(u)
    BY <2>1, <2>5, <2>7 DEF SetupTurnFails, SetupFails, TerminalOutcomes, Continuities
  <2>8. CASE RecordTurnMetadata(u)
    <3>1. turn'[u].step = "none"
      BY <1>1, <2>8, SetContinuityTurn DEF RecordTurnMetadata, Continuities
    <3>2. CASE task'[u].pc = "answered"
      BY <2>1, <2>8, <3>2 DEF RecordTurnMetadata, Continuities
    <3>3. CASE task'[u].pc # "answered"
      BY <2>2, <2>5, <2>8, <3>1, <3>3
      DEF RecordTurnMetadata, RecordRuntimeMetadata, Pcs, TerminalOutcomes
    <3>4. QED
      BY <3>2, <3>3
  <2>9. CASE MarkTurnSubmissionStarted(u)
    <3>1. turn' = turn /\ task[u].pc = "ready"
      BY <2>9 DEF MarkTurnSubmissionStarted, MarkSubmissionStarted, conversationVars
    <3>2. turn'[u].step # "ready"
      BY <1>1, <3>1 DEF TurnOK
    <3>3. QED
      BY <2>2, <2>3, <2>9, <3>1, <3>2 DEF MarkTurnSubmissionStarted, MarkSubmissionStarted, Pcs
  <2>10. CASE EnsureConversationSession(u)
    <3>1. task[u].pc = "started"
      BY <2>10 DEF EnsureConversationSession
    <3>2. CASE Observed(u, "ERROR") /\ SetContinuity(u, "UNUSABLE")
      BY <2>1, <2>5, <3>1, <3>2 DEF TerminalOutcomes, Continuities
    <3>3. CASE sessionId[RunOf[e]] # 0 /\ task' = task
      BY <1>3, <2>10, <3>1, <3>3 DEF EnsureConversationSession, attemptVars
    <3>4. CASE /\ turn' = [turn EXCEPT ![u].step = "opening", ![u].sid = opened[RunOf[e]] + 1]
               /\ task' = task
      <4>1. turn'[u].step = "opening"
        BY <1>1, <3>4 DEF TurnOK, Turns
      <4>2. QED
        BY <1>2, <3>1, <3>4, <4>1
    <3>5. QED
      BY <2>10, <3>2, <3>3, <3>4 DEF EnsureConversationSession
  <2>11. CASE CompleteTurn(u)
    BY <2>3, <2>11 DEF CompleteTurn, CompleteExecution
  <2>12. CASE MarkConversationSessionUnusable(u) \/ MarkUnusableRefused(u) \/ CloseConversation(u)
    BY <2>4, <2>12 DEF MarkConversationSessionUnusable, MarkUnusableRefused, CloseConversation
  <2>13. QED
    BY <1>6, <2>6, <2>7, <2>8, <2>9, <2>10, <2>11, <2>12 DEF TurnStep
<1>7. CASE TargetCall(u)
  <2>1. CASE SessionOpens(u)
    <3>1. /\ turn[u].step = "opening" /\ task[u].pc = "started" /\ task' = task /\ turn[u].sid # 0
      BY <1>1, <2>1 DEF SessionOpens, TurnOK
    <3>2. e \in Executions /\ RunOf[e] \in Runs
      BY <1>3, <3>1, ManifestAssumption
    <3>3. sessionId'[RunOf[e]] # 0
      BY <1>1, <2>1, <3>1, <3>2 DEF SessionOpens, AttemptTypes
    <3>4. QED
      BY <3>1, <3>2, <3>3
  <2>2. ASSUME NEW c \in Continuities, SessionOpenFails(u, c)
        PROVE  FALSE
    <3>1. turn[u].step = "opening" /\ task[u].pc = "started" /\ Observed(u, "ERROR")
      BY <1>1, <2>2 DEF SessionOpenFails, TurnOK
    <3>2. task'[u].pc = "answered"
      BY <1>1, <3>1, ObservedStep DEF TerminalOutcomes
    <3>3. QED
      BY <1>2, <3>1, <3>2 DEF OpensFailHonestly
  <2>3. CASE SubmitTurn(u)
    <3>1. turn[u].step = "ready" /\ task[u].pc = "started"
      BY <1>1, <2>3 DEF SubmitTurn, TurnOK
    <3>2. task'[u].exec = e
      BY <1>1, <2>3, GoToStep DEF SubmitTurn, SubmitQuestion, ClaimKept, Pcs
    <3>3. QED
      BY <1>3, <3>1, <3>2 DEF Heard
  <2>4. ASSUME NEW result \in TerminalOutcomes, NEW c \in Continuities, TurnAnswers(u, result, c)
        PROVE  Goal
    <3>1. task[u].pc = "waiting"
      BY <2>4 DEF TurnAnswers, TargetAnswers
    <3>2. task'[u].exec = e
      BY <1>1, <2>4, <3>1, ObservedStep DEF TurnAnswers, TargetAnswers, ClaimKept
    <3>3. QED
      BY <1>3, <3>1, <3>2 DEF Heard
  <2>5. ASSUME NEW ok \in BOOLEAN, SessionCloses(u, ok)
        PROVE  FALSE
    BY <1>1, <1>2, <2>5 DEF SessionCloses, TurnOK
  <2>6. QED
    BY <1>7, <2>1, <2>2, <2>3, <2>4, <2>5 DEF TargetCall
<1>8. QED
  BY <1>1, <1>2, <1>4, <1>5, <1>6, <1>7, ThreadMoves

\* A thread closes a session that was recorded.
LEMMA ClosingMoves ==
  ASSUME WorkerInv, [ConversationNext]_allVars, NEW u \in Threads, turn'[u].step = "closing"
  PROVE  /\ turn'[u].exec = turn[u].exec /\ turn[u].exec \in Executions
         /\ turn[u].step = "closing" \/ sessionId[RunOf[turn[u].exec]] # 0
<1> DEFINE Goal == /\ turn'[u].exec = turn[u].exec /\ turn[u].exec \in Executions
                   /\ turn[u].step = "closing" \/ sessionId[RunOf[turn[u].exec]] # 0
<1>1. TypeOK /\ TurnOK
  BY DEF WorkerInv, ConversationTypes
<1>2. CASE turn'[u] = turn[u]
  BY <1>1, <1>2 DEF TurnOK
<1>3. ASSUME NEW c \in Continuities, SetContinuity(u, c)
      PROVE  FALSE
  BY <1>1, <1>3, SetContinuityTurn
<1>4. ASSUME NEW s \in Steps \ {"closing"}, SetStep(u, s)
      PROVE  FALSE
  BY <1>1, <1>4, SetStepTurn
<1>5. ASSUME turn' = [turn EXCEPT ![u] = NoTurn]
      PROVE  FALSE
  BY <1>1, <1>5, NoTurnTurn
<1>6. CASE CloseConversation(u)
  <2>1. turn[u].exec \in Executions /\ turn[u] \in Turns /\ turn \in [Threads -> Turns]
    BY <1>1, <1>6 DEF TurnOK, CloseConversation
  <2>2. turn' # [turn EXCEPT ![u] = NoTurn]
    BY <1>5
  <2>3. /\ turn' = [turn EXCEPT ![u] = [turn[u] EXCEPT !.step = "closing"]]
        /\ sessionId[RunOf[turn[u].exec]] # 0
    BY <1>6, <2>2 DEF CloseConversation
  <2>4. turn'[u].exec = turn[u].exec
    BY <2>1, <2>3 DEF Turns
  <2>5. QED
    BY <2>1, <2>3, <2>4
<1>7. CASE TurnStep(u)
  <2>1. CASE PrepareTurn(u) \/ SetupTurnFails(u) \/ RecordTurnMetadata(u)
    BY <1>3, <2>1 DEF PrepareTurn, SetupTurnFails, RecordTurnMetadata, Continuities
  <2>2. CASE MarkTurnSubmissionStarted(u)
    BY <1>2, <2>2 DEF MarkTurnSubmissionStarted, conversationVars
  <2>3. CASE EnsureConversationSession(u)
    <3>1. CASE turn' = [turn EXCEPT ![u].step = "opening", ![u].sid = opened[RunOf[task[u].exec]] + 1]
      BY <1>1, <3>1 DEF TurnOK, Turns
    <3>2. QED
      BY <1>3, <1>4, <2>3, <3>1 DEF EnsureConversationSession, Steps, Continuities
  <2>4. CASE CompleteTurn(u)
    BY <1>1, <2>4 DEF CompleteTurn, TurnOK
  <2>5. CASE MarkConversationSessionUnusable(u) \/ MarkUnusableRefused(u)
    BY <1>4, <1>5, <2>5 DEF MarkConversationSessionUnusable, MarkUnusableRefused, Steps
  <2>6. QED
    BY <1>6, <1>7, <2>1, <2>2, <2>3, <2>4, <2>5 DEF TurnStep
<1>8. CASE TargetCall(u)
  BY <1>3, <1>4, <1>5, <1>8
  DEF TargetCall, SessionOpens, SessionOpenFails, SubmitTurn, TurnAnswers, SessionCloses, Steps
<1>9. CASE \E e \in Executions : ClaimTurn(u, e)
  BY <1>2, <1>9 DEF ClaimTurn, conversationVars
<1>10. QED
  BY <1>1, <1>2, <1>7, <1>8, <1>9, ThreadMoves

LEMMA HeardInvStep ==
  ASSUME WorkerInv, HeardInv, [ConversationNext]_allVars, OpensFailHonestly
  PROVE  HeardInv'
<1>1. ASSUME NEW u \in Threads, Heard(u)'
      PROVE  sessionId'[RunOf[task'[u].exec]] # 0
  BY <1>1, HeardMoves, SessionIdStays, ManifestAssumption DEF HeardInv
<1>2. ASSUME NEW u \in Threads, turn'[u].step = "closing"
      PROVE  sessionId'[RunOf[turn'[u].exec]] # 0
  BY <1>2, ClosingMoves, SessionIdStays, ManifestAssumption DEF HeardInv
<1>3. QED
  BY <1>1, <1>2 DEF HeardInv

\* The state of a session changes when it is given up, recorded, or closed with
\* its attempt.
LEMMA SessionMoves ==
  ASSUME WorkerInv, [ConversationNext]_allVars, NEW r \in Runs, session'[r] # session[r]
  PROVE  \/ session'[r] = "UNUSABLE"
         \/ \E t \in Threads : SessionOpens(t) /\ RunOf[task[t].exec] = r
         \/ \E t \in Threads : turn[t].step = "closing" /\ RunOf[turn[t].exec] = r /\ attemptDone'[r]
<1> DEFINE Goal == \/ session'[r] = "UNUSABLE"
                   \/ \E t \in Threads : SessionOpens(t) /\ RunOf[task[t].exec] = r
                   \/ \E t \in Threads : turn[t].step = "closing" /\ RunOf[turn[t].exec] = r /\ attemptDone'[r]
<1> USE DEF attemptVars, conversationVars
<1>1. AttemptTypes
  BY DEF WorkerInv, ConversationTypes
<1>2. ASSUME NEW R, EndSessions(R)
      PROVE  session'[r] = "UNUSABLE"
  BY <1>2 DEF EndSessions
<1>3. ASSUME NEW t \in Threads, TargetCall(t)
      PROVE  Goal
  <2>1. CASE SessionOpens(t)
    BY <1>1, <2>1 DEF SessionOpens, AttemptTypes
  <2>2. CASE \E ok \in BOOLEAN : SessionCloses(t, ok)
    <3>1. RunOf[turn[t].exec] = r /\ turn[t].step = "closing"
      BY <1>1, <2>2 DEF SessionCloses, AttemptTypes
    <3>2. attemptDone'[r]
      BY <1>1, <2>2, <3>1 DEF SessionCloses, AttemptTypes
    <3>3. QED
      BY <3>1, <3>2
  <2>3. QED
    BY <1>3, <2>1, <2>2 DEF TargetCall, SessionOpenFails, SubmitTurn, TurnAnswers
<1>4. QED
  BY <1>2, <1>3
  DEF ConversationNext, ApartFromTarget, TurnStep, ClaimTurn, PrepareTurn, SetupTurnFails,
      RecordTurnMetadata, MarkTurnSubmissionStarted, EnsureConversationSession, CompleteTurn,
      MarkConversationSessionUnusable, MarkUnusableRefused, CloseConversation, TurnEscapes,
      ReconcileTurns, CrashWorker, ExitWorker, OutsideTurns, allVars

\* A conversation whose first turn is over, and whose continuity is not in
\* doubt, has a session.
FirstOver ==
  \A e \in Executions :
    ( /\ FirstTurn(e) /\ outcome[e] \in TerminalOutcomes
      /\ ~broken[RunOf[e]] /\ session[RunOf[e]] # "UNUSABLE" ) => sessionId[RunOf[e]] # 0

LEMMA UndoubtedCompletion ==
  ASSUME WorkerInv, NEW t \in Threads, CompleteTurn(t), Owns(t),
         ~broken'[RunOf[task[t].exec]]
  PROVE  /\ task[t].pc = "answered" /\ turn[t].continuity = "USABLE"
         /\ turn'[t].step = "close" /\ turn'[t].exec = task[t].exec
<1>1. TypeOK /\ TurnOK /\ AttemptTypes /\ task[t].pc = "answered"
  BY DEF WorkerInv, ConversationTypes, CompleteTurn, CompleteExecution
<1>2. RunOf[task[t].exec] \in Runs
  BY <1>1, ManifestAssumption DEF TypeOK
<1>3. turn[t].continuity = "USABLE"
  BY <1>1, <1>2 DEF CompleteTurn, AttemptTypes
<1>4. QED
  BY <1>1, <1>3 DEF CompleteTurn, TurnOK

LEMMA FirstOverStep ==
  ASSUME WorkerInv, HeardInv, FirstOver, [ConversationNext]_allVars
  PROVE  FirstOver'
<1> SUFFICES ASSUME NEW e \in Executions, FirstTurn(e), outcome'[e] \in TerminalOutcomes,
                    ~broken'[RunOf[e]], session'[RunOf[e]] # "UNUSABLE"
             PROVE  sessionId'[RunOf[e]] # 0
  BY DEF FirstOver, FirstTurn
<1> DEFINE r == RunOf[e]
<1>1. r \in Runs /\ AttemptTypes /\ TurnOK
  BY ManifestAssumption DEF WorkerInv, ConversationTypes
<1>2. CASE sessionId[r] # 0
  BY <1>1, <1>2, SessionIdStays
<1>3. CASE outcome[e] \notin TerminalOutcomes
  <2>1. PICK t \in Threads : CompleteTurn(t) /\ Owns(t) /\ task[t].exec = e
    BY <1>3, TerminalStep
  <2>2. Heard(t)
    BY <2>1, UndoubtedCompletion DEF Heard
  <2>3. QED
    BY <1>2, <2>1, <2>2 DEF HeardInv
<1>4. ASSUME outcome[e] \in TerminalOutcomes
      PROVE  sessionId'[r] # 0
  <2>1. ~broken[r]
    BY <1>1, AttemptNeverGoesBack
  <2>2. CASE session[r] # "UNUSABLE"
    BY <1>2, <1>4, <2>1, <2>2 DEF FirstOver
  <2>3. ASSUME NEW t \in Threads, SessionOpens(t), RunOf[task[t].exec] = r
        PROVE  sessionId'[r] # 0
    BY <1>1, <2>3 DEF SessionOpens, AttemptTypes, TurnOK
  <2>4. ASSUME NEW t \in Threads, turn[t].step = "closing", RunOf[turn[t].exec] = r
        PROVE  sessionId'[r] # 0
    BY <1>2, <2>4 DEF HeardInv
  <2>5. QED
    BY <1>1, <2>2, <2>3, <2>4, SessionMoves
<1>5. QED
  BY <1>3, <1>4

\* Until a conversation that ended well is completed, a thread is about to do it.
Closer ==
  \A r \in Runs :
    ( /\ stops = 0 /\ ~broken[r] /\ session[r] # "UNUSABLE"
      /\ AllTurnsTerminal(outcome, r) /\ ~attemptDone[r] ) =>
    \E t \in Threads : turn[t].step \in {"close", "closing"} /\ RunOf[turn[t].exec] = r

\* The thread that is about to complete an attempt does, unless it is stopped.
LEMMA CloserMoves ==
  ASSUME WorkerInv, [ConversationNext]_allVars, NEW t \in Threads, NEW r \in Runs,
         turn[t].step \in {"close", "closing"}, RunOf[turn[t].exec] = r,
         session[r] # "UNUSABLE", AllTurnsTerminal(outcome, r), sessionId[r] # 0,
         stops' = 0, ~attemptDone[r], ~attemptDone'[r]
  PROVE  turn'[t].step \in {"close", "closing"} /\ RunOf[turn'[t].exec] = r
<1>1. TypeOK /\ TurnOK /\ AttemptTypes /\ task[t].pc = "idle"
  BY DEF WorkerInv, ConversationTypes, TurnOK
<1>2. CASE turn'[t] = turn[t]
  BY <1>2
<1>3. ASSUME NEW e \in Executions, ClaimTurn(t, e)
      PROVE  FALSE
  BY <1>3 DEF ClaimTurn, Free
<1>4. ASSUME TurnStep(t)
      PROVE  CloseConversation(t)
  BY <1>1, <1>4
  DEF TurnStep, PrepareTurn, Prepare, SetupTurnFails, SetupFails, RecordTurnMetadata,
      RecordRuntimeMetadata, MarkTurnSubmissionStarted, MarkSubmissionStarted,
      EnsureConversationSession, CompleteTurn, CompleteExecution, MarkConversationSessionUnusable,
      MarkUnusableRefused
<1>5. CASE CloseConversation(t)
  <2>1. turn' = [turn EXCEPT ![t] = [turn[t] EXCEPT !.step = "closing"]]
    BY <1>5 DEF CloseConversation
  <2>2. turn[t] \in Turns /\ turn \in [Threads -> Turns]
    BY <1>1 DEF TurnOK
  <2>3. QED
    BY <2>1, <2>2 DEF Turns
<1>6. ASSUME TargetCall(t)
      PROVE  FALSE
  <2>1. ASSUME NEW ok \in BOOLEAN, SessionCloses(t, ok)
        PROVE  FALSE
    BY <1>1, <2>1 DEF SessionCloses, AttemptTypes
  <2>2. QED
    BY <1>1, <1>6, <2>1
    DEF TargetCall, SessionOpens, SessionOpenFails, SubmitTurn, TurnAnswers, TargetAnswers
<1>7. QED
  BY <1>1, <1>2, <1>3, <1>4, <1>5, <1>6, ThreadMoves

LEMMA CloserStep ==
  ASSUME WorkerInv, OwnedInv, FirstOver, Closer, [ConversationNext]_allVars
  PROVE  Closer'
<1> SUFFICES ASSUME NEW r \in Runs, stops' = 0, ~broken'[r], session'[r] # "UNUSABLE",
                    AllTurnsTerminal(outcome', r), ~attemptDone'[r]
             PROVE  \E t \in Threads : turn'[t].step \in {"close", "closing"} /\ RunOf[turn'[t].exec] = r
  BY DEF Closer, AllTurnsTerminal
<1>1. /\ TypeOK /\ TurnOK /\ stops = 0 /\ ~broken[r] /\ ~attemptDone[r]
  BY AttemptNeverGoesBack DEF WorkerInv, ConversationTypes
<1>2. CASE ~AllTurnsTerminal(outcome, r)
  <2>1. PICK e \in Executions : RunOf[e] = r /\ outcome[e] \notin TerminalOutcomes /\ outcome'[e] \in TerminalOutcomes
    BY <1>2 DEF AllTurnsTerminal, MembersOf
  <2>2. PICK t \in Threads : CompleteTurn(t) /\ Owns(t) /\ task[t].exec = e
    BY <2>1, TerminalStep
  <2>3. turn'[t].step = "close" /\ turn'[t].exec = e
    BY <2>1, <2>2, UndoubtedCompletion
  <2>4. QED
    BY <2>1, <2>3
<1>3. CASE AllTurnsTerminal(outcome, r)
  <2>1. session[r] # "UNUSABLE"
    <3>1. ASSUME NEW t \in Threads, SessionOpens(t), RunOf[task[t].exec] = r
          PROVE  FALSE
      <4>1. task[t].pc = "started" /\ task[t].exec \in Executions
        BY <1>1, <3>1 DEF SessionOpens, TurnOK, TypeOK
      <4>2. Owns(t)
        BY <1>1, <3>1, <4>1 DEF OwnedInv, PastBoundary
      <4>3. outcome[task[t].exec] \in TerminalOutcomes
        BY <1>3, <3>1, <4>1 DEF AllTurnsTerminal, MembersOf
      <4>4. QED
        BY <4>2, <4>3 DEF Owns, TerminalOutcomes
    <3>2. QED
      BY <3>1, SessionMoves
  <2>2. PICK e \in Executions : RunOf[e] = r /\ Ordinal[e] = 1
    BY OrdinalAssumption
  <2>3. sessionId[r] # 0
    BY <1>1, <1>3, <2>1, <2>2 DEF FirstOver, FirstTurn, AllTurnsTerminal, MembersOf
  <2>4. PICK t \in Threads : turn[t].step \in {"close", "closing"} /\ RunOf[turn[t].exec] = r
    BY <1>1, <1>3, <2>1 DEF Closer
  <2>5. QED
    BY <1>1, <1>3, <2>1, <2>3, <2>4, CloserMoves
<1>4. QED
  BY <1>2, <1>3

\* What the end of an attempt rests on, besides the invariants of the worker.
EndInv == OwnedInv /\ HeardInv /\ FirstOver /\ Closer

LEMMA EndInvInit == ConversationInit => EndInv
<1> SUFFICES ASSUME ConversationInit
             PROVE  EndInv
  OBVIOUS
<1>1. /\ \A e \in Executions : outcome[e] = "PENDING"
      /\ \A u \in Threads : task[u].pc = "idle" /\ turn[u].step = "none"
  BY NoLegacyTurns, IdleTaskIsIdle, NoTurnType DEF ConversationInit, Init
<1>2. OwnedInv /\ HeardInv /\ FirstOver
  BY <1>1 DEF OwnedInv, PastBoundary, HeardInv, Heard, FirstOver, TerminalOutcomes
<1>3. \A r \in Runs : ~AllTurnsTerminal(outcome, r)
  BY <1>1, OrdinalAssumption DEF AllTurnsTerminal, MembersOf, TerminalOutcomes
<1>4. QED
  BY <1>2, <1>3 DEF EndInv, Closer

LEMMA EndInvStep ==
  ASSUME ConversationInv, EndInv, [ConversationNext]_allVars, OpensFailHonestly
  PROVE  EndInv'
BY OwnedStep, HeardInvStep, FirstOverStep, CloserStep, ConversationInvStep DEF EndInv, ConversationInv

LEMMA EndInvEnds ==
  ASSUME TurnOK, EndInv
  PROVE  AttemptEndsWithoutCrash
BY DEF EndInv, Closer, AttemptEndsWithoutCrash, AllTurnsTerminal, Free


-----------------------------------------------------------------------------
(* Conversations whose continuity is in doubt, while nobody crashes and no *)
(* heartbeat is late.                                                      *)

Calm == stops = 0 /\ late = 0

\* Every busy thread owns its turn, every running turn has its thread, and no
\* thread finds its turn past the boundary before it got there.
Held ==
  /\ \A u \in Threads : task[u].pc # "idle" => Owns(u)
  /\ \A e \in Executions : outcome[e] = "RUNNING" => leased[e] /\ HasLiveOwner(e)
  /\ \A u \in Threads : task[u].pc \in {"claimed", "fetching", "ready"} => phase[task[u].exec] = "CLAIMED"

\* Thread u is about to mark the session of r unusable.
Marking(u, r) == turn[u].step = "mark" /\ RunOf[turn[u].exec] = r

\* No doubt arises before the first turn is over.
FirstUndoubted ==
  \A e \in Executions : FirstTurn(e) /\ outcome[e] \notin TerminalOutcomes =>
    session[RunOf[e]] # "UNUSABLE" /\ \A u \in Threads : ~Marking(u, RunOf[e])

OpenersFirst == \A u \in Threads : turn[u].step = "opening" => FirstTurn(task[u].exec)

\* A doubt is recorded, too late to be recorded, or about to be.
DoubtFollowed ==
  \A r \in Runs : broken[r] =>
    session[r] = "UNUSABLE" \/ AllTurnsTerminal(outcome, r) \/ \E u \in Threads : Marking(u, r)

NothingWaits == \A e \in Executions : session[RunOf[e]] = "UNUSABLE" => outcome[e] # "PENDING"

CalmInv == Calm => Held /\ FirstUndoubted /\ OpenersFirst /\ DoubtFollowed /\ NothingWaits

\* Who was late once stays late.
LEMMA CalmBefore ==
  ASSUME WorkerInv, [ConversationNext]_allVars, Calm'
  PROVE  Calm
<1>1. TypeOK /\ TurnOK /\ RunAggregation /\ ConversationTypes
  BY DEF WorkerInv, ConversationTypes
<1>2. CASE [Next]_vars
  <2>1. ASSUME NEW t \in Threads, NEW e \in Executions, Claim(t, e)
        PROVE  Calm
    BY <2>1 DEF Claim, boundVars, Calm
  <2>2. ASSUME NEW p \in Processes, NEW S \in SUBSET Executions, Reconcile(p, S)
        PROVE  Calm
    BY <2>2 DEF Reconcile, boundVars, Calm
  <2>3. ASSUME NEW t \in Threads, ThreadStep(t) \/ SetupFails(t) \/ RefreshClaimLease(t)
        PROVE  Calm
    BY <2>3 DEF ThreadStep, Prepare, RecordRuntimeMetadata, MarkSubmissionStarted, SubmitQuestion,
                TargetAnswers, CompleteExecution, SetupFails, RefreshClaimLease, boundVars, Calm
  <2>4. ASSUME NEW t \in Threads, TaskEscapes(t)
        PROVE  Calm
    BY <1>1, <2>4 DEF TaskEscapes, Calm, TypeOK
  <2>5. ASSUME NEW e \in Executions, LeaseExpires(e)
        PROVE  Calm
    BY <1>1, <2>5 DEF LeaseExpires, Calm, TypeOK
  <2>6. ASSUME NEW r \in Runs, DelayElapses(r)
        PROVE  Calm
    BY <2>6 DEF DelayElapses, boundVars, Calm
  <2>7. ASSUME NEW p \in Processes, Crash(p) \/ Stop(p) \/ Exit(p) \/ Restart(p)
        PROVE  Calm
    BY <1>1, <2>7 DEF Crash, Stop, Exit, Restart, boundVars, Calm, TypeOK
  <2>8. CASE UNCHANGED vars
    BY <2>8 DEF vars, boundVars, Calm
  <2>9. QED
    BY <1>2, <2>1, <2>2, <2>3, <2>4, <2>5, <2>6, <2>7, <2>8 DEF Next
<1>3. ASSUME NEW t \in Threads, FailsTurn(t) \/ MarkConversationSessionUnusable(t)
      PROVE  Calm
  BY <1>3 DEF FailsTurn, MarkConversationSessionUnusable, boundVars, Calm
<1>4. ASSUME NEW p \in Processes, NEW S \in SUBSET Executions, ReconcileTurns(p, S)
      PROVE  Calm
  BY <1>4 DEF ReconcileTurns, boundVars, Calm
<1>5. CASE OnlyStops
  BY <1>1, <1>5 DEF OnlyStops, Calm, TypeOK
<1>6. QED
  BY <1>1, <1>2, <1>3, <1>4, <1>5, ClassifiedStep

\* Nothing is recovered while every running turn has its thread.
LEMMA NothingStale ==
  ASSUME WorkerInv, Held, NEW e \in Executions
  PROVE  ~Stale(e)
BY DEF Held, Stale, WorkerInv, Clean, ClaimStateConstraint, TerminalOutcomes, ClaimPhases

\* Then the rows and the threads move by claims and the steps of threads only.
LEMMA CalmStep ==
  ASSUME WorkerInv, Held, [ConversationNext]_allVars, Calm'
  PROVE  \/ \E t \in Threads, e \in Executions : ClaimTurn(t, e)
         \/ \E t \in Threads : TurnStep(t) \/ TargetCall(t)
         \/ UNCHANGED <<rowVars, task, conversationVars>>
<1> DEFINE Goal == \/ \E t \in Threads, e \in Executions : ClaimTurn(t, e)
                   \/ \E t \in Threads : TurnStep(t) \/ TargetCall(t)
                   \/ UNCHANGED <<rowVars, task, conversationVars>>
<1>1. TypeOK /\ Calm
  BY CalmBefore DEF WorkerInv, ConversationTypes
<1>2. ASSUME NEW p \in Processes, NEW S \in SUBSET Executions, ReconcileTurns(p, S)
      PROVE  FALSE
  <2>1. PICK e \in S : Stale(e)
    BY <1>2 DEF ReconcileTurns
  <2>2. QED
    BY <2>1, NothingStale
<1>3. ASSUME NEW t \in Threads, TurnEscapes(t)
      PROVE  FALSE
  BY <1>1, <1>3 DEF TurnEscapes, TaskEscapes, Calm
<1>4. ASSUME NEW p \in Processes, CrashWorker(p) \/ Stop(p)
      PROVE  FALSE
  BY <1>1, <1>4 DEF CrashWorker, Crash, Stop, Calm
<1>5. ASSUME NEW t \in Threads, RefreshClaimLease(t)
      PROVE  FALSE
  BY <1>1, <1>5 DEF RefreshClaimLease, Held, Owns, TypeOK
<1>6. ASSUME NEW e \in Executions, LeaseExpires(e)
      PROVE  FALSE
  <2>1. HasLiveOwner(e)
    BY <1>6 DEF LeaseExpires, Held
  <2>2. QED
    BY <1>1, <1>6, <2>1 DEF LeaseExpires, Calm
<1>7. ASSUME NEW p \in Processes, ExitWorker(p) \/ (Restart(p) /\ UNCHANGED conversationVars)
      PROVE  Goal
  BY <1>7 DEF ExitWorker, Exit, Restart
<1>8. ASSUME NEW r \in Runs, DelayElapses(r), UNCHANGED conversationVars
      PROVE  Goal
  BY <1>8 DEF DelayElapses
<1>9. CASE OutsideTurns
  BY <1>4, <1>5, <1>6, <1>7, <1>8, <1>9 DEF OutsideTurns
<1>10. QED
  BY <1>2, <1>3, <1>4, <1>7, <1>9 DEF ConversationNext, ApartFromTarget, allVars, vars


\* A thread that keeps its claim, or has none, in a step that leaves the
\* running turns alone keeps it all.
LEMMA HeldKept ==
  ASSUME TypeOK, Held, NEW t \in Threads, OthersKept(t),
         \A e \in Executions : outcome[e] = "RUNNING" => UNCHANGED <<outcome[e], phase[e], claim[e], leased[e]>>,
         \A e \in Executions : outcome'[e] = "RUNNING" => outcome[e] = "RUNNING",
         \/ task'[t] = task[t]
         \/ /\ task[t].pc # "idle" /\ task'[t].pc # "idle" /\ ClaimKept(t)
            /\ task'[t].pc \in {"claimed", "fetching", "ready"} => task[t].pc \in {"claimed", "fetching", "ready"}
  PROVE  Held'
<1>1. \A u \in Threads : /\ task'[u].exec = task[u].exec /\ task'[u].token = task[u].token
                         /\ task'[u].pc = "idle" <=> task[u].pc = "idle"
                         /\ task'[u].pc \in {"claimed", "fetching", "ready"} =>
                              task[u].pc \in {"claimed", "fetching", "ready"}
  BY DEF OthersKept, ClaimKept
<1>2. \A u \in Threads : task[u].pc # "idle" =>
        task[u].exec \in Executions /\ Owns(u) /\ outcome[task[u].exec] = "RUNNING"
  BY DEF Held, TypeOK, Owns
<1>3. \A u \in Threads : task[u].pc # "idle" => Owns(u)' /\ phase'[task[u].exec] = phase[task[u].exec]
  BY <1>1, <1>2 DEF Owns
<1>4. ASSUME NEW e \in Executions, outcome'[e] = "RUNNING"
      PROVE  leased'[e] /\ HasLiveOwner(e)'
  <2>1. leased[e] /\ HasLiveOwner(e) /\ leased'[e] = leased[e]
    BY <1>4 DEF Held
  <2>2. QED
    BY <1>1, <1>3, <2>1 DEF HasLiveOwner
<1>5. QED
  BY <1>1, <1>3, <1>4 DEF Held

\* A turn has one thread.
LEMMA HeldAlone ==
  ASSUME WorkerInv, Held, NEW t \in Threads, NEW u \in Threads,
         task[t].pc # "idle", task[u].pc # "idle", task[t].exec = task[u].exec
  PROVE  t = u
<1>1. Owns(t) /\ Owns(u)
  BY DEF Held
<1>2. task[t].token = task[u].token
  BY <1>1 DEF Owns
<1>3. QED
  BY <1>1, <1>2 DEF WorkerInv, FencingTokens

LEMMA ClaimHolds ==
  ASSUME WorkerInv, Held, NEW t \in Threads, NEW e \in Executions, Claim(t, e)
  PROVE  Held'
<1>1. /\ TypeOK /\ outcome[e] = "PENDING" /\ task[t].pc = "idle"
      /\ OthersKept(t) /\ task'[t].exec = e /\ task'[t].pc = "claimed" /\ task'[t].token = NextToken(e)
      /\ outcome'[e] = "RUNNING" /\ phase'[e] = "CLAIMED" /\ leased'[e]
      /\ claim'[e] = [worker |-> ProcessOf[t], token |-> NextToken(e)]
      /\ \A f \in Executions \ {e} : UNCHANGED <<outcome[f], phase[f], claim[f], leased[f]>>
  BY DEF WorkerInv, ConversationTypes, Claim, Eligible, TypeOK, OthersKept
<1>2. Owns(t)'
  BY <1>1 DEF Owns
<1>3. ASSUME NEW u \in Threads \ {t}, task[u].pc # "idle"
      PROVE  /\ task[u].exec \in Executions \ {e} /\ Owns(u)'
             /\ phase'[task[u].exec] = phase[task[u].exec]
  <2>1. Owns(u) /\ task[u].exec \in Executions /\ task'[u] = task[u]
    BY <1>1, <1>3 DEF Held, TypeOK, OthersKept
  <2>2. task[u].exec # e
    BY <1>1, <2>1 DEF Owns
  <2>3. QED
    BY <1>1, <2>1, <2>2 DEF Owns
<1>4. ASSUME NEW f \in Executions \ {e}, outcome'[f] = "RUNNING"
      PROVE  leased'[f] /\ HasLiveOwner(f)'
  <2>1. leased'[f] /\ HasLiveOwner(f)
    BY <1>1, <1>4 DEF Held
  <2>2. PICK u \in Threads : task[u].pc # "idle" /\ task[u].exec = f
    BY <2>1 DEF HasLiveOwner
  <2>3. u # t /\ task'[u] = task[u]
    BY <1>1, <2>2 DEF OthersKept
  <2>4. QED
    BY <1>3, <2>1, <2>2, <2>3 DEF HasLiveOwner
<1>5. HasLiveOwner(e)'
  BY <1>1, <1>2 DEF HasLiveOwner
<1>6. QED
  BY <1>1, <1>2, <1>3, <1>4, <1>5 DEF Held, OthersKept

LEMMA BoundaryHolds ==
  ASSUME WorkerInv, Held, NEW t \in Threads, MarkSubmissionStarted(t)
  PROVE  Held'
<1> DEFINE e == task[t].exec
<1>1. /\ TypeOK /\ task[t].pc = "ready" /\ e \in Executions /\ Owns(t) /\ phase[e] = "CLAIMED"
      /\ outcome[e] = "RUNNING"
  BY DEF WorkerInv, ConversationTypes, MarkSubmissionStarted, Held, TypeOK, Owns
<1>2. /\ OthersKept(t) /\ ClaimKept(t) /\ task'[t].pc = "started"
      /\ UNCHANGED <<outcome, claim>> /\ leased'[e]
      /\ \A f \in Executions \ {e} : UNCHANGED <<phase[f], leased[f]>>
  BY <1>1, GoToStep DEF MarkSubmissionStarted, Pcs, TypeOK
<1>3. \A u \in Threads : /\ task'[u].exec = task[u].exec /\ task'[u].token = task[u].token
                         /\ task'[u].pc = "idle" <=> task[u].pc = "idle"
  BY <1>1, <1>2 DEF OthersKept, ClaimKept
<1>4. \A u \in Threads : task'[u].pc # "idle" => Owns(u)'
  BY <1>2, <1>3 DEF Held, Owns
<1>5. ASSUME NEW u \in Threads, task'[u].pc \in {"claimed", "fetching", "ready"}
      PROVE  phase'[task'[u].exec] = "CLAIMED"
  <2>1. u # t /\ task'[u] = task[u] /\ task[u].pc # "idle" /\ task[u].exec \in Executions
    BY <1>1, <1>2, <1>5 DEF OthersKept, TypeOK
  <2>2. task[u].exec # e
    BY <1>1, <2>1, HeldAlone
  <2>3. QED
    BY <1>2, <1>5, <2>1, <2>2 DEF Held
<1>6. ASSUME NEW f \in Executions, outcome'[f] = "RUNNING"
      PROVE  leased'[f] /\ HasLiveOwner(f)'
  <2>1. leased[f] /\ HasLiveOwner(f)
    BY <1>2, <1>6 DEF Held
  <2>2. QED
    BY <1>2, <1>3, <1>4, <2>1 DEF HasLiveOwner
<1>7. QED
  BY <1>4, <1>5, <1>6 DEF Held

LEMMA CompletionHolds ==
  ASSUME WorkerInv, Held, NEW t \in Threads, CompleteExecution(t)
  PROVE  Held'
<1> DEFINE e == task[t].exec
<1>1. /\ TypeOK /\ task[t].pc = "answered" /\ e \in Executions /\ Owns(t)
      /\ task[t].result \in TerminalOutcomes
  BY DEF WorkerInv, ConversationTypes, CompleteExecution, Held, TypeOK
<1>2. /\ OthersKept(t) /\ task'[t].pc = "idle" /\ outcome'[e] \in TerminalOutcomes
      /\ UNCHANGED claim
      /\ \A f \in Executions \ {e} : UNCHANGED <<outcome[f], phase[f], leased[f]>>
  BY <1>1, ReleaseStep DEF CompleteExecution, TypeOK
<1>3. ASSUME NEW u \in Threads, task'[u].pc # "idle"
      PROVE  /\ task[u].pc # "idle" /\ task'[u] = task[u] /\ task[u].exec \in Executions \ {e}
             /\ Owns(u)' /\ phase'[task[u].exec] = phase[task[u].exec]
  <2>1. u # t /\ task'[u] = task[u] /\ task[u].pc # "idle" /\ task[u].exec \in Executions /\ Owns(u)
    BY <1>1, <1>2, <1>3 DEF OthersKept, TypeOK, Held
  <2>2. task[u].exec # e
    BY <1>1, <2>1, HeldAlone
  <2>3. QED
    BY <1>2, <2>1, <2>2 DEF Owns
<1>4. ASSUME NEW f \in Executions, outcome'[f] = "RUNNING"
      PROVE  leased'[f] /\ HasLiveOwner(f)'
  <2>1. f # e /\ leased'[f] /\ HasLiveOwner(f)
    BY <1>2, <1>4 DEF Held, TerminalOutcomes
  <2>2. PICK u \in Threads : task[u].pc # "idle" /\ task[u].exec = f
    BY <2>1 DEF HasLiveOwner
  <2>3. u # t /\ task'[u] = task[u]
    BY <1>2, <2>1, <2>2 DEF OthersKept
  <2>4. QED
    BY <1>3, <2>1, <2>2, <2>3 DEF HasLiveOwner
<1>5. QED
  BY <1>3, <1>4 DEF Held

LEMMA HeldStep ==
  ASSUME WorkerInv, Held, [ConversationNext]_allVars, Calm'
  PROVE  Held'
<1> USE DEF rowVars, runVars, vars
<1> DEFINE Early == {"claimed", "fetching", "ready"}
           Kept(t) == \/ task'[t] = task[t]
                      \/ /\ task[t].pc # "idle" /\ task'[t].pc # "idle" /\ ClaimKept(t)
                         /\ task'[t].pc \in Early => task[t].pc \in Early
<1>1. TypeOK /\ TurnOK /\ ConversationTypes /\ RunAggregation
  BY DEF WorkerInv, ConversationTypes
<1>2. ASSUME NEW t \in Threads, OthersKept(t), UNCHANGED <<outcome, phase, claim, leased>>, Kept(t)
      PROVE  Held'
  BY <1>1, <1>2, HeldKept
<1>3. ASSUME NEW t \in Threads, TurnStep(t)
      PROVE  Held'
  <2>1. OthersKept(t)
    BY <1>1, <1>3, ActsAlone
  <2>2. CASE PrepareTurn(t)
    <3>1. task[t].pc = "claimed" /\ Owns(t)
      BY <2>2 DEF PrepareTurn, Prepare, Held
    <3>2. task'[t].pc # "idle" /\ ClaimKept(t) /\ UNCHANGED <<outcome, phase, claim, leased>>
      BY <1>1, <2>2, <3>1, GoToStep, ObservedStep DEF PrepareTurn, Prepare, Pcs, TerminalOutcomes
    <3>3. QED
      BY <1>2, <2>1, <3>1, <3>2
  <2>3. CASE SetupTurnFails(t) \/ RecordTurnMetadata(t)
    <3>1. /\ task[t].pc \in Early /\ task'[t].pc # "idle" /\ ClaimKept(t)
          /\ UNCHANGED <<outcome, phase, claim, leased>>
      BY <1>1, <2>3, GoToStep, ObservedStep
      DEF SetupTurnFails, SetupFails, RecordTurnMetadata, RecordRuntimeMetadata, Pcs, TerminalOutcomes
    <3>2. QED
      BY <1>2, <2>1, <3>1
  <2>4. CASE MarkTurnSubmissionStarted(t)
    BY <2>4, BoundaryHolds DEF MarkTurnSubmissionStarted
  <2>5. CASE EnsureConversationSession(t)
    <3>1. task[t].pc = "started" /\ UNCHANGED <<outcome, phase, claim, leased>>
      BY <2>5 DEF EnsureConversationSession
    <3>2. CASE Observed(t, "ERROR")
      BY <1>1, <1>2, <2>1, <3>1, <3>2, ObservedStep DEF TerminalOutcomes
    <3>3. CASE task' = task
      BY <1>2, <2>1, <3>1, <3>3
    <3>4. QED
      BY <2>5, <3>2, <3>3 DEF EnsureConversationSession
  <2>6. CASE CompleteTurn(t)
    BY <2>6, CompletionHolds DEF CompleteTurn
  <2>7. CASE MarkConversationSessionUnusable(t)
    <3>1. /\ \A e \in Executions : outcome[e] = "RUNNING" => UNCHANGED <<outcome[e], phase[e]>>
          /\ \A e \in Executions : outcome'[e] = "RUNNING" => outcome[e] = "RUNNING"
      BY <1>1, <2>7, MarkEffect
    <3>2. UNCHANGED <<claim, leased, task>>
      BY <2>7 DEF MarkConversationSessionUnusable
    <3>3. QED
      BY <1>1, <2>1, <3>1, <3>2, HeldKept
  <2>8. CASE MarkUnusableRefused(t) \/ CloseConversation(t)
    BY <1>2, <2>1, <2>8 DEF MarkUnusableRefused, CloseConversation
  <2>9. QED
    BY <1>3, <2>2, <2>3, <2>4, <2>5, <2>6, <2>7, <2>8 DEF TurnStep
<1>4. ASSUME NEW t \in Threads, TargetCall(t)
      PROVE  Held'
  <2>1. OthersKept(t)
    BY <1>1, <1>4, ActsAlone
  <2>2. CASE SessionOpens(t) \/ \E ok \in BOOLEAN : SessionCloses(t, ok)
    BY <1>2, <2>1, <2>2 DEF SessionOpens, SessionCloses
  <2>3. ASSUME NEW c \in Continuities, SessionOpenFails(t, c)
        PROVE  Held'
    <3>1. /\ task[t].pc = "started" /\ Observed(t, "ERROR")
          /\ UNCHANGED <<outcome, phase, claim, leased>>
      BY <1>1, <2>3 DEF SessionOpenFails, TurnOK
    <3>2. QED
      BY <1>1, <1>2, <2>1, <3>1, ObservedStep DEF TerminalOutcomes
  <2>4. CASE SubmitTurn(t)
    BY <1>1, <1>2, <2>1, <2>4, GoToStep DEF SubmitTurn, SubmitQuestion, Pcs
  <2>5. ASSUME NEW result \in TerminalOutcomes, NEW c \in Continuities, TurnAnswers(t, result, c)
        PROVE  Held'
    BY <1>1, <1>2, <2>1, <2>5, ObservedStep DEF TurnAnswers, TargetAnswers
  <2>6. QED
    BY <1>4, <2>2, <2>3, <2>4, <2>5 DEF TargetCall
<1>5. ASSUME NEW t \in Threads, NEW e \in Executions, ClaimTurn(t, e)
      PROVE  Held'
  BY <1>5, ClaimHolds DEF ClaimTurn
<1>6. CASE UNCHANGED <<rowVars, task>>
  BY <1>6 DEF Held, HasLiveOwner, Owns
<1>7. QED
  BY <1>3, <1>4, <1>5, <1>6, CalmStep


\* A thread comes to mark a session by ending its turn.
LEMMA MarkingMoves ==
  ASSUME WorkerInv, [ConversationNext]_allVars, NEW u \in Threads, turn'[u].step = "mark"
  PROVE  turn'[u] = turn[u] \/ CompleteTurn(u)
<1>1. TypeOK /\ TurnOK
  BY DEF WorkerInv, ConversationTypes
<1>2. ASSUME NEW c \in Continuities, SetContinuity(u, c)
      PROVE  FALSE
  BY <1>1, <1>2, SetContinuityTurn
<1>3. ASSUME NEW s \in Steps \ {"mark"}, SetStep(u, s)
      PROVE  FALSE
  BY <1>1, <1>3, SetStepTurn
<1>4. ASSUME turn' = [turn EXCEPT ![u] = NoTurn]
      PROVE  FALSE
  BY <1>1, <1>4, NoTurnTurn
<1>5. CASE TurnStep(u)
  <2>1. CASE PrepareTurn(u) \/ SetupTurnFails(u) \/ RecordTurnMetadata(u)
    BY <1>2, <2>1 DEF PrepareTurn, SetupTurnFails, RecordTurnMetadata, Continuities
  <2>2. CASE MarkTurnSubmissionStarted(u)
    BY <2>2 DEF MarkTurnSubmissionStarted, conversationVars
  <2>3. CASE EnsureConversationSession(u)
    <3>1. CASE turn' = [turn EXCEPT ![u].step = "opening", ![u].sid = opened[RunOf[task[u].exec]] + 1]
      BY <1>1, <3>1 DEF TurnOK, Turns
    <3>2. QED
      BY <1>2, <1>3, <2>3, <3>1 DEF EnsureConversationSession, Steps, Continuities
  <2>4. CASE MarkConversationSessionUnusable(u) \/ MarkUnusableRefused(u)
    BY <1>3, <1>4, <2>4 DEF MarkConversationSessionUnusable, MarkUnusableRefused, Steps
  <2>5. CASE CloseConversation(u)
    <3>1. turn[u] \in Turns /\ turn \in [Threads -> Turns]
      BY <1>1 DEF TurnOK
    <3>2. turn' = [turn EXCEPT ![u] = [turn[u] EXCEPT !.step = "closing"]]
      BY <1>4, <2>5 DEF CloseConversation
    <3>3. QED
      BY <3>1, <3>2 DEF Turns
  <2>6. QED
    BY <1>5, <2>1, <2>2, <2>3, <2>4, <2>5 DEF TurnStep
<1>6. CASE TargetCall(u)
  BY <1>2, <1>3, <1>4, <1>6
  DEF TargetCall, SessionOpens, SessionOpenFails, SubmitTurn, TurnAnswers, SessionCloses, Steps
<1>7. CASE \E e \in Executions : ClaimTurn(u, e)
  BY <1>7 DEF ClaimTurn, conversationVars
<1>8. QED
  BY <1>1, <1>5, <1>6, <1>7, ThreadMoves

\* A thread that calls the target to open a session has looked at its turn.
LEMMA OpeningMoves ==
  ASSUME WorkerInv, [ConversationNext]_allVars, NEW u \in Threads, turn'[u].step = "opening"
  PROVE  task'[u] = task[u] /\ (turn[u].step = "opening" \/ FirstTurn(task[u].exec))
<1> DEFINE Goal == task'[u] = task[u] /\ (turn[u].step = "opening" \/ FirstTurn(task[u].exec))
<1>1. TypeOK /\ TurnOK
  BY DEF WorkerInv, ConversationTypes
<1>2. ASSUME NEW c \in Continuities, SetContinuity(u, c)
      PROVE  FALSE
  BY <1>1, <1>2, SetContinuityTurn
<1>3. ASSUME NEW s \in Steps \ {"opening"}, SetStep(u, s)
      PROVE  FALSE
  BY <1>1, <1>3, SetStepTurn
<1>4. ASSUME turn' = [turn EXCEPT ![u] = NoTurn]
      PROVE  FALSE
  BY <1>1, <1>4, NoTurnTurn
<1>5. CASE TurnStep(u)
  <2>1. CASE PrepareTurn(u) \/ SetupTurnFails(u) \/ RecordTurnMetadata(u)
    BY <1>2, <2>1 DEF PrepareTurn, SetupTurnFails, RecordTurnMetadata, Continuities
  <2>2. ASSUME MarkTurnSubmissionStarted(u)
        PROVE  FALSE
    BY <1>1, <2>2 DEF MarkTurnSubmissionStarted, MarkSubmissionStarted, conversationVars, TurnOK
  <2>3. CASE EnsureConversationSession(u)
    BY <1>2, <1>3, <2>3 DEF EnsureConversationSession, Steps, Continuities
  <2>4. ASSUME CompleteTurn(u)
        PROVE  FALSE
    BY <1>1, <2>4 DEF CompleteTurn, TurnOK
  <2>5. CASE MarkConversationSessionUnusable(u) \/ MarkUnusableRefused(u)
    BY <1>3, <1>4, <2>5 DEF MarkConversationSessionUnusable, MarkUnusableRefused, Steps
  <2>6. ASSUME CloseConversation(u)
        PROVE  FALSE
    <3>1. turn[u] \in Turns /\ turn \in [Threads -> Turns]
      BY <1>1 DEF TurnOK
    <3>2. turn' = [turn EXCEPT ![u] = [turn[u] EXCEPT !.step = "closing"]]
      BY <1>4, <2>6 DEF CloseConversation
    <3>3. QED
      BY <3>1, <3>2 DEF Turns
  <2>7. QED
    BY <1>5, <2>1, <2>2, <2>3, <2>4, <2>5, <2>6 DEF TurnStep
<1>6. CASE TargetCall(u)
  BY <1>2, <1>3, <1>4, <1>6
  DEF TargetCall, SessionOpens, SessionOpenFails, SubmitTurn, TurnAnswers, SessionCloses, Steps
<1>7. ASSUME NEW e \in Executions, ClaimTurn(u, e)
      PROVE  FALSE
  BY <1>7 DEF ClaimTurn, Free, conversationVars
<1>8. QED
  BY <1>1, <1>5, <1>6, <1>7, ThreadMoves

\* A session is given up by the marking, or by the recovery.
LEMMA SessionGivenUp ==
  ASSUME WorkerInv, [ConversationNext]_allVars, NEW r \in Runs,
         session[r] # "UNUSABLE", session'[r] = "UNUSABLE"
  PROVE  \/ \E t \in Threads : MarkConversationSessionUnusable(t) /\ RunOf[turn[t].exec] = r
         \/ \E p \in Processes, S \in SUBSET Executions : ReconcileTurns(p, S)
<1> USE DEF attemptVars, conversationVars
<1>1. AttemptTypes
  BY DEF WorkerInv, ConversationTypes
<1>2. ASSUME NEW t \in Threads, MarkConversationSessionUnusable(t)
      PROVE  RunOf[turn[t].exec] = r
  BY <1>2 DEF MarkConversationSessionUnusable, EndSessions
<1>3. ASSUME NEW t \in Threads, SessionOpens(t) \/ \E ok \in BOOLEAN : SessionCloses(t, ok)
      PROVE  FALSE
  BY <1>1, <1>3 DEF SessionOpens, SessionCloses, AttemptTypes
<1>4. ASSUME NEW t \in Threads, TargetCall(t)
      PROVE  FALSE
  BY <1>3, <1>4 DEF TargetCall, SessionOpenFails, SubmitTurn, TurnAnswers
<1>5. QED
  BY <1>2, <1>4
  DEF ConversationNext, ApartFromTarget, TurnStep, ClaimTurn, PrepareTurn, SetupTurnFails,
      RecordTurnMetadata, MarkTurnSubmissionStarted, EnsureConversationSession, CompleteTurn,
      MarkUnusableRefused, CloseConversation, TurnEscapes, CrashWorker, ExitWorker, OutsideTurns, allVars

\* While nobody is late, only the marking gives a session up.
LEMMA CalmGivesUp ==
  ASSUME WorkerInv, Held, [ConversationNext]_allVars, NEW r \in Runs,
         session[r] # "UNUSABLE", session'[r] = "UNUSABLE"
  PROVE  \E t \in Threads : MarkConversationSessionUnusable(t) /\ RunOf[turn[t].exec] = r
<1>1. ASSUME NEW p \in Processes, NEW S \in SUBSET Executions, ReconcileTurns(p, S)
      PROVE  FALSE
  <2>1. PICK e \in S : Stale(e)
    BY <1>1 DEF ReconcileTurns
  <2>2. QED
    BY <2>1, NothingStale
<1>2. QED
  BY <1>1, SessionGivenUp

LEMMA FirstUndoubtedStep ==
  ASSUME WorkerInv, OrderInv, Held, FirstUndoubted, [ConversationNext]_allVars
  PROVE  FirstUndoubted'
<1> SUFFICES ASSUME NEW e \in Executions, FirstTurn(e), outcome'[e] \notin TerminalOutcomes
             PROVE  session'[RunOf[e]] # "UNUSABLE" /\ \A u \in Threads : ~Marking(u, RunOf[e])'
  BY DEF FirstUndoubted, FirstTurn
<1>1. /\ TypeOK /\ RunOf[e] \in Runs
      /\ outcome[e] \notin TerminalOutcomes
      /\ session[RunOf[e]] # "UNUSABLE" /\ \A u \in Threads : ~Marking(u, RunOf[e])
  BY RowStep, ManifestAssumption DEF WorkerInv, ConversationTypes, FirstUndoubted
<1>2. session'[RunOf[e]] # "UNUSABLE"
  BY <1>1, CalmGivesUp DEF Marking, MarkConversationSessionUnusable
<1>3. ASSUME NEW u \in Threads, Marking(u, RunOf[e])'
      PROVE  FALSE
  <2>1. CompleteTurn(u)
    BY <1>1, <1>3, MarkingMoves DEF Marking
  <2>2. /\ task[u].pc = "answered" /\ task[u].exec \in Executions /\ Owns(u)
        /\ turn'[u].exec = task[u].exec
    BY <1>1, <2>1 DEF CompleteTurn, CompleteExecution, Held, TypeOK, WorkerInv, ConversationTypes, TurnOK
  <2>3. CASE task[u].exec = e
    <3>1. outcome'[e] = task[u].result
      BY <1>1, <2>1, <2>2, <2>3 DEF CompleteTurn, CompleteExecution, TypeOK
    <3>2. QED
      BY <1>1, <2>2, <3>1 DEF TypeOK
  <2>4. CASE task[u].exec # e
    <3>1. Later(e, task[u].exec)
      BY <1>3, <2>2, <2>4, OrdinalAssumption DEF Marking, Later, FirstTurn
    <3>2. outcome[e] \in {"PENDING", "RUNNING"}
      BY <1>1 DEF TypeOK
    <3>3. outcome[task[u].exec] # "RUNNING"
      BY <2>2, <3>1, <3>2 DEF OrderInv
    <3>4. QED
      BY <2>2, <3>3 DEF Owns
  <2>5. QED
    BY <2>3, <2>4
<1>4. QED
  BY <1>2, <1>3

LEMMA OpenersFirstStep ==
  ASSUME WorkerInv, OpenersFirst, [ConversationNext]_allVars
  PROVE  OpenersFirst'
BY OpeningMoves DEF OpenersFirst, FirstTurn

\* A thread about to mark a session marks it, or finds its run finished.
LEMMA MarkerMoves ==
  ASSUME WorkerInv, Held, [ConversationNext]_allVars, Calm', NEW u \in Threads, NEW r \in Runs, Marking(u, r)
  PROVE  Marking(u, r)' \/ session'[r] = "UNUSABLE" \/ AllTurnsTerminal(outcome, r)
<1>1. TypeOK /\ TurnOK /\ task[u].pc = "idle"
  BY DEF WorkerInv, ConversationTypes, TurnOK, Marking
<1>2. CASE turn'[u] = turn[u]
  BY <1>2 DEF Marking
<1>3. ASSUME NEW e \in Executions, ClaimTurn(u, e)
      PROVE  FALSE
  BY <1>3 DEF ClaimTurn, Free, Marking
<1>4. CASE MarkConversationSessionUnusable(u)
  BY <1>4 DEF MarkConversationSessionUnusable, EndSessions, Marking
<1>5. CASE MarkUnusableRefused(u)
  BY <1>5 DEF MarkUnusableRefused, Marking, WorkerInv, RunAggregation, AllTurnsTerminal
<1>6. ASSUME TurnStep(u)
      PROVE  MarkConversationSessionUnusable(u) \/ MarkUnusableRefused(u)
  BY <1>1, <1>6
  DEF TurnStep, PrepareTurn, Prepare, SetupTurnFails, SetupFails, RecordTurnMetadata,
      RecordRuntimeMetadata, MarkTurnSubmissionStarted, MarkSubmissionStarted,
      EnsureConversationSession, CompleteTurn, CompleteExecution, CloseConversation, Marking
<1>7. ASSUME TargetCall(u)
      PROVE  FALSE
  BY <1>1, <1>7
  DEF TargetCall, SessionOpens, SessionOpenFails, SubmitTurn, SubmitQuestion, TurnAnswers, TargetAnswers,
      SessionCloses, Marking
<1>8. ASSUME stops' # 0
      PROVE  FALSE
  BY <1>8 DEF Calm
<1>9. QED
  BY <1>1, <1>2, <1>3, <1>4, <1>5, <1>6, <1>7, <1>8, ThreadMoves

\* A session in doubt, of a conversation that is not over, stays given up.
LEMMA UnusableStays ==
  ASSUME WorkerInv, CompletionInv, Held, FirstUndoubted, OpenersFirst, [ConversationNext]_allVars,
         NEW r \in Runs, session[r] = "UNUSABLE"
  PROVE  session'[r] = "UNUSABLE" \/ AllTurnsTerminal(outcome', r)
<1>1. TypeOK /\ TurnOK
  BY DEF WorkerInv, ConversationTypes
<1>2. ASSUME NEW t \in Threads, SessionOpens(t), RunOf[task[t].exec] = r
      PROVE  FALSE
  <2>1. turn[t].step = "opening" /\ task[t].pc = "started" /\ task[t].exec \in Executions
    BY <1>1, <1>2 DEF SessionOpens, TurnOK, TypeOK
  <2>2. FirstTurn(task[t].exec) /\ Owns(t)
    BY <2>1 DEF OpenersFirst, Held
  <2>3. outcome[task[t].exec] \notin TerminalOutcomes
    BY <2>2 DEF Owns, TerminalOutcomes
  <2>4. QED
    BY <1>2, <2>1, <2>2, <2>3 DEF FirstUndoubted
<1>3. ASSUME NEW t \in Threads, turn[t].step = "closing", RunOf[turn[t].exec] = r
      PROVE  AllTurnsTerminal(outcome', r)
  BY <1>3, OverStaysOver DEF CompletionInv
<1>4. QED
  BY <1>2, <1>3, SessionMoves

\* A doubt arises as the turn ends whose thread is then to record it.
LEMMA DoubtMoves ==
  ASSUME WorkerInv, Held, [ConversationNext]_allVars, NEW r \in Runs, broken'[r], ~broken[r]
  PROVE  \E u \in Threads : Marking(u, r)'
<1>1. TypeOK /\ TurnOK /\ AttemptTypes
  BY DEF WorkerInv, ConversationTypes
<1>2. ASSUME NEW t \in Threads, CompleteTurn(t)
      PROVE  Marking(t, r)'
  BY <1>1, <1>2 DEF CompleteTurn, Marking, AttemptTypes, TurnOK
<1>3. ASSUME NEW p \in Processes, NEW S \in SUBSET Executions, ReconcileTurns(p, S)
      PROVE  FALSE
  <2>1. PICK e \in S : Stale(e)
    BY <1>3 DEF ReconcileTurns
  <2>2. QED
    BY <2>1, NothingStale
<1>4. QED
  BY <1>2, <1>3
  DEF ConversationNext, ApartFromTarget, TurnStep, TargetCall, ClaimTurn, PrepareTurn, SetupTurnFails,
      RecordTurnMetadata, MarkTurnSubmissionStarted, EnsureConversationSession,
      MarkConversationSessionUnusable, MarkUnusableRefused, CloseConversation, SessionOpens,
      SessionOpenFails, SubmitTurn, TurnAnswers, SessionCloses, TurnEscapes, CrashWorker, ExitWorker,
      OutsideTurns, conversationVars, allVars

LEMMA DoubtFollowedStep ==
  ASSUME WorkerInv, CompletionInv, Held, FirstUndoubted, OpenersFirst, DoubtFollowed,
         [ConversationNext]_allVars, Calm'
  PROVE  DoubtFollowed'
<1> SUFFICES ASSUME NEW r \in Runs, broken'[r]
             PROVE  \/ session'[r] = "UNUSABLE" \/ AllTurnsTerminal(outcome', r)
                    \/ \E u \in Threads : Marking(u, r)'
  BY DEF DoubtFollowed, AllTurnsTerminal, MembersOf
<1>1. CASE ~broken[r]
  BY <1>1, DoubtMoves
<1>2. CASE session[r] = "UNUSABLE"
  BY <1>2, UnusableStays
<1>3. CASE AllTurnsTerminal(outcome, r)
  BY <1>3, OverStaysOver
<1>4. CASE \E u \in Threads : Marking(u, r)
  BY <1>4, MarkerMoves, OverStaysOver
<1>5. QED
  BY <1>1, <1>2, <1>3, <1>4 DEF DoubtFollowed

LEMMA NothingWaitsStep ==
  ASSUME WorkerInv, Held, NothingWaits, [ConversationNext]_allVars, Calm'
  PROVE  NothingWaits'
<1> SUFFICES ASSUME NEW e \in Executions, session'[RunOf[e]] = "UNUSABLE", outcome'[e] = "PENDING"
             PROVE  FALSE
  BY DEF NothingWaits
<1>1. TypeOK /\ ConversationTypes /\ RunAggregation /\ RunOf[e] \in Runs
  BY ManifestAssumption DEF WorkerInv, ConversationTypes
<1>2. outcome[e] = "PENDING"
  <2>1. ASSUME NEW t \in Threads, NEW f \in Executions, ClaimTurn(t, f)
        PROVE  outcome[e] = "PENDING"
    BY <1>1, <2>1 DEF ClaimTurn, Claim, TypeOK
  <2>2. ASSUME NEW t \in Threads, CompleteTurn(t)
        PROVE  outcome[e] = "PENDING"
    BY <1>1, <2>2 DEF CompleteTurn, CompleteExecution, TypeOK, TerminalOutcomes
  <2>3. ASSUME NEW t \in Threads, MarkConversationSessionUnusable(t)
        PROVE  outcome[e] = "PENDING"
    BY <2>3 DEF MarkConversationSessionUnusable
  <2>4. ASSUME NEW p \in Processes, NEW S \in SUBSET Executions, ReconcileTurns(p, S)
        PROVE  FALSE
    <3>1. PICK f \in S : Stale(f)
      BY <2>4 DEF ReconcileTurns
    <3>2. QED
      BY <3>1, NothingStale
  <2>5. QED
    BY <2>1, <2>2, <2>3, <2>4, OutcomeActors
<1>3. session[RunOf[e]] # "UNUSABLE"
  BY <1>2 DEF NothingWaits
<1>4. PICK t \in Threads : MarkConversationSessionUnusable(t) /\ RunOf[turn[t].exec] = RunOf[e]
  BY <1>1, <1>3, CalmGivesUp
<1>5. e \in Blocked({RunOf[turn[t].exec]})
  BY <1>2, <1>4 DEF Blocked
<1>6. outcome'[e] = "ERROR"
  BY <1>4, <1>5 DEF MarkConversationSessionUnusable
<1>7. QED
  BY <1>6


LEMMA CalmInvInit == ConversationInit => CalmInv
<1> SUFFICES ASSUME ConversationInit
             PROVE  Held /\ FirstUndoubted /\ OpenersFirst /\ DoubtFollowed /\ NothingWaits
  BY DEF CalmInv
<1>1. /\ \A e \in Executions : outcome[e] = "PENDING"
      /\ \A u \in Threads : task[u].pc = "idle" /\ turn[u].step = "none"
      /\ \A r \in Runs : session[r] = "PENDING" /\ ~broken[r]
  BY NoLegacyTurns, IdleTaskIsIdle, NoTurnType DEF ConversationInit, Init
<1>2. QED
  BY <1>1, ManifestAssumption
  DEF Held, FirstUndoubted, OpenersFirst, DoubtFollowed, NothingWaits, Marking

LEMMA CalmInvStep ==
  ASSUME ConversationInv, CalmInv, [ConversationNext]_allVars
  PROVE  CalmInv'
<1> SUFFICES ASSUME Calm'
             PROVE  Held' /\ FirstUndoubted' /\ OpenersFirst' /\ DoubtFollowed' /\ NothingWaits'
  BY DEF CalmInv
<1>1. WorkerInv /\ CompletionInv /\ OrderInv
  BY DEF ConversationInv
<1>2. Held /\ FirstUndoubted /\ OpenersFirst /\ DoubtFollowed /\ NothingWaits
  BY <1>1, CalmBefore DEF CalmInv
<1>3. QED
  BY <1>1, <1>2, HeldStep, FirstUndoubtedStep, OpenersFirstStep, DoubtFollowedStep, NothingWaitsStep

LEMMA CalmInvEnds ==
  ASSUME TypeOK, CalmInv
  PROVE  DoubtEndsConversation
<1> SUFFICES ASSUME NEW r \in Runs, Calm, broken[r] \/ session[r] = "UNUSABLE",
                    \A t \in Threads : task[t].pc = "idle" /\ turn[t].step = "none"
             PROVE  AllTurnsTerminal(outcome, r)
  BY DEF DoubtEndsConversation, Calm, Free
<1>1. \A e \in Executions : outcome[e] # "RUNNING"
  BY DEF CalmInv, Held, HasLiveOwner
<1>2. session[r] = "UNUSABLE" \/ AllTurnsTerminal(outcome, r)
  BY DEF CalmInv, DoubtFollowed, Marking
<1>3. CASE session[r] = "UNUSABLE"
  BY <1>1, <1>3 DEF CalmInv, NothingWaits, AllTurnsTerminal, MembersOf, TypeOK
<1>4. QED
  BY <1>2, <1>3

\* Once the continuity of a conversation is in doubt, it ends: without a crash
\* or a late heartbeat no turn is left waiting when the threads are done,
\* whichever of them claimed a turn before the session was marked.
THEOREM DoubtEnds == ConversationSpec => []DoubtEndsConversation
<1>1. ConversationInv /\ CalmInv => DoubtEndsConversation
  BY CalmInvEnds DEF ConversationInv, WorkerInv, ConversationTypes
<1>2. ConversationSpec => []CalmInv
  <2>1. ConversationInit => CalmInv
    BY CalmInvInit
  <2>2. ConversationInv /\ CalmInv /\ [ConversationNext]_allVars => CalmInv'
    BY CalmInvStep
  <2>3. QED
    BY <2>1, <2>2, ConversationInvAlways, PTL DEF ConversationSpec
<1>3. QED
  BY <1>1, <1>2, ConversationInvAlways, PTL

-----------------------------------------------------------------------------
(* Capacity in conversations.                                              *)

\* The blocked turns were waiting: ending them, like the other steps that a
\* conversation adds, activates no claim and takes no lease from an owner.
LEMMA TurnsTimelyStep ==
  ASSUME WorkerInv, TimelyInv, [ConversationNext]_allVars, late' = 0
  PROVE  OwnersLeased' /\ CapacityRespected'
<1>1. TypeOK /\ TurnOK /\ ClaimStateConstraint
  BY DEF WorkerInv, ConversationTypes
<1>2. CASE [Next]_vars
  BY <1>1, <1>2, TimelyStep
<1>3. ASSUME NEW t \in Threads, FailsTurn(t)
      PROVE  OwnersLeased' /\ CapacityRespected'
  <2>1. OwnersLeased /\ CapacityRespected
    BY <1>3 DEF FailsTurn, boundVars, TimelyInv
  <2>2. \A u \in Threads : task'[u].pc # "idle" =>
          task[u].pc # "idle" /\ task'[u].exec = task[u].exec /\ task'[u].token = task[u].token
    BY <1>1, <1>3 DEF FailsTurn, Observed, TypeOK
  <2>3. QED
    BY <1>1, <1>3, <2>1, <2>2, LeasesKept, CapacityKept DEF FailsTurn, rowVars, NoneActivated
<1>4. ASSUME NEW t \in Threads, MarkConversationSessionUnusable(t)
      PROVE  OwnersLeased' /\ CapacityRespected'
  <2>1. OwnersLeased /\ CapacityRespected /\ UNCHANGED <<claim, leased, task>>
    BY <1>4 DEF MarkConversationSessionUnusable, boundVars, TimelyInv
  <2>2. \A f \in Executions : outcome'[f] = "RUNNING" => outcome[f] = "RUNNING" /\ phase'[f] = phase[f]
    BY <1>4 DEF MarkConversationSessionUnusable
  <2>3. NoneActivated
    BY <2>1, <2>2 DEF NoneActivated
  <2>4. QED
    BY <1>1, <2>1, <2>2, <2>3, LeasesKept, CapacityKept
<1>5. ASSUME NEW p \in Processes, NEW S \in SUBSET Executions, ReconcileTurns(p, S)
      PROVE  OwnersLeased' /\ CapacityRespected'
  <2>1. OwnersLeased /\ CapacityRespected /\ UNCHANGED <<leased, task>>
    BY <1>5 DEF ReconcileTurns, boundVars, TimelyInv
  <2>2. \A f \in Executions : outcome'[f] = "RUNNING" =>
          outcome[f] = "RUNNING" /\ claim'[f] = claim[f] /\ phase'[f] = phase[f]
    BY <1>5 DEF ReconcileTurns, ClaimsCleared
  <2>3. NoneActivated
    BY <2>1, <2>2 DEF NoneActivated
  <2>4. QED
    BY <1>1, <2>1, <2>2, <2>3, LeasesKept, CapacityKept
<1>6. CASE OnlyStops
  <2>1. OwnersLeased /\ CapacityRespected
    BY <1>6 DEF OnlyStops, TimelyInv
  <2>2. QED
    BY <1>1, <1>6, <2>1, LeasesKept, CapacityKept DEF OnlyStops, rowVars, NoneActivated
<1>7. QED
  BY <1>1, <1>2, <1>3, <1>4, <1>5, <1>6, ClassifiedStep

\* Conversations keep to the capacity of a run and of the target as well:
\* neither a blocked or recovered turn nor a session in progress takes a run
\* over its maximum, as long as heartbeats are on time.
THEOREM ConversationsKeepCapacity == ConversationSpec => []CapacityWhileTimely
<1>1. ConversationInit => TimelyInv
  BY TimelyInvInit DEF ConversationInit
<1>2. ConversationInv /\ TimelyInv /\ [ConversationNext]_allVars => TimelyInv'
  BY TurnsTimelyStep DEF ConversationInv, TimelyInv
<1>3. TimelyInv => CapacityWhileTimely
  BY DEF TimelyInv, CapacityWhileTimely
<1>4. QED
  BY <1>1, <1>2, <1>3, ConversationInvAlways, PTL DEF ConversationSpec

=============================================================================
