----------------------------- MODULE TargetProofs -----------------------------
(***************************************************************************)
(* Proofs about ConversationTarget: the worker composed with the target it *)
(* talks to implements the worker that leaves the target to chance, so all *)
(* that ConversationProofs shows holds of the composition; and what the    *)
(* worker believes of the conversation is true of the target's session.    *)
(***************************************************************************)
EXTENDS ConversationTarget, ConversationProofs

-----------------------------------------------------------------------------
(* What the adapter makes of the replies.                                  *)

LEMMA ResultType == \A error : ResultOf(error) \in TerminalOutcomes
BY DEF ResultOf, TerminalOutcomes

LEMMA SignalType == \A reply : Signal(reply) \in Continuities
BY DEF Signal, Continuities

LEMMA ContinuityType == \A reply : TurnContinuity(reply) \in Continuities /\ OpenContinuity(reply) \in Continuities
BY SignalType DEF TurnContinuity, OpenContinuity, Continuities

LEMMA ObservationType ==
  \A reply : /\ TurnObservation(reply).result \in TerminalOutcomes
             /\ TurnObservation(reply).continuity \in Continuities
BY ResultType, ContinuityType DEF TurnObservation

\* A reply that the caller did not hear, and a refused turn, neither answer
\* the question nor vouch for the session.
LEMMA UnheardObservation ==
  \A reply \in Unheard \cup {TurnRefused} :
    /\ TurnObservation(reply).result # "SUCCESS"
    /\ TurnObservation(reply).continuity # "USABLE"
<1>1. ASSUME NEW kind \in {"timeout", "refused"}
      PROVE  /\ TurnObservation(NoReply(kind)).result # "SUCCESS"
             /\ TurnObservation(NoReply(kind)).continuity # "USABLE"
  BY <1>1 DEF TurnObservation, NoReply, TurnError, TimesOut, ResultOf, TurnContinuity, Rejected
<1>2. /\ TurnObservation(Http(502, "broken", "none")).result # "SUCCESS"
      /\ TurnObservation(Http(502, "broken", "none")).continuity # "USABLE"
  BY DEF TurnObservation, Http, TurnError, TimesOut, ResultOf, TurnContinuity, Rejected, Accepted,
         Signal, Continuities
<1>3. /\ TurnObservation(TurnRefused).result # "SUCCESS"
      /\ TurnObservation(TurnRefused).continuity # "USABLE"
  BY DEF TurnObservation, TurnRefused, Http, TurnError, TimesOut, ResultOf, TurnContinuity, Rejected,
         Accepted, Signal, Continuities
<1>4. QED
  BY <1>1, <1>2, <1>3 DEF Unheard

-----------------------------------------------------------------------------
(* The composition implements the conversation worker.                     *)

LEMMA ExchangeIsCall ==
  ASSUME NEW t \in Threads, Exchange(t)
  PROVE  TargetCall(t)
<1>1. CASE OpenAnswered(t)
  BY <1>1 DEF OpenAnswered, TargetCall
<1>2. CASE OpenOrphaned(t) \/ \E reply : OpenRefused(t, reply)
  BY <1>2, ContinuityType DEF OpenOrphaned, OpenRefused, TargetCall
<1>3. CASE SendTurn(t)
  BY <1>3 DEF SendTurn, TargetCall
<1>4. CASE \E m, reply : TurnAnswered(t, m, reply) \/ TurnUnheard(t, reply)
  <2>1. \E reply : TurnAnswers(t, TurnObservation(reply).result, TurnObservation(reply).continuity)
    BY <1>4 DEF TurnAnswered, TurnUnheard
  <2>2. QED
    BY <2>1, ObservationType DEF TargetCall
<1>5. CASE \E reply : CloseAnswered(t, reply)
  BY <1>5 DEF CloseAnswered, TargetCall, Closes
<1>6. QED
  BY <1>1, <1>2, <1>3, <1>4, <1>5 DEF Exchange

LEMMA TargetStep ==
  ASSUME [TargetNext]_composedVars
  PROVE  [ConversationNext]_allVars
BY ExchangeIsCall DEF TargetNext, composedVars, TargetAlone, ConversationNext

\* Everything the worker does with a target that keeps sessions, loses them,
\* and answers late or never, the conversation worker allows for.
THEOREM TargetImplementsWorker == TargetSpec => ConversationSpec
<1>1. TargetInit => ConversationInit
  BY DEF TargetInit
<1>2. [TargetNext]_composedVars => [ConversationNext]_allVars
  BY TargetStep
<1>3. QED
  BY <1>1, <1>2, PTL DEF TargetSpec, ConversationSpec

\* All that ConversationProofs shows of the worker and its ledger holds of the
\* composition: with a target that keeps and loses sessions, an observer sees
\* the turns of each conversation asked in order over one session, none twice.
THEOREM TargetKeepsLedger == TargetSpec => ImplementsConversation
BY TargetImplementsWorker, ConversationImplemented

\* With that target too, a conversation whose continuity is in doubt ends:
\* without a crash or a late heartbeat none of its turns is left waiting.
THEOREM TargetEndsDoubt == TargetSpec => []DoubtEndsConversation
BY TargetImplementsWorker, DoubtEnds

-----------------------------------------------------------------------------
(* The sessions of the target.                                             *)

SessionRecords == [next : Nat, usable : BOOLEAN]

\* The target numbers its sessions from one; a Run opened each of them.
SessionsOK ==
  /\ sessions \in [DOMAIN sessions -> SessionRecords]
  /\ \A k \in DOMAIN sessions : k[1] \in Runs /\ k[2] # 0

\* An accepted turn moves its session on by one, and leaves the others.
LEMMA CountedStep ==
  ASSUME SessionsOK, NEW m, Accepts(m), sessions' = Counted(m)
  PROVE  /\ sessions' \in [DOMAIN sessions -> SessionRecords]
         /\ \A k \in DOMAIN sessions : sessions'[k].next >= sessions[k].next
         /\ sessions'[m.session].next = m.ordinal + 1 /\ sessions'[m.session].usable
<1> DEFINE k0 == m.session
           moved == [sessions[k0] EXCEPT !.next = @ + 1]
<1>1. /\ k0 \in DOMAIN sessions /\ sessions[k0] \in SessionRecords
      /\ sessions[k0].usable /\ sessions[k0].next = m.ordinal
  BY DEF Accepts, SessionsOK
<1>2. sessions' = [sessions EXCEPT ![k0] = moved]
  BY <1>1 DEF Counted
<1>3. /\ moved \in SessionRecords /\ moved.next = m.ordinal + 1 /\ moved.usable
      /\ moved.next >= sessions[k0].next
  BY <1>1 DEF SessionRecords
<1> HIDE DEF moved
<1>4. \A k \in DOMAIN sessions : sessions'[k] = IF k = k0 THEN moved ELSE sessions[k]
  BY <1>2
<1>5. sessions' \in [DOMAIN sessions -> SessionRecords]
  BY <1>1, <1>2, <1>3 DEF SessionsOK
<1>6. \A k \in DOMAIN sessions : sessions[k].next >= sessions[k].next
  BY DEF SessionsOK, SessionRecords
<1>7. QED
  BY <1>1, <1>3, <1>4, <1>5, <1>6

LEMMA LoseStep ==
  ASSUME SessionsOK, NEW m, sessions' = [sessions EXCEPT ![m.session].usable = FALSE]
  PROVE  /\ sessions' \in [DOMAIN sessions -> SessionRecords]
         /\ \A k \in DOMAIN sessions : sessions'[k].next >= sessions[k].next
<1> DEFINE k0 == m.session
           moved == [sessions[k0] EXCEPT !.usable = FALSE]
<1>1. sessions' = [sessions EXCEPT ![k0] = moved]
  OBVIOUS
<1>2. \A k \in DOMAIN sessions : sessions[k] \in SessionRecords /\ sessions[k].next >= sessions[k].next
  BY DEF SessionsOK, SessionRecords
<1>3. k0 \in DOMAIN sessions => moved \in SessionRecords /\ moved.next >= sessions[k0].next
  BY <1>2 DEF SessionRecords
<1> HIDE DEF moved
<1>4. \A k \in DOMAIN sessions : sessions'[k] = IF k = k0 THEN moved ELSE sessions[k]
  BY <1>1
<1>5. DOMAIN sessions' = DOMAIN sessions /\ sessions' = [k \in DOMAIN sessions |-> sessions'[k]]
  BY <1>1 DEF SessionsOK
<1>6. \A k \in DOMAIN sessions : sessions'[k] \in SessionRecords
  BY <1>2, <1>3, <1>4
<1>7. sessions' \in [DOMAIN sessions -> SessionRecords]
  BY <1>5, <1>6
<1>8. QED
  BY <1>2, <1>3, <1>4, <1>7

LEMMA OpenStep ==
  ASSUME SessionsOK, NEW r \in Runs, NEW sid, sid # 0, OpenSession(r, sid)
  PROVE  /\ SessionsOK'
         /\ \A k \in DOMAIN sessions : k \in DOMAIN sessions' /\ sessions'[k].next >= sessions[k].next
<1> DEFINE D == DOMAIN sessions \cup {<<r, sid>>}
           fresh == [next |-> 1, usable |-> TRUE]
<1>1. sessions' = [k \in D |-> IF k \in DOMAIN sessions THEN sessions[k] ELSE fresh]
  BY DEF OpenSession
<1>2. fresh \in SessionRecords
  BY DEF SessionRecords
<1>3. \A k \in DOMAIN sessions : /\ sessions[k] \in SessionRecords /\ k[1] \in Runs /\ k[2] # 0
                                 /\ sessions[k].next >= sessions[k].next
  BY DEF SessionsOK, SessionRecords
<1> HIDE DEF fresh
<1>4. \A k \in D : k[1] \in Runs /\ k[2] # 0
  BY <1>3
<1>5. DOMAIN sessions' = D
  BY <1>1
<1>6. sessions' \in [D -> SessionRecords]
  BY <1>1, <1>2, <1>3
<1>7. \A k \in DOMAIN sessions : k \in D /\ sessions'[k] = sessions[k]
  BY <1>1
<1>8. QED
  BY <1>3, <1>4, <1>5, <1>6, <1>7 DEF SessionsOK

\* The target forgets no session, and no session moves back.
LEMMA SessionsStep ==
  ASSUME SessionsOK, TypeOK, TurnOK, [TargetNext]_composedVars
  PROVE  /\ SessionsOK'
         /\ \A k \in DOMAIN sessions : k \in DOMAIN sessions' /\ sessions'[k].next >= sessions[k].next
<1> DEFINE Goal == /\ SessionsOK'
                   /\ \A k \in DOMAIN sessions : k \in DOMAIN sessions' /\ sessions'[k].next >= sessions[k].next
<1>1. ASSUME UNCHANGED sessions
      PROVE  Goal
  BY <1>1 DEF SessionsOK, SessionRecords
<1>2. ASSUME NEW m, LoseSession(m)
      PROVE  Goal
  <2>1. /\ sessions' \in [DOMAIN sessions -> SessionRecords]
        /\ \A k \in DOMAIN sessions : sessions'[k].next >= sessions[k].next
    BY <1>2, LoseStep DEF LoseSession
  <2>2. QED
    BY <2>1 DEF SessionsOK
<1>3. ASSUME NEW t \in Threads, Exchange(t)
      PROVE  Goal
  <2>1. CASE OpenAnswered(t) \/ OpenOrphaned(t)
    <3>1. /\ turn[t].sid # 0 /\ OpenSession(RunOf[task[t].exec], turn[t].sid)
          /\ task[t].exec \in Executions
      BY <2>1 DEF OpenAnswered, SessionOpens, OpenOrphaned, SessionOpenFails, TurnOK, TypeOK
    <3>2. RunOf[task[t].exec] \in Runs
      BY <3>1, ManifestAssumption
    <3>3. QED
      BY <3>1, <3>2, OpenStep
  <2>2. QED
    BY <1>1, <1>3, <2>1
    DEF Exchange, OpenRefused, SendTurn, TurnAnswered, TurnUnheard, CloseAnswered, targetVars
<1>4. ASSUME NEW m \in wire, TargetAlone(m)
      PROVE  Goal
  <2>1. CASE AcceptTurn(m)
    <3>1. /\ sessions' \in [DOMAIN sessions -> SessionRecords]
          /\ \A k \in DOMAIN sessions : sessions'[k].next >= sessions[k].next
      BY <2>1, CountedStep DEF AcceptTurn
    <3>2. QED
      BY <3>1 DEF SessionsOK
  <2>2. CASE RefuseTurn(m)
    BY <1>1, <2>2 DEF RefuseTurn
  <2>3. QED
    BY <1>2, <1>4, <2>1, <2>2 DEF TargetAlone
<1>5. QED
  BY <1>1, <1>3, <1>4 DEF TargetNext, targetVars, composedVars

LEMMA SessionsInit == TargetInit => SessionsOK
BY DEF TargetInit, SessionsOK

-----------------------------------------------------------------------------
(* Answers.                                                                *)

LEMMA ObservedResult ==
  ASSUME TypeOK, NEW t \in Threads, NEW q, Observed(t, q)
  PROVE  task'[t].pc = "answered" /\ task'[t].result = q /\ OthersKept(t)
<1>1. task[t] \in Tasks /\ task \in [Threads -> Tasks]
  BY DEF TypeOK
<1>2. task' = [task EXCEPT ![t] = [task[t] EXCEPT !.pc = "answered", !.result = q]]
  BY <1>1 DEF Observed
<1>3. QED
  BY <1>1, <1>2 DEF Tasks, OthersKept

\* A thread that gets to an observation without the target has an error, and
\* was not waiting for the target.
LEMMA OwnAnswer ==
  ASSUME TypeOK, TurnOK, ApartFromTarget, NEW u \in Threads, task'[u].pc = "answered"
  PROVE  task'[u] = task[u] \/ (task[u].pc # "waiting" /\ task'[u].result = "ERROR")
<1> DEFINE Goal == task'[u] = task[u] \/ (task[u].pc # "waiting" /\ task'[u].result = "ERROR")
<1> USE DEF vars
<1>1. ASSUME task' = task
      PROVE  Goal
  BY <1>1
<1>2. ASSUME NEW t \in Threads, OthersKept(t), task'[t].pc # "answered"
      PROVE  Goal
  BY <1>2 DEF OthersKept
<1>3. ASSUME NEW t \in Threads, Observed(t, "ERROR"), task[t].pc # "waiting"
      PROVE  Goal
  BY <1>3, ObservedResult DEF OthersKept
<1>4. ASSUME NEW t \in Threads, Release(t)
      PROVE  Goal
  BY <1>2, <1>4, ReleaseStep
<1>5. ASSUME NEW t \in Threads, NEW l \in Pcs \ {"answered"}, GoTo(t, l), task[t].pc # "idle"
      PROVE  Goal
  BY <1>2, <1>5, GoToStep
<1>6. ASSUME NEW t \in Threads, NEW e \in Executions, ClaimTurn(t, e)
      PROVE  Goal
  BY <1>6 DEF ClaimTurn, Claim, TypeOK
<1>7. ASSUME NEW t \in Threads, TurnStep(t)
      PROVE  Goal
  <2>1. CASE PrepareTurn(t)
    BY <1>3, <1>4, <1>5, <2>1 DEF PrepareTurn, Prepare, Pcs
  <2>2. CASE SetupTurnFails(t)
    BY <1>3, <2>2 DEF SetupTurnFails, SetupFails
  <2>3. CASE RecordTurnMetadata(t)
    BY <1>3, <1>5, <2>3 DEF RecordTurnMetadata, RecordRuntimeMetadata, Pcs
  <2>4. CASE MarkTurnSubmissionStarted(t)
    BY <1>4, <1>5, <2>4 DEF MarkTurnSubmissionStarted, MarkSubmissionStarted, Pcs
  <2>5. CASE EnsureConversationSession(t)
    BY <1>1, <1>3, <2>5 DEF EnsureConversationSession
  <2>6. CASE CompleteTurn(t)
    BY <1>4, <2>6 DEF CompleteTurn, CompleteExecution
  <2>7. CASE MarkConversationSessionUnusable(t) \/ MarkUnusableRefused(t) \/ CloseConversation(t)
    BY <1>1, <2>7 DEF MarkConversationSessionUnusable, MarkUnusableRefused, CloseConversation
  <2>8. QED
    BY <1>7, <2>1, <2>2, <2>3, <2>4, <2>5, <2>6, <2>7 DEF TurnStep
<1>8. ASSUME NEW t \in Threads, TurnEscapes(t)
      PROVE  Goal
  BY <1>1, <1>4, <1>8 DEF TurnEscapes, TaskEscapes
<1>9. ASSUME NEW p \in Processes, CrashWorker(p)
      PROVE  Goal
  BY <1>9, IdleTaskIsIdle DEF CrashWorker, Crash
<1>10. QED
  BY <1>1, <1>6, <1>7, <1>8, <1>9
  DEF ApartFromTarget, ReconcileTurns, ExitWorker, Exit, OutsideTurns, RefreshClaimLease,
      LeaseExpires, DelayElapses, Stop, Restart

\* A new observation that the worker may go on from is the target's reply to
\* an accepted turn, come back in time.
LEMMA HeardStep ==
  ASSUME TypeOK, TurnOK, [TargetNext]_composedVars, NEW u \in Threads, task'[u].pc = "answered"
  PROVE  \/ task'[u] = task[u]
         \/ \E m \in wire : \E reply : TurnAnswered(u, m, reply) /\ m.stage = "accepted"
         \/ /\ task'[u].result # "SUCCESS"
            /\ task[u].pc = "waiting" => turn'[u].continuity # "USABLE"
<1> DEFINE Goal == \/ task'[u] = task[u]
                   \/ \E m \in wire : \E reply : TurnAnswered(u, m, reply) /\ m.stage = "accepted"
                   \/ /\ task'[u].result # "SUCCESS"
                      /\ task[u].pc = "waiting" => turn'[u].continuity # "USABLE"
<1>1. CASE ApartFromTarget
  BY <1>1, OwnAnswer
<1>2. ASSUME task' = task
      PROVE  Goal
  BY <1>2
<1>3. ASSUME NEW t \in Threads, Exchange(t)
      PROVE  Goal
  <2>1. CASE OpenAnswered(t)
    BY <1>2, <2>1 DEF OpenAnswered, SessionOpens, vars
  <2>2. CASE OpenOrphaned(t) \/ \E reply : OpenRefused(t, reply)
    <3>1. Observed(t, "ERROR") /\ turn[t].step = "opening"
      BY <2>2 DEF OpenOrphaned, OpenRefused, SessionOpenFails
    <3>2. task[t].pc = "started" /\ OthersKept(t) /\ task'[t].result = "ERROR"
      BY <3>1, ObservedResult DEF TurnOK
    <3>3. QED
      BY <3>2 DEF OthersKept
  <2>3. CASE SendTurn(t)
    <3>1. task'[t].pc = "waiting" /\ OthersKept(t)
      BY <2>3, GoToStep DEF SendTurn, SubmitTurn, SubmitQuestion, Pcs
    <3>2. QED
      BY <3>1 DEF OthersKept
  <2>4. ASSUME NEW m \in wire, NEW reply \in RepliesTo(m), TurnAnswered(t, m, reply), m.stage = "accepted"
        PROVE  Goal
    <3>1. OthersKept(t)
      BY <2>4, ObservedResult DEF TurnAnswered, TurnAnswers, TargetAnswers
    <3>2. QED
      BY <2>4, <3>1 DEF OthersKept
  <2>5. ASSUME NEW reply \in Unheard \cup {TurnRefused},
               TurnAnswers(t, TurnObservation(reply).result, TurnObservation(reply).continuity)
        PROVE  Goal
    <3>1. OthersKept(t) /\ task'[t].result = TurnObservation(reply).result
      BY <2>5, ObservedResult DEF TurnAnswers, TargetAnswers
    <3>2. turn'[t].continuity = TurnObservation(reply).continuity
      BY <2>5, ObservationType, SetContinuityTurn DEF TurnAnswers
    <3>3. task'[t].result # "SUCCESS" /\ turn'[t].continuity # "USABLE"
      BY <3>1, <3>2, UnheardObservation
    <3>4. QED
      BY <3>1, <3>3 DEF OthersKept
  <2>6. CASE \E reply \in Unheard : TurnUnheard(t, reply)
    BY <2>5, <2>6 DEF TurnUnheard
  <2>7. CASE \E m \in wire : \E reply \in RepliesTo(m) : TurnAnswered(t, m, reply)
    BY <2>4, <2>5, <2>7 DEF RepliesTo, TurnAnswered
  <2>8. CASE \E reply : CloseAnswered(t, reply)
    BY <1>2, <2>8 DEF CloseAnswered, SessionCloses, vars
  <2>9. QED
    BY <1>3, <2>1, <2>2, <2>3, <2>6, <2>7, <2>8 DEF Exchange
<1>4. ASSUME NEW m \in wire, TargetAlone(m)
      PROVE  Goal
  BY <1>2, <1>4 DEF TargetAlone, allVars, vars
<1>5. QED
  BY <1>1, <1>2, <1>3, <1>4 DEF TargetNext, composedVars, allVars, vars

\* The invariants of the worker and of the target's sessions together.
TargetInv == WorkerInv /\ SessionsOK

LEMMA TargetInvStep ==
  ASSUME TargetInv, [TargetNext]_composedVars
  PROVE  TargetInv'
BY TargetStep, WorkerInvStep, SessionsStep DEF TargetInv, WorkerInv, ConversationTypes

LEMMA TargetInvInit == TargetInit => TargetInv
BY WorkerInvInit, SessionsInit DEF TargetInit, TargetInv

-----------------------------------------------------------------------------
(* The end of an attempt.                                                  *)

\* A failed open leaves the coordinator without a session, and says so: the
\* target vouches for a session only in reply to a turn or a close.
LEMMA OpenSignal ==
  ASSUME NEW reply \in Unheard \cup {Http(501, "json", "UNUSABLE")}
  PROVE  OpenContinuity(reply) # "USABLE"
<1>1. ASSUME NEW kind \in {"timeout", "refused"}
      PROVE  OpenContinuity(NoReply(kind)) # "USABLE"
  BY <1>1 DEF OpenContinuity, NoReply, Rejected
<1>2. OpenContinuity(Http(502, "broken", "none")) # "USABLE"
  BY DEF OpenContinuity, Http, Rejected, Accepted, Signal, Continuities
<1>3. OpenContinuity(Http(501, "json", "UNUSABLE")) # "USABLE"
  BY DEF OpenContinuity, Http, Rejected, Accepted, Signal, Continuities
<1>4. QED
  BY <1>1, <1>2, <1>3 DEF Unheard

LEMMA HonestTarget ==
  ASSUME TargetInv, [TargetNext]_composedVars
  PROVE  OpensFailHonestly
<1> SUFFICES ASSUME NEW u \in Threads, turn[u].step = "opening", task'[u].pc = "answered"
             PROVE  turn'[u].continuity # "USABLE"
  BY DEF OpensFailHonestly
<1>1. TypeOK /\ TurnOK /\ task[u].pc = "started" /\ [ConversationNext]_allVars
  BY TargetStep DEF TargetInv, WorkerInv, ConversationTypes, TurnOK
<1>2. ASSUME NEW t \in Threads, NEW reply, SessionOpenFails(t, OpenContinuity(reply)),
             OpenContinuity(reply) # "USABLE"
      PROVE  turn'[u].continuity # "USABLE"
  <2>1. Observed(t, "ERROR") /\ SetContinuity(t, OpenContinuity(reply))
    BY <1>2 DEF SessionOpenFails
  <2>2. CASE t = u
    BY <1>1, <1>2, <2>1, <2>2, ContinuityType, SetContinuityTurn
  <2>3. CASE t # u
    BY <1>1, <2>1, <2>3, ObservedResult DEF OthersKept
  <2>4. QED
    BY <2>2, <2>3
<1>3. ASSUME NEW t \in Threads, Exchange(t)
      PROVE  turn'[u].continuity # "USABLE"
  <2>1. CASE t # u
    <3>1. task'[u] = task[u]
      BY <1>1, <1>3, <2>1, ExchangeIsCall, ActsAlone DEF OthersKept
    <3>2. QED
      BY <1>1, <3>1
  <2>2. CASE t = u /\ OpenAnswered(u)
    BY <1>1, <2>2 DEF OpenAnswered, SessionOpens, vars
  <2>3. CASE OpenOrphaned(t)
    <3>1. OpenContinuity(NoReply("timeout")) # "USABLE"
      BY OpenSignal DEF Unheard
    <3>2. QED
      BY <1>2, <2>3, <3>1 DEF OpenOrphaned
  <2>4. CASE \E reply \in Unheard \cup {Http(501, "json", "UNUSABLE")} : OpenRefused(t, reply)
    BY <1>2, <2>4, OpenSignal DEF OpenRefused
  <2>5. CASE t = u /\ SendTurn(u)
    BY <2>5 DEF SendTurn, SubmitTurn
  <2>6. CASE t = u /\ \E m, reply : TurnAnswered(u, m, reply) \/ TurnUnheard(u, reply)
    BY <1>1, <2>6 DEF TurnAnswered, TurnUnheard, TurnAnswers, TargetAnswers
  <2>7. CASE t = u /\ turn[u].step = "closing"
    BY <2>7
  <2>8. QED
    BY <1>3, <2>1, <2>2, <2>3, <2>4, <2>5, <2>6, <2>7 DEF Exchange
<1>4. CASE ApartFromTarget
  <2>1. ASSUME task'[u] = task[u] \/ task'[u].pc = "idle"
        PROVE  FALSE
    BY <1>1, <2>1
  <2>2. ASSUME NEW t \in Threads, NEW e \in Executions, ClaimTurn(t, e)
        PROVE  task'[u] = task[u]
    BY <1>1, <2>2 DEF ClaimTurn, Claim, Free, TypeOK
  <2>3. ASSUME NEW t \in Threads, TurnStep(t)
        PROVE  task'[u] = task[u]
    <3>1. CASE t # u
      BY <1>1, <2>3, <3>1, ActsAlone DEF OthersKept
    <3>2. ~TurnStep(u)
      BY <1>1
      DEF TurnStep, PrepareTurn, Prepare, SetupTurnFails, SetupFails, RecordTurnMetadata,
          RecordRuntimeMetadata, MarkTurnSubmissionStarted, MarkSubmissionStarted,
          EnsureConversationSession, CompleteTurn, CompleteExecution, MarkConversationSessionUnusable,
          MarkUnusableRefused, CloseConversation, Free
    <3>3. QED
      BY <2>3, <3>1, <3>2
  <2>4. ASSUME NEW t \in Threads, TurnEscapes(t)
        PROVE  task'[u] = task[u] \/ task'[u].pc = "idle"
    BY <1>1, <2>4, ReleaseStep DEF TurnEscapes, TaskEscapes, OthersKept
  <2>5. ASSUME NEW p \in Processes, CrashWorker(p)
        PROVE  task'[u] = task[u] \/ task'[u].pc = "idle"
    BY <1>1, <2>5, IdleTaskIsIdle DEF CrashWorker, Crash, TypeOK
  <2>6. QED
    BY <1>4, <2>1, <2>2, <2>3, <2>4, <2>5
    DEF ApartFromTarget, ReconcileTurns, ExitWorker, Exit, OutsideTurns, RefreshClaimLease,
        LeaseExpires, DelayElapses, Stop, Restart
<1>5. CASE UNCHANGED task
  BY <1>1, <1>5
<1>6. QED
  BY <1>3, <1>4, <1>5 DEF TargetNext, TargetAlone, composedVars, allVars, vars

\* An attempt whose session stayed usable is completed by a worker: without a
\* crash none is left open with all its turns over and no thread at work.  It
\* rests on the thread that ends the last turn, or one that ended beside it,
\* still holding the attempt, on the session that the first turn recorded, and
\* on a target that does not vouch for a session it refused to open.
THEOREM AttemptsEnd == TargetSpec => []AttemptEndsWithoutCrash
<1>1. TargetInit => ConversationInv /\ EndInv
  BY ConversationInvInit, EndInvInit DEF TargetInit
<1>2. TargetInv /\ ConversationInv /\ EndInv /\ [TargetNext]_composedVars
        => ConversationInv' /\ EndInv'
  BY TargetStep, HonestTarget, ConversationInvStep, EndInvStep
<1>3. TargetInv /\ EndInv => AttemptEndsWithoutCrash
  BY EndInvEnds DEF TargetInv, WorkerInv, ConversationTypes
<1>4. QED
  BY <1>1, <1>2, <1>3, TargetInvInit, TargetInvStep, PTL DEF TargetSpec

-----------------------------------------------------------------------------
(* Requests and replies on the wire.                                      *)

\* The attempt's session has accepted turn e.
InContext(e) ==
  /\ SessionOf(RunOf[e]) \in DOMAIN sessions
  /\ sessions[SessionOf(RunOf[e])].next > Ordinal[e]

\* Once recorded, the identity of a session that the target knows stays.
LEMMA SessionStays ==
  ASSUME TargetInv, [TargetNext]_composedVars, NEW e \in Executions,
         SessionOf(RunOf[e]) \in DOMAIN sessions \/ SessionOf(RunOf[e]) \in DOMAIN sessions'
  PROVE  SessionOf(RunOf[e])' = SessionOf(RunOf[e])
<1>1. SessionsOK /\ SessionsOK'
  BY TargetInvStep DEF TargetInv
<1>2. sessionId[RunOf[e]] # 0
  BY <1>1 DEF SessionsOK, SessionOf
<1>3. RunOf[e] \in Runs
  BY ManifestAssumption
<1>4. sessionId'[RunOf[e]] = sessionId[RunOf[e]]
  BY <1>2, <1>3, TargetStep, OpenedStep DEF TargetInv, WorkerInv, ConversationTypes
<1>5. QED
  BY <1>4 DEF SessionOf

LEMMA ContextKept ==
  ASSUME TargetInv, [TargetNext]_composedVars, NEW e \in Executions, InContext(e)
  PROVE  InContext(e)'
<1> DEFINE k == SessionOf(RunOf[e])
<1>1. k \in DOMAIN sessions /\ sessions[k].next > Ordinal[e]
  BY DEF InContext
<1>2. SessionOf(RunOf[e])' = k
  BY <1>1, SessionStays
<1>3. k \in DOMAIN sessions' /\ sessions'[k].next >= sessions[k].next
  BY <1>1, SessionsStep DEF TargetInv, WorkerInv, ConversationTypes
<1>4. sessions[k].next \in Nat /\ sessions'[k].next \in Nat /\ Ordinal[e] \in Nat
  <2>1. SessionsOK /\ SessionsOK'
    BY TargetInvStep DEF TargetInv
  <2>2. QED
    BY <1>1, <1>3, <2>1, OrdinalAssumption DEF SessionsOK, SessionRecords
<1> HIDE DEF k
<1>5. QED
  BY <1>1, <1>2, <1>3, <1>4 DEF InContext

Messages ==
  [exec : Executions, session : Runs \X Nat, ordinal : Nat,
   stage : {"sent", "losing", "accepted", "refused"}]

\* A turn is on the wire once, under the session its attempt recorded, and the
\* session has accepted what the target is replying to.
WireInv ==
  /\ wire \subseteq Messages
  /\ \A m \in wire :
       /\ m.session = SessionOf(RunOf[m.exec]) /\ m.ordinal = Ordinal[m.exec]
       /\ sessionId[RunOf[m.exec]] # 0 /\ requests[m.exec] # 0
       /\ m.stage \in {"accepted", "losing"} => InContext(m.exec)
  /\ \A m, n \in wire : m.exec = n.exec => m = n

\* What puts a message on the wire: a turn is sent, or moves on at the target.
MovesOn(m, s) ==
  /\ m.stage = "sent" /\ Accepts(m) /\ sessions' = Counted(m) /\ s \in {"accepted", "losing"}
  \/ s = "refused"

LEMMA WireMoves ==
  ASSUME [TargetNext]_composedVars
  PROVE  \/ wire' \subseteq wire
         \/ \E t \in Threads : SendTurn(t) /\ wire' = wire \cup {RequestOf(t)}
         \/ \E m \in wire, s \in {"accepted", "losing", "refused"} :
              /\ wire' \subseteq (wire \ {m}) \cup {At(m, s)}
              /\ MovesOn(m, s)
              /\ UNCHANGED allVars
<1>1. ASSUME NEW t \in Threads, Exchange(t)
      PROVE  wire' \subseteq wire \/ (SendTurn(t) /\ wire' = wire \cup {RequestOf(t)})
  BY <1>1 DEF Exchange, OpenAnswered, OpenOrphaned, OpenRefused, SendTurn, TurnAnswered, TurnUnheard,
              CloseAnswered, targetVars
<1>2. ASSUME NEW m \in wire, TargetAlone(m)
      PROVE  \E s \in {"accepted", "losing", "refused"} :
               /\ wire' \subseteq (wire \ {m}) \cup {At(m, s)}
               /\ MovesOn(m, s)
               /\ UNCHANGED allVars
  <2>1. ASSUME NEW s, Reply(m, s)
        PROVE  wire' \subseteq (wire \ {m}) \cup {At(m, s)}
    BY <2>1 DEF Reply
  <2>2. CASE AcceptTurn(m)
    BY <1>2, <2>1, <2>2 DEF AcceptTurn, MovesOn, TargetAlone
  <2>3. CASE RefuseTurn(m) \/ LoseSession(m)
    BY <1>2, <2>1, <2>3 DEF RefuseTurn, LoseSession, MovesOn, TargetAlone
  <2>4. QED
    BY <1>2, <2>2, <2>3 DEF TargetAlone
<1>3. QED
  BY <1>1, <1>2 DEF TargetNext, targetVars, composedVars

LEMMA AtFields ==
  ASSUME NEW m \in Messages, NEW s \in {"sent", "losing", "accepted", "refused"}
  PROVE  /\ At(m, s) \in Messages /\ At(m, s).stage = s
         /\ At(m, s).exec = m.exec /\ At(m, s).session = m.session /\ At(m, s).ordinal = m.ordinal
BY DEF At, Messages

LEMMA RequestFields ==
  ASSUME WorkerInv, NEW t \in Threads, SendTurn(t)
  PROVE  /\ RequestOf(t) \in Messages /\ RequestOf(t).stage = "sent"
         /\ RequestOf(t).exec = task[t].exec /\ RequestOf(t).ordinal = Ordinal[task[t].exec]
         /\ RequestOf(t).session = SessionOf(RunOf[task[t].exec])
         /\ task[t].exec \in Executions /\ task[t].pc = "started" /\ turn[t].step = "ready"
         /\ requests[task[t].exec] = 0
<1>1. TypeOK /\ TurnOK /\ AttemptTypes /\ SubmissionInv
  BY DEF WorkerInv, ConversationTypes
<1>2. turn[t].step = "ready" /\ task[t].pc = "started"
  BY <1>1 DEF SendTurn, SubmitTurn, TurnOK
<1>3. task[t].exec \in Executions /\ requests[task[t].exec] = 0
  BY <1>1, <1>2 DEF TypeOK, SubmissionInv
<1>4. RunOf[task[t].exec] \in Runs /\ Ordinal[task[t].exec] \in Nat
  BY <1>3, ManifestAssumption, OrdinalAssumption
<1>5. SessionOf(RunOf[task[t].exec]) \in Runs \X Nat
  BY <1>1, <1>4 DEF SessionOf, AttemptTypes
<1>6. QED
  BY <1>2, <1>3, <1>4, <1>5 DEF RequestOf, Messages

\* A request, once sent, stays on record.
LEMMA RequestsStay ==
  ASSUME WorkerInv, [ConversationNext]_allVars, NEW e \in Executions, requests[e] # 0
  PROVE  requests'[e] # 0
<1>1. Boundary /\ SubmissionInv
  BY BoundaryStep DEF WorkerInv
<1>2. CASE requests'[e] # requests[e]
  <2>1. PICK u \in Threads : task[u].pc = "started" /\ task[u].exec = e
    BY <1>1, <1>2 DEF Boundary
  <2>2. requests[e] = 0
    BY <1>1, <2>1 DEF SubmissionInv
  <2>3. QED
    BY <2>2
<1>3. QED
  BY <1>2

\* What holds of the turn a message is about is kept.
LEMMA MessageKept ==
  ASSUME TargetInv, [TargetNext]_composedVars, NEW e \in Executions,
         sessionId[RunOf[e]] # 0, requests[e] # 0
  PROVE  /\ SessionOf(RunOf[e])' = SessionOf(RunOf[e])
         /\ sessionId'[RunOf[e]] # 0 /\ requests'[e] # 0
<1>1. RunOf[e] \in Runs
  BY ManifestAssumption
<1>2. sessionId'[RunOf[e]] = sessionId[RunOf[e]]
  BY <1>1, TargetStep, OpenedStep DEF TargetInv, WorkerInv, ConversationTypes
<1>3. QED
  BY <1>2, TargetStep, RequestsStay DEF TargetInv, SessionOf

\* The target counts a turn when it accepts it.
LEMMA AcceptedInContext ==
  ASSUME SessionsOK, NEW m \in Messages, Accepts(m), sessions' = Counted(m),
         m.session = SessionOf(RunOf[m.exec]), m.ordinal = Ordinal[m.exec],
         SessionOf(RunOf[m.exec])' = SessionOf(RunOf[m.exec])
  PROVE  InContext(m.exec)'
<1>1. m.session \in DOMAIN sessions
  BY DEF Accepts
<1>2. m.session \in DOMAIN sessions' /\ sessions'[m.session].next = m.ordinal + 1
  BY <1>1, CountedStep
<1>3. m.ordinal \in Nat
  BY DEF Messages
<1>4. QED
  BY <1>2, <1>3 DEF InContext

LEMMA WireInvStep ==
  ASSUME TargetInv, HeardInv, WireInv, [TargetNext]_composedVars
  PROVE  WireInv'
<1> DEFINE Good(n) ==
             /\ n \in Messages
             /\ n.session = SessionOf(RunOf[n.exec]) /\ n.ordinal = Ordinal[n.exec]
             /\ sessionId[RunOf[n.exec]] # 0 /\ requests[n.exec] # 0
             /\ n.stage \in {"accepted", "losing"} => InContext(n.exec)
<1>1. WorkerInv /\ SessionsOK /\ TypeOK /\ TurnOK
  BY DEF TargetInv, WorkerInv, ConversationTypes
<1>2. ASSUME NEW n \in wire
      PROVE  /\ n \in Messages /\ n.exec \in Executions
             /\ SessionOf(RunOf[n.exec])' = SessionOf(RunOf[n.exec])
             /\ sessionId'[RunOf[n.exec]] # 0 /\ requests'[n.exec] # 0
             /\ Good(n)'
  <2>1. /\ n \in Messages /\ n.exec \in Executions
        /\ sessionId[RunOf[n.exec]] # 0 /\ requests[n.exec] # 0 /\ n.session = SessionOf(RunOf[n.exec])
        /\ n.ordinal = Ordinal[n.exec]
        /\ n.stage \in {"accepted", "losing"} => InContext(n.exec)
    BY DEF WireInv, Messages
  <2>2. /\ SessionOf(RunOf[n.exec])' = SessionOf(RunOf[n.exec])
        /\ sessionId'[RunOf[n.exec]] # 0 /\ requests'[n.exec] # 0
    BY <2>1, MessageKept
  <2>3. n.stage \in {"accepted", "losing"} => InContext(n.exec)'
    BY <2>1, ContextKept
  <2>4. QED
    BY <2>1, <2>2, <2>3
<1>3. CASE wire' \subseteq wire
  <2>1. \A n \in wire' : Good(n)'
    BY <1>2, <1>3
  <2>2. \A m, n \in wire' : m.exec = n.exec => m = n
    BY <1>3 DEF WireInv
  <2>3. QED
    BY <2>1, <2>2 DEF WireInv
<1>4. ASSUME NEW t \in Threads, SendTurn(t), wire' = wire \cup {RequestOf(t)}
      PROVE  WireInv'
  <2>1. PICK e \in Executions : e = task[t].exec
    BY <1>1, <1>4, RequestFields
  <2>2. PICK q \in Messages : q = RequestOf(t)
    BY <1>1, <1>4, RequestFields
  <2>3. /\ q.stage = "sent" /\ q.exec = e /\ q.ordinal = Ordinal[e]
        /\ q.session = SessionOf(RunOf[e])
        /\ turn[t].step = "ready" /\ requests[e] = 0
    BY <1>1, <1>4, <2>1, <2>2, RequestFields
  <2>4. sessionId[RunOf[e]] # 0
    BY <2>1, <2>3 DEF HeardInv, Heard
  <2>5. requests'[e] # 0
    <3>1. requests' = [requests EXCEPT ![e] = @ + 1] /\ requests \in [Executions -> Nat]
      BY <1>1, <1>4, <2>1 DEF SendTurn, SubmitTurn, SubmitQuestion, TypeOK
    <3>2. QED
      BY <2>3, <3>1
  <2>6. sessionId'[RunOf[e]] # 0 /\ SessionOf(RunOf[e])' = SessionOf(RunOf[e])
    <3>1. sessionId' = sessionId
      BY <1>4 DEF SendTurn, SubmitTurn, attemptVars
    <3>2. QED
      BY <2>4, <3>1 DEF SessionOf
  <2>7. Good(q)'
    BY <2>3, <2>5, <2>6
  <2>8. \A n \in wire : n.exec # q.exec
    BY <2>3 DEF WireInv
  <2>9. wire' = wire \cup {q}
    BY <1>4, <2>2
  <2>10. \A n \in wire' : Good(n)'
    BY <1>2, <2>7, <2>9
  <2>11. \A m, n \in wire' : m.exec = n.exec => m = n
    BY <2>8, <2>9 DEF WireInv
  <2>12. QED
    BY <2>10, <2>11 DEF WireInv
<1>5. ASSUME NEW m \in wire, NEW s \in {"accepted", "losing", "refused"},
             wire' \subseteq (wire \ {m}) \cup {At(m, s)}, MovesOn(m, s)
      PROVE  WireInv'
  <2> DEFINE q == At(m, s)
  <2>1. /\ m \in Messages /\ m.exec \in Executions
        /\ SessionOf(RunOf[m.exec])' = SessionOf(RunOf[m.exec])
        /\ sessionId'[RunOf[m.exec]] # 0 /\ requests'[m.exec] # 0
    BY <1>2
  <2>2. m.session = SessionOf(RunOf[m.exec]) /\ m.ordinal = Ordinal[m.exec]
    BY DEF WireInv
  <2>3. /\ q \in Messages /\ q.stage = s /\ q.exec = m.exec
        /\ q.session = m.session /\ q.ordinal = m.ordinal
    BY <2>1, AtFields
  <2>4. s \in {"accepted", "losing"} => InContext(m.exec)'
    BY <1>1, <1>5, <2>1, <2>2, AcceptedInContext DEF MovesOn
  <2> HIDE DEF q
  <2>5. Good(q)'
    BY <2>1, <2>2, <2>3, <2>4
  <2>6. \A n \in wire \ {m} : n.exec # q.exec
    BY <2>3 DEF WireInv
  <2>7. wire' \subseteq (wire \ {m}) \cup {q}
    BY <1>5 DEF q
  <2>8. \A n \in wire' : Good(n)'
    BY <1>2, <2>5, <2>7
  <2>9. \A n, o \in wire' : n.exec = o.exec => n = o
    BY <2>6, <2>7 DEF WireInv
  <2>10. QED
    BY <2>8, <2>9 DEF WireInv
<1>6. QED
  BY <1>3, <1>4, <1>5, WireMoves

\* The worker, the target and the messages between them.
TalkInv == TargetInv /\ ConversationInv /\ EndInv /\ WireInv

LEMMA TalkInvInit == TargetInit => TalkInv
BY TargetInvInit, ConversationInvInit, EndInvInit DEF TargetInit, TalkInv, WireInv

LEMMA TalkInvStep ==
  ASSUME TalkInv, [TargetNext]_composedVars
  PROVE  TalkInv'
BY TargetStep, TargetInvStep, HonestTarget, ConversationInvStep, EndInvStep, WireInvStep
DEF TalkInv, EndInv

-----------------------------------------------------------------------------
(* Answers in context.                                                     *)

\* An answer that is about to be recorded was given in context too.
ContextInv ==
  /\ \A t \in Threads, e \in Executions :
       task[t].pc = "answered" /\ task[t].result = "SUCCESS" /\ task[t].exec = e => InContext(e)
  /\ \A e \in Executions : outcome[e] = "SUCCESS" => InContext(e)

LEMMA AnswerContextStep ==
  ASSUME TargetInv, WireInv, ContextInv, [TargetNext]_composedVars, NEW t \in Threads,
         NEW e \in Executions,
         task'[t].pc = "answered", task'[t].result = "SUCCESS", task'[t].exec = e
  PROVE  InContext(e)'
<1>1. TypeOK /\ TurnOK /\ SessionsOK
  BY DEF TargetInv, WorkerInv, ConversationTypes
<1>2. CASE task'[t] = task[t]
  <2>1. InContext(e)
    BY <1>2 DEF ContextInv
  <2>2. QED
    BY <2>1, ContextKept
<1>3. ASSUME NEW m \in wire, NEW reply, TurnAnswered(t, m, reply), m.stage = "accepted"
      PROVE  InContext(e)'
  <2>1. task[t].exec = e /\ m.exec = e
    BY <1>1, <1>3, ObservedStep, ObservationType DEF TurnAnswered, TurnAnswers, TargetAnswers, ClaimKept
  <2>2. InContext(e)
    BY <1>3, <2>1 DEF WireInv
  <2>3. QED
    BY <2>2, ContextKept
<1>4. QED
  BY <1>1, <1>2, <1>3, HeardStep

LEMMA RecordedContextStep ==
  ASSUME TargetInv, ContextInv, [TargetNext]_composedVars, NEW e \in Executions,
         outcome'[e] = "SUCCESS"
  PROVE  InContext(e)'
<1>1. TypeOK /\ ConversationTypes /\ RunAggregation /\ [ConversationNext]_allVars
  BY TargetStep DEF TargetInv, WorkerInv, ConversationTypes
<1>2. CASE outcome[e] = "SUCCESS"
  BY <1>2, ContextKept DEF ContextInv
<1>3. ASSUME outcome[e] # "SUCCESS"
      PROVE  InContext(e)'
  <2>1. ASSUME NEW t \in Threads, NEW f \in Executions, ClaimTurn(t, f)
        PROVE  FALSE
    BY <1>1, <1>3, <2>1 DEF ClaimTurn, Claim, TypeOK
  <2>2. ASSUME NEW t \in Threads, CompleteExecution(t)
        PROVE  InContext(e)
    <3>1. CASE Owns(t)
      <4>1. e = task[t].exec /\ task[t].result = "SUCCESS"
        BY <1>1, <1>3, <2>2, <3>1, CompleteEffect DEF TypeOK
      <4>2. task[t].pc = "answered"
        BY <2>2 DEF CompleteExecution
      <4>3. QED
        BY <4>1, <4>2 DEF ContextInv
    <3>2. CASE ~Owns(t)
      BY <1>3, <2>2, <3>2 DEF CompleteExecution
    <3>3. QED
      BY <3>1, <3>2
  <2>3. ASSUME NEW t \in Threads, MarkConversationSessionUnusable(t)
        PROVE  FALSE
    BY <1>1, <1>3, <2>3, MarkEffect
  <2>4. ASSUME NEW p \in Processes, NEW S \in SUBSET Executions, ReconcileTurns(p, S)
        PROVE  FALSE
    BY <1>1, <1>3, <2>4, ReconcileTurnsEffect
  <2>5. InContext(e)
    BY <1>1, <1>3, <2>1, <2>2, <2>3, <2>4, OutcomeStep
  <2>6. QED
    BY <2>5, ContextKept
<1>4. QED
  BY <1>2, <1>3

\* A turn recorded as answered was answered in its context: the attempt's
\* session of the target has accepted every turn up to it.
THEOREM AnsweredInContext == TargetSpec => []ContextComplete
<1>1. TargetInit => ContextInv
  BY NoLegacyTurns, IdleTaskIsIdle DEF TargetInit, ConversationInit, Init, ContextInv
<1>2. TalkInv /\ ContextInv /\ [TargetNext]_composedVars => ContextInv'
  BY AnswerContextStep, RecordedContextStep DEF ContextInv, TalkInv
<1>3. ContextInv => ContextComplete
  BY DEF ContextInv, InContext, ContextComplete
<1>4. QED
  BY <1>1, <1>2, <1>3, TalkInvInit, TalkInvStep, PTL DEF TargetSpec


-----------------------------------------------------------------------------
(* What the coordinator believes of the session.                           *)

\* Behind a turn that is being sent or waited for, also by a thread that lost
\* it, no later turn was sent, nor is any about to be.
BehindInv ==
  \A u \in Threads : PastBoundary(u) =>
    /\ outcome[task[u].exec] = "RUNNING" => Owns(u)
    /\ \A f \in Executions : Later(task[u].exec, f) =>
         /\ outcome[f] # "RUNNING" /\ requests[f] = 0 /\ NoOneSends(f)
         /\ outcome[f] = "PENDING" => outcome[task[u].exec] = "RUNNING"

LEMMA BehindStep ==
  ASSUME WorkerInv, AnsweredAsked, OrderInv, BehindInv, [ConversationNext]_allVars,
         NEW u \in Threads, PastBoundary(u)', NEW f \in Executions, Later(task'[u].exec, f)
  PROVE  /\ outcome'[f] # "RUNNING" /\ requests'[f] = 0 /\ NoOneSends(f)'
         /\ outcome'[f] = "PENDING" => outcome'[task'[u].exec] = "RUNNING"
<1>1. TypeOK /\ FencingTokens /\ ClaimStateConstraint
  BY DEF WorkerInv, ConversationTypes
<1>2. PICK e : e = task[u].exec
  OBVIOUS
<1>3. task'[u].exec = e /\ task'[u].token = task[u].token /\ (PastBoundary(u) \/ Crosses(u))
  BY <1>2, PastBoundaryStep
<1>4. CASE Crosses(u)
  <2>1. outcome[e] = "RUNNING" /\ outcome' = outcome /\ phase[e] = "CLAIMED"
    BY <1>2, <1>4 DEF Crosses, Owns
  <2>2. e \in Executions
    <3>1. task'[u].pc # "idle" /\ TypeOK'
      BY WorkerInvStep DEF PastBoundary, WorkerInv, ConversationTypes
    <3>2. QED
      BY <1>3, <3>1 DEF TypeOK
  <2>3. outcome'[f] # "RUNNING" /\ requests'[f] = 0 /\ NoOneSends(f)'
    BY <1>3, <2>1, <2>2, OpenOrderStep
  <2>4. QED
    BY <1>3, <2>1, <2>3
<1>5. CASE PastBoundary(u)
  <2>1. /\ outcome[f] # "RUNNING" /\ requests[f] = 0 /\ NoOneSends(f)
        /\ outcome[f] = "PENDING" => outcome[e] = "RUNNING"
        /\ outcome[e] = "RUNNING" => Owns(u)
    BY <1>2, <1>3, <1>5 DEF BehindInv
  <2>2. requests'[f] = 0 /\ NoOneSends(f)' /\ (outcome'[f] = "RUNNING" => TurnReady(f))
    BY <2>1, LaterKept
  <2>3. e \in Executions /\ phase[e] # "CLAIMED" /\ task[u].pc # "idle"
    BY <1>2, <1>5, PastBoundaryRow DEF PastBoundary
  <2>4. TurnReady(f) => outcome[e] \in TerminalOutcomes
    BY <1>3, <2>3, OrdinalAssumption DEF TurnReady, Later, MembersOf
  <2>5. outcome'[f] # "RUNNING"
    <3> SUFFICES ASSUME outcome'[f] = "RUNNING"
                 PROVE  FALSE
      OBVIOUS
    <3>1. outcome[f] = "PENDING"
      BY <2>1, RowStep
    <3>2. QED
      BY <2>1, <2>2, <2>4, <3>1 DEF TerminalOutcomes
  <2>6. ASSUME outcome'[f] = "PENDING"
        PROVE  outcome'[e] = "RUNNING"
    <3>1. outcome[f] = "PENDING"
      <4>1. phase[f] = "CLAIMED" => outcome[f] = "RUNNING"
        BY <1>1 DEF ClaimStateConstraint, ClaimPhases
      <4>2. QED
        BY <2>1, <2>6, <4>1, RowStep
    <3>2. outcome[e] = "RUNNING" /\ Owns(u)
      BY <2>1, <3>1
    <3>3. outcome'[e] # "PENDING"
      BY <2>3, <3>2, RowStep
    <3>4. outcome'[e] \notin TerminalOutcomes
      <4> SUFFICES ASSUME outcome'[e] \in TerminalOutcomes
                   PROVE  FALSE
        OBVIOUS
      <4>1. RunOf[f] = RunOf[e]
        BY <1>3 DEF Later
      <4>2. PICK t \in Threads : task[t].pc = "answered" /\ task[t].exec = e /\ Owns(t)
        BY <2>3, <2>6, <3>1, <3>2, <4>1, EndedStep
      <4>3. t = u
        BY <1>1, <1>2, <2>3, <3>2, <4>2 DEF FencingTokens, Owns
      <4>4. QED
        BY <1>5, <4>2, <4>3 DEF PastBoundary
    <3>5. outcome'[e] \in {"PENDING", "RUNNING"} \cup TerminalOutcomes
      BY <2>3, WorkerInvStep DEF WorkerInv, ConversationTypes, TypeOK
    <3>6. QED
      BY <3>3, <3>4, <3>5
  <2>7. QED
    BY <1>3, <2>2, <2>5, <2>6
<1>6. QED
  BY <1>3, <1>4, <1>5

LEMMA BehindOwned ==
  ASSUME WorkerInv, AnsweredAsked, BehindInv, [ConversationNext]_allVars, NEW u \in Threads,
         PastBoundary(u)', outcome'[task'[u].exec] = "RUNNING"
  PROVE  Owns(u)'
<1>1. TypeOK /\ ClaimStateConstraint
  BY DEF WorkerInv, ConversationTypes
<1>2. PICK e : e = task[u].exec
  OBVIOUS
<1>3. task'[u].exec = e /\ task'[u].token = task[u].token /\ (PastBoundary(u) \/ Crosses(u))
  BY <1>2, PastBoundaryStep
<1>4. CASE Crosses(u)
  BY <1>2, <1>3, <1>4 DEF Crosses, Owns
<1>5. CASE PastBoundary(u)
  <2>1. e \in Executions /\ phase[e] \notin {"NONE", "CLAIMED"}
    BY <1>2, <1>5, PastBoundaryRow
  <2>2. outcome[e] # "PENDING"
    BY <1>1, <2>1 DEF ClaimStateConstraint, TerminalOutcomes
  <2>3. outcome[e] = "RUNNING" /\ claim'[e] = claim[e]
    BY <1>3, <2>1, <2>2, RowStep
  <2>4. Owns(u)
    BY <1>2, <1>5, <2>3 DEF BehindInv
  <2>5. QED
    BY <1>2, <1>3, <2>3, <2>4 DEF Owns
<1>6. QED
  BY <1>3, <1>4, <1>5

LEMMA BehindInvStep ==
  ASSUME WorkerInv, AnsweredAsked, OrderInv, BehindInv, [ConversationNext]_allVars
  PROVE  BehindInv'
BY BehindStep, BehindOwned DEF BehindInv, Later

\* The owner of turn f, if it still has one, has not heard that its session
\* may be used further.
Hanging(f) ==
  /\ outcome[f] = "RUNNING"
  /\ \A u \in Threads : task[u].pc # "idle" /\ task[u].exec = f /\ Owns(u) =>
       task[u].pc = "waiting" \/ (task[u].pc = "answered" /\ turn[u].continuity # "USABLE")

\* What a thread does with a task before it is over.
LEMMA TaskMoves ==
  ASSUME TypeOK, TurnOK, NEW u \in Threads, TurnStep(u) \/ TargetCall(u), task'[u].pc # "idle"
  PROVE  /\ task[u].pc \notin {"idle", "answered"} /\ ClaimKept(u)
         /\ task[u].pc = "waiting" => task'[u].pc = "answered"
<1> DEFINE Goal == /\ task[u].pc \notin {"idle", "answered"} /\ ClaimKept(u)
                   /\ task[u].pc = "waiting" => task'[u].pc = "answered"
<1>1. ASSUME task' = task, task[u].pc \notin {"idle", "answered", "waiting"}
      PROVE  Goal
  BY <1>1 DEF ClaimKept
<1>2. ASSUME task[u].pc \notin {"idle", "answered", "waiting"}, NEW l \in Pcs \ {"answered"}, GoTo(u, l)
      PROVE  Goal
  BY <1>2, GoToStep
<1>3. ASSUME task[u].pc \notin {"idle", "answered"}, NEW q \in TerminalOutcomes, Observed(u, q)
      PROVE  Goal
  BY <1>3, ObservedStep
<1>4. ASSUME Release(u)
      PROVE  FALSE
  BY <1>4, ReleaseStep
<1>5. CASE TurnStep(u)
  <2>1. CASE PrepareTurn(u)
    BY <1>2, <1>3, <1>4, <2>1 DEF PrepareTurn, Prepare, Pcs, TerminalOutcomes
  <2>2. CASE SetupTurnFails(u) \/ RecordTurnMetadata(u)
    BY <1>2, <1>3, <2>2
    DEF SetupTurnFails, SetupFails, RecordTurnMetadata, RecordRuntimeMetadata, Pcs, TerminalOutcomes
  <2>3. CASE MarkTurnSubmissionStarted(u)
    BY <1>2, <1>4, <2>3 DEF MarkTurnSubmissionStarted, MarkSubmissionStarted, Pcs
  <2>4. CASE EnsureConversationSession(u)
    BY <1>1, <1>3, <2>4 DEF EnsureConversationSession, TerminalOutcomes
  <2>5. CASE CompleteTurn(u)
    BY <1>4, <2>5 DEF CompleteTurn, CompleteExecution
  <2>6. CASE MarkConversationSessionUnusable(u) \/ MarkUnusableRefused(u) \/ CloseConversation(u)
    <3>1. task' = task /\ turn[u].step \in {"mark", "close"}
      BY <2>6 DEF MarkConversationSessionUnusable, MarkUnusableRefused, CloseConversation, vars
    <3>2. QED
      BY <3>1 DEF TurnOK
  <2>7. QED
    BY <1>5, <2>1, <2>2, <2>3, <2>4, <2>5, <2>6 DEF TurnStep
<1>6. CASE TargetCall(u)
  <2>1. CASE SessionOpens(u)
    BY <1>1, <2>1 DEF SessionOpens, vars, TurnOK
  <2>2. CASE \E ok \in BOOLEAN : SessionCloses(u, ok)
    BY <2>2 DEF SessionCloses, vars, TurnOK
  <2>3. CASE \E c \in Continuities : SessionOpenFails(u, c)
    BY <1>3, <2>3 DEF SessionOpenFails, TurnOK, TerminalOutcomes
  <2>4. CASE SubmitTurn(u)
    BY <1>2, <2>4 DEF SubmitTurn, SubmitQuestion, Pcs, TurnOK
  <2>5. CASE \E result \in TerminalOutcomes, c \in Continuities : TurnAnswers(u, result, c)
    BY <1>3, <2>5 DEF TurnAnswers, TargetAnswers
  <2>6. QED
    BY <1>6, <2>1, <2>2, <2>3, <2>4, <2>5 DEF TargetCall
<1>7. QED
  BY <1>5, <1>6

\* As long as no good news of a sent turn is on its way, its owner goes on
\* waiting, or leaves the conversation in doubt.
LEMMA HangingStep ==
  ASSUME TalkInv, [TargetNext]_composedVars, NEW f \in Executions, Hanging(f), requests[f] # 0,
         \A m \in wire : m.exec = f => m.stage # "accepted"
  PROVE  Hanging(f)' \/ broken'[RunOf[f]]
<1>1. /\ WorkerInv /\ TypeOK /\ TypeOK' /\ TurnOK /\ SubmissionInv /\ [ConversationNext]_allVars
      /\ RunOf[f] \in Runs
  BY TargetStep, WorkerInvStep, ManifestAssumption DEF TalkInv, TargetInv, WorkerInv, ConversationTypes
<1>2. outcome[f] = "RUNNING" /\ phase[f] \notin {"NONE", "CLAIMED"}
  BY <1>1 DEF Hanging, SubmissionInv
<1>3. outcome'[f] # "PENDING" /\ claim'[f] = claim[f]
  BY <1>1, <1>2, RowStep
<1>4. CASE outcome'[f] \in TerminalOutcomes
  <2>1. ASSUME NEW t \in Threads, CompleteTurn(t), Owns(t), task[t].exec = f
        PROVE  broken'[RunOf[f]]
    <3>1. task[t].pc = "answered"
      BY <2>1 DEF CompleteTurn, CompleteExecution
    <3>2. turn[t].continuity # "USABLE"
      BY <2>1, <3>1 DEF Hanging
    <3>3. broken \in [Runs -> BOOLEAN]
      BY <1>1 DEF WorkerInv, ConversationTypes, AttemptTypes
    <3>4. QED
      BY <1>1, <2>1, <3>2, <3>3 DEF CompleteTurn
  <2>2. outcome[f] \notin TerminalOutcomes
    BY <1>2 DEF TerminalOutcomes
  <2>3. QED
    BY <1>1, <1>2, <1>4, <2>1, <2>2, TerminalStep
<1>5. CASE outcome'[f] = "RUNNING"
  <2> SUFFICES ASSUME NEW u \in Threads, task'[u].pc # "idle", task'[u].exec = f, Owns(u)'
               PROVE  task'[u].pc = "waiting" \/ (task'[u].pc = "answered" /\ turn'[u].continuity # "USABLE")
    BY <1>5 DEF Hanging
  <2>1. CASE UNCHANGED <<task[u], turn[u]>>
    <3>1. Owns(u)
      BY <1>2, <1>3, <2>1 DEF Owns
    <3>2. QED
      BY <2>1, <3>1 DEF Hanging
  <2>2. ASSUME NEW e \in Executions, ClaimTurn(u, e)
        PROVE  FALSE
    <3>1. outcome[e] = "PENDING" /\ task'[u].exec = e
      BY <1>1, <2>2 DEF ClaimTurn, Claim, Eligible, TypeOK
    <3>2. QED
      BY <1>2, <3>1
  <2>3. CASE TurnStep(u) \/ TargetCall(u)
    <3>1. /\ task[u].pc \notin {"idle", "answered"} /\ ClaimKept(u)
          /\ task[u].pc = "waiting" => task'[u].pc = "answered"
      BY <1>1, <2>3, TaskMoves
    <3>2. task[u].exec = f /\ Owns(u)
      BY <1>2, <1>3, <3>1 DEF ClaimKept, Owns
    <3>3. task[u].pc = "waiting" /\ task'[u].pc = "answered"
      BY <3>1, <3>2 DEF Hanging
    <3>4. ~ \E m \in wire : \E reply : TurnAnswered(u, m, reply) /\ m.stage = "accepted"
      BY <3>2 DEF TurnAnswered
    <3>5. QED
      BY <1>1, <3>3, <3>4, HeardStep
  <2>4. QED
    BY <1>1, <2>1, <2>2, <2>3, ThreadMoves
<1>6. QED
  BY <1>1, <1>3, <1>4, <1>5 DEF TypeOK


\* How a session of the target moves: it is opened, counts an accepted turn,
\* or is lost.
LEMMA SessionMovesOn ==
  ASSUME TalkInv, [TargetNext]_composedVars, NEW k \in DOMAIN sessions'
  PROVE  \/ k \in DOMAIN sessions /\ sessions'[k] = sessions[k]
         \/ sessions'[k] = [next |-> 1, usable |-> TRUE]
         \/ \E m \in wire :
              /\ m.session = k /\ Accepts(m)
              /\ k \in DOMAIN sessions /\ sessions'[k].next = m.ordinal + 1 /\ sessions'[k].usable
         \/ \E m \in wire :
              /\ m.session = k /\ m.stage = "losing" /\ UNCHANGED allVars
              /\ k \in DOMAIN sessions /\ sessions'[k].next = sessions[k].next
              /\ wire' \subseteq (wire \ {m}) \cup {At(m, "refused")}
<1> DEFINE Goal == \/ k \in DOMAIN sessions /\ sessions'[k] = sessions[k]
                   \/ sessions'[k] = [next |-> 1, usable |-> TRUE]
                   \/ \E m \in wire :
                        /\ m.session = k /\ Accepts(m)
                        /\ k \in DOMAIN sessions /\ sessions'[k].next = m.ordinal + 1 /\ sessions'[k].usable
                   \/ \E m \in wire :
                        /\ m.session = k /\ m.stage = "losing" /\ UNCHANGED allVars
                        /\ k \in DOMAIN sessions /\ sessions'[k].next = sessions[k].next
                        /\ wire' \subseteq (wire \ {m}) \cup {At(m, "refused")}
<1>1. SessionsOK /\ WireInv
  BY DEF TalkInv, TargetInv
<1>2. CASE UNCHANGED sessions
  BY <1>2
<1>3. ASSUME NEW r, NEW sid, OpenSession(r, sid)
      PROVE  Goal
  BY <1>3 DEF OpenSession
<1>4. ASSUME NEW t \in Threads, Exchange(t)
      PROVE  Goal
  BY <1>2, <1>3, <1>4
  DEF Exchange, OpenAnswered, OpenOrphaned, OpenRefused, SendTurn, TurnAnswered, TurnUnheard,
      CloseAnswered, targetVars
<1>5. ASSUME NEW m \in wire, AcceptTurn(m)
      PROVE  Goal
  <2>1. Accepts(m) /\ sessions' = Counted(m) /\ m.session \in DOMAIN sessions
    BY <1>5 DEF AcceptTurn, Accepts
  <2>2. CASE k = m.session
    BY <1>1, <2>1, <2>2, CountedStep
  <2>3. CASE k # m.session
    BY <1>1, <2>1, <2>3 DEF Counted, SessionsOK
  <2>4. QED
    BY <2>2, <2>3
<1>6. ASSUME NEW m \in wire, LoseSession(m), UNCHANGED allVars
      PROVE  Goal
  <2>1. m.stage = "losing" /\ sessions' = [sessions EXCEPT ![m.session].usable = FALSE]
        /\ wire' \subseteq (wire \ {m}) \cup {At(m, "refused")}
    BY <1>6 DEF LoseSession, Reply
  <2>2. k \in DOMAIN sessions
    BY <1>1, <2>1 DEF SessionsOK
  <2>3. CASE k = m.session
    <3>1. sessions'[k].next = sessions[k].next
      <4>1. sessions'[k] = [sessions[k] EXCEPT !.usable = FALSE] /\ sessions[k] \in SessionRecords
        BY <1>1, <2>1, <2>2, <2>3 DEF SessionsOK
      <4>2. QED
        BY <4>1 DEF SessionRecords
    <3>2. QED
      BY <1>6, <2>1, <2>2, <2>3, <3>1
  <2>4. CASE k # m.session
    BY <1>1, <2>1, <2>2, <2>4 DEF SessionsOK
  <2>5. QED
    BY <2>3, <2>4
<1>7. QED
  BY <1>2, <1>4, <1>5, <1>6 DEF TargetNext, TargetAlone, RefuseTurn, targetVars, composedVars

\* A session counts the turns that were sent.
CountInv ==
  \A k \in DOMAIN sessions : sessions[k].next # 1 =>
    \E f \in Executions :
      RunOf[f] = k[1] /\ requests[f] # 0 /\ sessions[k].next = Ordinal[f] + 1

LEMMA CountInvStep ==
  ASSUME TalkInv, CountInv, [TargetNext]_composedVars
  PROVE  CountInv'
<1> SUFFICES ASSUME NEW k \in DOMAIN sessions', sessions'[k].next # 1
             PROVE  \E f \in Executions :
                      RunOf[f] = k[1] /\ requests'[f] # 0 /\ sessions'[k].next = Ordinal[f] + 1
  BY DEF CountInv
<1>1. \A f \in Executions : requests[f] # 0 => requests'[f] # 0
  BY TargetStep, RequestsStay DEF TalkInv, TargetInv
<1>2. CASE k \in DOMAIN sessions /\ sessions'[k].next = sessions[k].next
  BY <1>1, <1>2 DEF CountInv
<1>3. ASSUME NEW m \in wire, m.session = k, sessions'[k].next = m.ordinal + 1
      PROVE  \E f \in Executions :
               RunOf[f] = k[1] /\ requests'[f] # 0 /\ sessions'[k].next = Ordinal[f] + 1
  <2>1. /\ m.exec \in Executions /\ m.session = SessionOf(RunOf[m.exec])
        /\ m.ordinal = Ordinal[m.exec] /\ requests[m.exec] # 0
    BY DEF TalkInv, WireInv, Messages
  <2>2. RunOf[m.exec] = k[1]
    BY <1>3, <2>1 DEF SessionOf
  <2>3. QED
    BY <1>1, <1>3, <2>1, <2>2
<1>4. QED
  BY <1>2, <1>3, SessionMovesOn

\* A turn that may still lose its session, and a session that is lost, have
\* left the conversation in doubt, or will when the owner of the turn ends it.
Missing(f) ==
  Hanging(f) /\ requests[f] # 0 /\ \A m \in wire : m.exec = f => m.stage = "refused"

DoubtInv ==
  /\ \A m \in wire : m.stage \in {"sent", "losing"} => broken[RunOf[m.exec]] \/ Hanging(m.exec)
  /\ \A k \in DOMAIN sessions : ~sessions[k].usable =>
       broken[k[1]] \/ \E f \in Executions : RunOf[f] = k[1] /\ Missing(f)

LEMMA MissingStep ==
  ASSUME TalkInv, [TargetNext]_composedVars, NEW f \in Executions, Missing(f)
  PROVE  Missing(f)' \/ broken'[RunOf[f]]
<1>1. WorkerInv /\ WireInv
  BY DEF TalkInv, TargetInv
<1>2. Hanging(f)' \/ broken'[RunOf[f]]
  BY HangingStep DEF Missing
<1>3. requests'[f] # 0
  BY <1>1, TargetStep, RequestsStay DEF Missing
<1>4. ASSUME NEW n \in wire', n.exec = f
      PROVE  n.stage = "refused"
  <2>1. CASE n \in wire
    BY <1>4, <2>1 DEF Missing
  <2>2. ASSUME NEW t \in Threads, SendTurn(t), n = RequestOf(t)
        PROVE  FALSE
    BY <1>1, <1>4, <2>2, RequestFields DEF Missing
  <2>3. ASSUME NEW m \in wire, NEW s \in {"accepted", "losing", "refused"}, n = At(m, s), MovesOn(m, s)
        PROVE  n.stage = "refused"
    <3>1. m \in Messages
      BY <1>1 DEF WireInv
    <3>2. m.exec = f /\ n.stage = s
      BY <1>4, <2>3, <3>1, AtFields
    <3>3. m.stage = "refused"
      BY <3>2 DEF Missing
    <3>4. QED
      BY <2>3, <3>2, <3>3 DEF MovesOn
  <2>4. QED
    BY <2>1, <2>2, <2>3, WireMoves
<1>5. QED
  BY <1>2, <1>3, <1>4 DEF Missing

\* The owner of a turn that is on its way waits for it.
LEMMA SentHangs ==
  ASSUME TalkInv, BehindInv, NEW t \in Threads, SendTurn(t), [TargetNext]_composedVars
  PROVE  broken'[RunOf[task[t].exec]] \/ (\A e \in Executions : e = task[t].exec => Hanging(e)')
<1>1. /\ WorkerInv /\ WorkerInv' /\ TypeOK /\ FencingTokens /\ OwnedInv
      /\ task[t].pc = "started" /\ task[t].exec \in Executions
  BY RequestFields, TargetStep, WorkerInvStep DEF TalkInv, TargetInv, WorkerInv, ConversationTypes, EndInv
<1>2. PICK e \in Executions : e = task[t].exec
  BY <1>1
<1>3. RunOf[e] \in Runs
  BY ManifestAssumption
<1>4. UNCHANGED <<outcome, claim>> /\ broken' = broken
  BY DEF SendTurn, SubmitTurn, SubmitQuestion, rowVars
<1>5. OthersKept(t) /\ task'[t].pc = "waiting"
  BY <1>1, GoToStep DEF SendTurn, SubmitTurn, SubmitQuestion, Pcs
<1>6. CASE broken[RunOf[e]]
  BY <1>2, <1>4, <1>6
<1>7. CASE Owns(t)
  <2>1. outcome'[e] = "RUNNING"
    BY <1>2, <1>4, <1>7 DEF Owns
  <2>2. ASSUME NEW u \in Threads, task'[u].pc # "idle", task'[u].exec = e, Owns(u)', u # t
        PROVE  FALSE
    <3>1. task'[u] = task[u]
      BY <1>5, <2>2 DEF OthersKept
    <3>2. Owns(u) /\ task[u].pc # "idle" /\ task[u].exec = e
      BY <1>4, <2>2, <3>1 DEF Owns
    <3>3. QED
      BY <1>1, <1>2, <1>7, <2>2, <3>2 DEF FencingTokens, Owns
  <2>3. Hanging(e)'
    BY <1>5, <2>1, <2>2 DEF Hanging
  <2>4. QED
    BY <1>2, <2>3
<1>8. QED
  BY <1>1, <1>2, <1>6, <1>7 DEF OwnedInv, PastBoundary

LEMMA DoubtInvStep ==
  ASSUME TalkInv, BehindInv, DoubtInv, [TargetNext]_composedVars
  PROVE  DoubtInv'
<1>1. /\ WorkerInv /\ WireInv /\ WireInv' /\ [ConversationNext]_allVars
      /\ \A e \in Executions : RunOf[e] \in Runs
  BY TargetStep, TalkInvStep, ManifestAssumption DEF TalkInv, TargetInv
<1>2. \A r \in Runs : broken[r] => broken'[r]
  BY <1>1, AttemptNeverGoesBack
<1>3. ASSUME NEW m \in wire, m.stage \in {"sent", "losing"}
      PROVE  /\ m \in Messages /\ m.exec \in Executions
             /\ broken'[RunOf[m.exec]] \/ Hanging(m.exec)'
  <2>1. m \in Messages /\ m.exec \in Executions /\ requests[m.exec] # 0
    BY <1>1 DEF WireInv, Messages
  <2>2. \A n \in wire : n.exec = m.exec => n.stage # "accepted"
    BY <1>1, <1>3 DEF WireInv
  <2>3. CASE broken[RunOf[m.exec]]
    BY <1>1, <1>2, <2>1, <2>3
  <2>4. CASE Hanging(m.exec)
    BY <2>1, <2>2, <2>4, HangingStep
  <2>5. QED
    BY <1>3, <2>1, <2>3, <2>4 DEF DoubtInv
<1>4. ASSUME NEW n \in wire', n.stage \in {"sent", "losing"}
      PROVE  broken'[RunOf[n.exec]] \/ Hanging(n.exec)'
  <2>1. CASE n \in wire
    BY <1>3, <1>4, <2>1
  <2>2. ASSUME NEW t \in Threads, SendTurn(t), n = RequestOf(t)
        PROVE  broken'[RunOf[n.exec]] \/ Hanging(n.exec)'
    <3>1. n.exec = task[t].exec /\ task[t].exec \in Executions
      BY <1>1, <2>2, RequestFields
    <3>2. QED
      BY <2>2, <3>1, SentHangs
  <2>3. ASSUME NEW m \in wire, NEW s \in {"accepted", "losing", "refused"}, n = At(m, s), MovesOn(m, s)
        PROVE  broken'[RunOf[n.exec]] \/ Hanging(n.exec)'
    <3>1. m \in Messages
      BY <1>1 DEF WireInv
    <3>2. n.exec = m.exec /\ n.stage = s
      BY <2>3, <3>1, AtFields
    <3>3. m.stage = "sent"
      BY <1>4, <2>3, <3>2 DEF MovesOn
    <3>4. QED
      BY <1>3, <3>2, <3>3
  <2>4. QED
    BY <2>1, <2>2, <2>3, WireMoves
<1>5. ASSUME NEW k \in DOMAIN sessions', ~sessions'[k].usable
      PROVE  broken'[k[1]] \/ \E f \in Executions : RunOf[f] = k[1] /\ Missing(f)'
  <2>1. CASE k \in DOMAIN sessions /\ sessions'[k] = sessions[k]
    <3>1. broken[k[1]] \/ \E f \in Executions : RunOf[f] = k[1] /\ Missing(f)
      BY <1>5, <2>1 DEF DoubtInv
    <3>2. broken[k[1]] => broken'[k[1]]
      BY <1>2, <2>1 DEF TalkInv, TargetInv, SessionsOK
    <3>3. QED
      BY <3>1, <3>2, MissingStep
  <2>2. ASSUME NEW m \in wire, m.session = k, m.stage = "losing", UNCHANGED allVars,
               wire' \subseteq (wire \ {m}) \cup {At(m, "refused")}
        PROVE  broken'[k[1]] \/ \E f \in Executions : RunOf[f] = k[1] /\ Missing(f)'
    <3>1. m \in Messages /\ m.exec \in Executions /\ m.session = SessionOf(RunOf[m.exec]) /\ requests[m.exec] # 0
      BY <1>1 DEF WireInv, Messages
    <3>2. RunOf[m.exec] = k[1]
      BY <2>2, <3>1 DEF SessionOf
    <3>3. broken'[RunOf[m.exec]] \/ Hanging(m.exec)'
      BY <1>3, <2>2
    <3>4. requests'[m.exec] # 0
      BY <2>2, <3>1 DEF allVars, vars
    <3>5. \A n \in wire' : n.exec = m.exec => n.stage = "refused"
      <4>1. \A n \in wire : n.exec = m.exec => n = m
        BY <1>1 DEF WireInv
      <4>2. At(m, "refused").stage = "refused"
        BY <3>1, AtFields
      <4>3. QED
        BY <2>2, <4>1, <4>2
    <3>6. QED
      BY <3>1, <3>2, <3>3, <3>4, <3>5 DEF Missing
  <2>3. QED
    BY <1>5, <2>1, <2>2, SessionMovesOn
<1>6. QED
  BY <1>4, <1>5 DEF DoubtInv


\* What the coordinator goes on from: every turn it sent was counted up to the
\* one just answered, and no later one; and a session that is lost by then had
\* left the conversation in doubt before.
BeliefInv == TalkInv /\ BehindInv /\ CountInv /\ DoubtInv

LEMMA BeliefInvInit == TargetInit => BeliefInv
BY TalkInvInit, IdleTaskIsIdle
DEF TargetInit, ConversationInit, Init, BeliefInv, BehindInv, CountInv, DoubtInv, PastBoundary

LEMMA BeliefInvStep ==
  ASSUME BeliefInv, [TargetNext]_composedVars
  PROVE  BeliefInv'
BY TalkInvStep, TargetStep, BehindInvStep, CountInvStep, DoubtInvStep
DEF BeliefInv, TalkInv, TargetInv, ConversationInv

\* The reply to an accepted turn that somebody waits for.
LEMMA AcceptedReply ==
  ASSUME BeliefInv, NEW m \in wire, m.stage = "accepted", NEW t \in Threads,
         task[t].pc = "waiting", m.exec = task[t].exec
  PROVE  LET e == task[t].exec
             k == SessionOf(RunOf[e])
         IN  /\ k \in DOMAIN sessions
             /\ sessions[k].next = Ordinal[e] + 1
             /\ sessions[k].usable \/ broken[RunOf[e]]
<1> DEFINE e == task[t].exec
           k == SessionOf(RunOf[e])
<1>1. WireInv /\ SessionsOK /\ OrderInv /\ BehindInv /\ CountInv /\ DoubtInv /\ e \in Executions
  BY DEF BeliefInv, TalkInv, TargetInv, ConversationInv, WireInv, Messages
<1>2. k \in DOMAIN sessions /\ sessions[k].next > Ordinal[e] /\ requests[e] # 0
  BY <1>1 DEF WireInv, InContext
<1>3. k[1] = RunOf[e] /\ sessions[k].next \in Nat /\ \A f \in Executions : Ordinal[f] \in Nat \ {0}
  BY <1>1, <1>2, OrdinalAssumption DEF SessionOf, SessionsOK, SessionRecords
<1>4. \A f \in Executions : Later(e, f) => requests[f] = 0
  BY <1>1 DEF BehindInv, PastBoundary
<1> HIDE DEF k, e
<1>5. sessions[k].next = Ordinal[e] + 1
  <2>1. PICK f \in Executions : RunOf[f] = RunOf[e] /\ requests[f] # 0 /\ sessions[k].next = Ordinal[f] + 1
    BY <1>1, <1>2, <1>3 DEF CountInv
  <2>2. ~(Ordinal[f] > Ordinal[e])
    BY <1>4, <2>1 DEF Later
  <2>3. QED
    BY <1>1, <1>2, <1>3, <2>1, <2>2
<1>6. ASSUME ~sessions[k].usable
      PROVE  broken[RunOf[e]]
  <2> SUFFICES ASSUME NEW f \in Executions, RunOf[f] = RunOf[e], Missing(f)
               PROVE  FALSE
    BY <1>1, <1>2, <1>3, <1>6 DEF DoubtInv
  <2>1. outcome[f] = "RUNNING" /\ requests[f] # 0 /\ m.exec # f
    BY DEF Missing, Hanging
  <2>2. f # e
    BY <2>1 DEF e
  <2>3. Later(e, f) \/ Later(f, e)
    <3>1. Ordinal[f] # Ordinal[e]
      BY <1>1, <2>2, OrdinalAssumption
    <3>2. QED
      BY <1>1, <1>3, <3>1 DEF Later
  <2>4. Later(f, e) => requests[e] = 0
    BY <1>1, <2>1 DEF OrderInv
  <2>5. QED
    BY <1>2, <1>4, <2>1, <2>3, <2>4
<1>7. QED
  BY <1>2, <1>5, <1>6 DEF k, e

\* What the coordinator goes on from is true of the target, also when the
\* session changes while the reply is on its way: the session exists, expects
\* exactly the next turn, and is usable unless an earlier turn had left the
\* conversation in doubt before this one was answered.
THEOREM ContinuityTrue == TargetSpec => ContinuityIsTrue
<1>1. ASSUME BeliefInv, [TargetNext]_composedVars, NEW t \in Threads,
             task[t].pc = "waiting", task'[t].pc = "answered", turn'[t].continuity = "USABLE"
      PROVE  LET e == task[t].exec
                 k == SessionOf(RunOf[e])
             IN  /\ k \in DOMAIN sessions'
                 /\ sessions'[k].next = Ordinal[e] + 1
                 /\ sessions'[k].usable \/ broken[RunOf[e]]
  <2>1. TypeOK /\ TurnOK
    BY <1>1 DEF BeliefInv, TalkInv, TargetInv, WorkerInv, ConversationTypes
  <2>2. PICK m \in wire : (\E reply : TurnAnswered(t, m, reply)) /\ m.stage = "accepted"
    BY <1>1, <2>1, HeardStep
  <2>3. m.exec = task[t].exec /\ sessions' = sessions
    BY <2>2 DEF TurnAnswered
  <2>4. QED
    BY <1>1, <2>2, <2>3, AcceptedReply
<1>2. BeliefInv /\ [TargetNext]_composedVars =>
        [\A t \in Threads :
           LET e == task[t].exec
               k == SessionOf(RunOf[e])
           IN  ( /\ task[t].pc = "waiting" /\ task'[t].pc = "answered"
                 /\ turn'[t].continuity = "USABLE" ) =>
               /\ k \in DOMAIN sessions'
               /\ sessions'[k].next = Ordinal[e] + 1
               /\ sessions'[k].usable \/ broken[RunOf[e]]]_composedVars
  BY <1>1
<1>3. QED
  BY <1>2, BeliefInvInit, BeliefInvStep, PTL DEF TargetSpec, ContinuityIsTrue

=============================================================================
