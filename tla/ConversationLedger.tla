------------------------- MODULE ConversationLedger -------------------------
(***************************************************************************)
(* What the worker promises about a conversation, with no worker, claim,   *)
(* lease or finishing transaction in sight: ExecutionLedger, and that the  *)
(* turns of a conversation are taken and asked one after the other, over   *)
(* one session that is opened before any of them is asked; that turns      *)
(* given up for want of a session are never asked; and that a conversation *)
(* is over, for good, only after its last turn.  ConversationWorker        *)
(* implements it.                                                          *)
(***************************************************************************)
EXTENDS ExecutionLedger

CONSTANT Ordinal

VARIABLES
  blocked,   \* the turns given up before anybody took them for good
  opened,    \* [Runs -> number of sessions opened at the target]
  over       \* [Runs -> BOOLEAN], the conversation is completed

conversationLedgerVars == <<ledgerVars, blocked, opened, over>>

TurnsOf(r) == {e \in Executions : RunOf[e] = r}
Before(e) == {f \in TurnsOf(RunOf[e]) : Ordinal[f] < Ordinal[e]}
After(e) == {f \in TurnsOf(RunOf[e]) : Ordinal[f] > Ordinal[e]}
Queued(R) == {e \in Executions : RunOf[e] \in R /\ ledger[e] = "QUEUED"}

Observed(e) == ledger[e] \in Observations

ConversationLedgerInit ==
  /\ LedgerInit
  /\ \A e \in Executions : ledger[e] = "QUEUED"
  /\ blocked = {}
  /\ opened = [r \in Runs |-> 0]
  /\ over = [r \in Runs |-> FALSE]

TakeTurn(e) ==
  /\ Take(e)
  /\ \A f \in Before(e) : Observed(f)
  /\ UNCHANGED <<blocked, opened, over>>

BeginTurn(e) == BeginSending(e) /\ UNCHANGED <<blocked, opened, over>>

\* By the first turn, and before any turn of the conversation is asked.
OpenSession(e) ==
  /\ opened[RunOf[e]] = 0
  /\ ledger[e] \notin {"QUEUED", "OWNED"} /\ e \notin blocked
  /\ Before(e) = {}
  /\ \A f \in TurnsOf(RunOf[e]) : asked[f] = 0
  /\ opened' = [opened EXCEPT ![RunOf[e]] = 1]
  /\ UNCHANGED <<ledgerVars, blocked, over>>

AskTurn(e) ==
  /\ Ask(e)
  /\ e \notin blocked
  /\ opened[RunOf[e]] = 1
  /\ \A f \in Before(e) : Observed(f)
  /\ \A f \in After(e) : asked[f] = 0
  /\ UNCHANGED <<blocked, opened, over>>

ObserveTurn(e, result) == Observe(e, result) /\ UNCHANGED <<blocked, opened, over>>

\* The turns in S lose their owner, the ones that may have been asked end the
\* conversations R they belong to: what is still queued there is given up.
EndTurns(S, R) ==
  /\ UNCHANGED <<asked, opened>>
  /\ ledger' = [e \in Executions |->
       IF e \in S THEN IF ledger[e] = "OWNED" THEN "QUEUED" ELSE "ERROR"
       ELSE IF e \in Queued(R) THEN "ERROR" ELSE ledger[e]]
  /\ Judge
  /\ blocked' = blocked \cup Queued(R)
  /\ over' = [r \in Runs |-> over[r] \/ (r \in R /\ \A e \in TurnsOf(r) : ledger'[e] \in Observations)]

\* The conversations of the turns of S that may have been asked.
Sent(S) == {RunOf[e] : e \in {f \in S : ledger[f] = "SENDING"}}

RecoverTurns(S) ==
  /\ \A e \in S : ledger[e] \in {"OWNED", "SENDING"}
  /\ EndTurns(S, Sent(S))

\* A worker gives up a conversation, also one in the name of a turn it lost.
GiveUp(r) == verdict[r] = "OPEN" /\ EndTurns({}, {r})

CloseConversation(r) ==
  /\ \A e \in TurnsOf(r) : Observed(e)
  /\ over' = [over EXCEPT ![r] = TRUE]
  /\ UNCHANGED <<ledgerVars, blocked, opened>>

ConversationLedgerNext ==
  \/ \E S \in SUBSET Executions : RecoverTurns(S)
  \/ \E e \in Executions : TakeTurn(e) \/ BeginTurn(e) \/ OpenSession(e) \/ AskTurn(e)
  \/ \E e \in Executions, result \in Observations : ObserveTurn(e, result)
  \/ \E r \in Runs : GiveUp(r) \/ CloseConversation(r)

ConversationLedgerSpec == ConversationLedgerInit /\ [][ConversationLedgerNext]_conversationLedgerVars

=============================================================================
