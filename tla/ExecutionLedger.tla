-------------------------- MODULE ExecutionLedger --------------------------
(***************************************************************************)
(* What the durable worker promises about every planned Execution, with no *)
(* worker, claim, lease or clock in sight: a question is asked of the      *)
(* target at most once, never for an observation that may go back to the   *)
(* queue; a terminal observation is final; and a run gets its verdict with *)
(* the last of its observations.  WorkerClaims implements it.              *)
(***************************************************************************)
EXTENDS Naturals

CONSTANTS Executions, Runs, RunOf

VARIABLES
  ledger,    \* [Executions -> status]
  asked,     \* [Executions -> number of question requests sent]
  verdict    \* [Runs -> "OPEN", "COMPLETED" or "COMPLETED_WITH_ERRORS"]

ledgerVars == <<ledger, asked, verdict>>

Observations == {"SUCCESS", "ERROR", "TIMEOUT"}

Verdict(l, r) ==
  LET members == {e \in Executions : RunOf[e] = r}
  IN  IF \E e \in members : l[e] \notin Observations THEN "OPEN"
      ELSE IF \A e \in members : l[e] = "SUCCESS" THEN "COMPLETED"
      ELSE "COMPLETED_WITH_ERRORS"

\* The verdicts are those of the new ledger.
Judge == verdict' = [r \in Runs |-> Verdict(ledger', r)]

\* Work interrupted before this history began may or may not have been sent.
LedgerInit ==
  /\ ledger \in [Executions -> {"QUEUED", "SENDING"}]
  /\ asked \in [Executions -> {0, 1}]
  /\ \A e \in Executions : ledger[e] = "QUEUED" => asked[e] = 0
  /\ verdict = [r \in Runs |-> Verdict(ledger, r)]

Take(e) ==
  /\ ledger[e] = "QUEUED"
  /\ ledger' = [ledger EXCEPT ![e] = "OWNED"]
  /\ Judge
  /\ UNCHANGED asked

BeginSending(e) ==
  /\ ledger[e] = "OWNED"
  /\ ledger' = [ledger EXCEPT ![e] = "SENDING"]
  /\ Judge
  /\ UNCHANGED asked

\* The request may leave after the observation was already closed as
\* ambiguous, but never before the boundary and never twice.
Ask(e) ==
  /\ ledger[e] \notin {"QUEUED", "OWNED"}
  /\ asked[e] = 0
  /\ asked' = [asked EXCEPT ![e] = 1]
  /\ UNCHANGED <<ledger, verdict>>

\* An observation made by the owner: an answer or a timeout needs a request.
Observe(e, result) ==
  /\ ledger[e] \in {"OWNED", "SENDING"}
  /\ result = "ERROR" \/ (ledger[e] = "SENDING" /\ asked[e] = 1)
  /\ ledger' = [ledger EXCEPT ![e] = result]
  /\ Judge
  /\ UNCHANGED asked

\* Recovery of work whose owner is gone.
Recover(S) ==
  /\ \A e \in S : ledger[e] \in {"OWNED", "SENDING"}
  /\ ledger' = [e \in Executions |->
       IF e \notin S THEN ledger[e] ELSE IF ledger[e] = "OWNED" THEN "QUEUED" ELSE "ERROR"]
  /\ Judge
  /\ UNCHANGED asked

LedgerNext ==
  \/ \E e \in Executions : Take(e) \/ BeginSending(e) \/ Ask(e)
  \/ \E e \in Executions, result \in Observations : Observe(e, result)
  \/ \E S \in SUBSET Executions : Recover(S)

LedgerSpec == LedgerInit /\ [][LedgerNext]_ledgerVars

=============================================================================
