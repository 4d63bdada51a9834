-------------------------- MODULE EvaluationLedger --------------------------
(***************************************************************************)
(* What the evaluation queue promises to a reader of the results, with no  *)
(* worker, claim, lease or evaluator in sight: only answers that are final *)
(* are evaluated; every request has at most one result; and of each        *)
(* subject the current result is that of the highest request that has one. *)
(* A result that arrives after a later request's never shows: the others   *)
(* are superseded, one by one, in the order of their requests.             *)
(* EvaluationQueue implements it.                                          *)
(***************************************************************************)
EXTENDS Naturals, Sequences

CONSTANTS Executions, Kinds

VARIABLES
  final,        \* Executions whose answer will not change
  asked,        \* the subjects of the requests, in their order
  answered,     \* the requests that have a result
  current,      \* [Subjects -> the request of the current result, 0 if none]
  superseded    \* the requests whose result another one replaced

evaluationLedgerVars == <<final, asked, answered, current, superseded>>

Subjects == [execution : Executions, kind : Kinds]

EvaluationLedgerInit ==
  /\ final = {}
  /\ asked = <<>>
  /\ answered = {}
  /\ current = [s \in Subjects |-> 0]
  /\ superseded = {}

AnswerFinal(x) ==
  /\ x \notin final
  /\ final' = final \cup {x}
  /\ UNCHANGED <<asked, answered, current, superseded>>

Ask(s) ==
  /\ s.execution \in final
  /\ asked' = Append(asked, s)
  /\ UNCHANGED <<final, answered, current, superseded>>

\* The first result of a subject, or one of a later request than the current.
Show(i) ==
  /\ i > current[asked[i]]
  /\ current' = [current EXCEPT ![asked[i]] = i]
  /\ superseded' = superseded \cup ({current[asked[i]]} \ {0})

\* A result that a later request's has overtaken.
Overtaken(i) == i < current[asked[i]] /\ UNCHANGED <<current, superseded>>

Answer(i) ==
  /\ i \notin answered
  /\ answered' = answered \cup {i}
  /\ Show(i) \/ Overtaken(i)
  /\ UNCHANGED <<final, asked>>

EvaluationLedgerNext ==
  \/ \E x \in Executions : AnswerFinal(x)
  \/ \E s \in Subjects : Ask(s)
  \/ \E i \in DOMAIN asked : Answer(i)

EvaluationLedgerSpec == EvaluationLedgerInit /\ [][EvaluationLedgerNext]_evaluationLedgerVars

=============================================================================
