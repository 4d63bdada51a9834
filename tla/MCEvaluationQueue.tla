-------------------------- MODULE MCEvaluationQueue --------------------------
(***************************************************************************)
(* An instance of EvaluationQueue: two threads of one worker and a request *)
(* that evaluates inline in a web process.                                 *)
(***************************************************************************)
EXTENDS EvaluationQueue

CONSTANTS worker, web

MCProcessOf == [t \in Threads |-> IF t \in InlineThreads THEN web ELSE worker]

=============================================================================
