--------------------------- MODULE MCWorkerClaims ---------------------------
(***************************************************************************)
(* Instances of WorkerClaims.  Run r1 holds every question but e3, which   *)
(* r2 asks alone; both use the same TargetRevision and share its maximum,  *)
(* two claims or a single slot.  Every thread but t3 belongs to the first  *)
(* process, so two threads can hold claims under one worker identity.      *)
(***************************************************************************)
EXTENDS WorkerClaims

CONSTANTS e3, r1, r2, p2, t3, ParallelRuns

MCRunOf == [e \in Executions |-> IF e = e3 THEN r2 ELSE r1]
MCRevisionOf == [r \in Runs |-> "v1"]
MCActualConcurrency == [r \in Runs |-> IF r \in ParallelRuns THEN 2 ELSE 1]
MCConfiguredMax == [r \in Runs |-> 2]
MCSharedSlot == [r \in Runs |-> 1]
MCProcessOf == [t \in Threads |-> IF t = t3 THEN p2 ELSE CHOOSE p \in Processes : p # p2]

=============================================================================
