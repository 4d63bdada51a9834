------------------------ MODULE MCConversationWorker ------------------------
(***************************************************************************)
(* Instances of ConversationWorker: one conversation of the turns e1, e2   *)
(* and e3, worked on by two threads of one process or of two.              *)
(***************************************************************************)
EXTENDS ConversationWorker

CONSTANTS e1, e2, r1, p2, t2

MCRunOf == [e \in Executions |-> r1]
MCRevisionOf == [r \in Runs |-> "v1"]
MCOne == [r \in Runs |-> 1]
MCTwo == [r \in Runs |-> 2]
MCOrdinal == [e \in Executions |-> IF e = e1 THEN 1 ELSE IF e = e2 THEN 2 ELSE 3]
MCProcessOf == [t \in Threads |-> IF t = t2 THEN p2 ELSE CHOOSE p \in Processes : p # p2]

=============================================================================
