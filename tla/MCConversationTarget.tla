------------------------ MODULE MCConversationTarget ------------------------
(***************************************************************************)
(* Instance of ConversationTarget: one conversation of the turns e1, e2    *)
(* and e3, worked on by two threads of two processes.                      *)
(***************************************************************************)
EXTENDS ConversationTarget, TLC

CONSTANTS e1, e2, r1, p2, t2

MCRunOf == [e \in Executions |-> r1]
MCRevisionOf == [r \in Runs |-> "v1"]
MCOne == [r \in Runs |-> 1]
MCTwo == [r \in Runs |-> 2]
MCOrdinal == [e \in Executions |-> IF e = e1 THEN 1 ELSE IF e = e2 THEN 2 ELSE 3]
MCProcessOf == [t \in Threads |-> IF t = t2 THEN p2 ELSE CHOOSE p \in Processes : p # p2]

\* The permutations that leave each thread with its process.
MCSymmetry == {f \in Permutations(Threads \cup Processes) :
                 \A t \in Threads : f[t] \in Threads /\ ProcessOf[f[t]] = f[ProcessOf[t]]}

\* The classification of every reply: the adapters agree but for the timeout of
\* a connection attempt, a question and a turn are answered by the same replies,
\* and the status that tells of a lost session is any other error to a question.
ASSUME ReplyClasses ==
  \A reply \in Replies :
    /\ QuestionError("fake-http", reply) # QuestionError("opssteward", reply) =>
         reply.kind = "connect_timeout"
    /\ QuestionError("fake-http", reply) = "NONE" <=> TurnError(reply) = "NONE"
    /\ TurnError(reply) = "SESSION_FAILED" => QuestionError("fake-http", reply) = "HTTP_ERROR"
    /\ MetadataState(reply) \in {"AVAILABLE", "MALFORMED"} => Accepted(reply)

=============================================================================
