---------------------------- MODULE TargetAdapter ----------------------------
(***************************************************************************)
(* What the adapters make of a target's reply.  The worker never sees the  *)
(* wire: an adapter call returns, or raises one normalized error class     *)
(* and, for a conversation, a signal of whether the session can still be   *)
(* used.  A reply is abstracted to what that classification reads: how the *)
(* call ended, the HTTP status, the kind of body and the continuity signal *)
(* in it.  Nothing here has state.                                         *)
(***************************************************************************)
EXTENDS Naturals

Continuities == {"USABLE", "UNUSABLE", "UNKNOWN"}

Kinds == {"http", "timeout", "connect_timeout", "refused"}
Statuses == {200, 201, 204, 400, 401, 403, 404, 409, 410, 501, 502, 503}

\* "envelope": the complete JSON object the call expects; "json": another JSON
\* object; "broken": not JSON; "oversize": more than the capture limit.
Bodies == {"envelope", "json", "broken", "oversize"}

Replies == [kind : Kinds, status : Statuses, body : Bodies, signal : Continuities \cup {"none"}]

Http(status, body, signal) == [kind |-> "http", status |-> status, body |-> body, signal |-> signal]
NoReply(kind) == [kind |-> kind, status |-> 503, body |-> "broken", signal |-> "none"]

Accepted(reply) == reply.kind = "http" /\ reply.status \in 200..299
Rejected(reply) == reply.kind = "http" /\ ~Accepted(reply)

\* TARGET_TIMEOUT becomes an Execution TIMEOUT, any other class an ERROR.
ResultOf(error) ==
  IF error = "NONE" THEN "SUCCESS" ELSE IF error = "TARGET_TIMEOUT" THEN "TIMEOUT" ELSE "ERROR"

\* The wrapped timeout of a connection attempt is unwrapped by the fake-http
\* adapter only; the OpsSteward one takes it for a connection error.
TimesOut(adapter, reply) ==
  reply.kind = "timeout" \/ (reply.kind = "connect_timeout" /\ adapter = "fake-http")

\* submit_question of both adapters: the error class, or NONE for an answer.
QuestionError(adapter, reply) ==
  IF TimesOut(adapter, reply) THEN "TARGET_TIMEOUT"
  ELSE IF reply.kind # "http" THEN "CONNECTION_FAILED"
  ELSE IF Rejected(reply)
       THEN IF reply.status \in {401, 403} THEN "AUTHENTICATION_FAILED" ELSE "HTTP_ERROR"
  ELSE IF reply.body = "envelope" THEN "NONE" ELSE "MALFORMED_RESPONSE"

\* Variant: a failure without a signal is taken to have spared the session.
TrustingSignal(reply) ==
  IF reply.body \in {"envelope", "json"} /\ reply.signal \in Continuities
  THEN reply.signal ELSE "USABLE"

\* The continuity an error body states; UNKNOWN when it states none.
Signal(reply) ==
  IF reply.body \in {"envelope", "json"} /\ reply.signal \in Continuities
  THEN reply.signal ELSE "UNKNOWN"

\* submit_conversation_turn: a lost session has its own class, rejected
\* credentials have not.
TurnError(reply) ==
  IF TimesOut("fake-http", reply) THEN "TARGET_TIMEOUT"
  ELSE IF reply.kind = "refused" THEN "CONNECTION_FAILED"
  ELSE IF Rejected(reply)
       THEN IF reply.status \in {404, 409, 410} THEN "SESSION_FAILED" ELSE "HTTP_ERROR"
  ELSE IF reply.body = "envelope" THEN "NONE" ELSE "MALFORMED_RESPONSE"

\* Only an answer or the target's own word keeps the session usable.
TurnContinuity(reply) ==
  IF TurnError(reply) = "NONE" THEN "USABLE"
  ELSE IF Rejected(reply) THEN Signal(reply)
  ELSE "UNKNOWN"

TurnObservation(reply) ==
  [result |-> ResultOf(TurnError(reply)), continuity |-> TurnContinuity(reply)]

\* open_conversation: any reply but a session identity fails the opening.
Opens(reply) == Accepted(reply) /\ reply.body = "envelope"

OpenContinuity(reply) ==
  IF Rejected(reply) THEN Signal(reply)
  ELSE IF reply.kind = "http" /\ reply.body = "oversize" THEN "UNKNOWN"
  ELSE "UNUSABLE"

\* close_conversation
Closes(reply) == reply.kind = "http" /\ reply.status \in {200, 204} /\ reply.body # "oversize"

\* runtime_metadata is advisory: every reply becomes a recorded state, except
\* one over the capture limit, whose AdapterFailure ends the Execution.
MetadataState(reply) ==
  CASE ~Accepted(reply) -> "UNAVAILABLE"
    [] Accepted(reply) /\ reply.body = "envelope" -> "AVAILABLE"
    [] Accepted(reply) /\ reply.body \in {"json", "broken"} -> "MALFORMED"
    [] Accepted(reply) /\ reply.body = "oversize" -> "RAISES"

=============================================================================
