-------------------------- MODULE ConversationTarget --------------------------
(***************************************************************************)
(* The conversation worker composed with the target it talks to: the       *)
(* session the target keeps, the requests on their way to it, and its      *)
(* replies as the adapter classifies them.  What ConversationWorker leaves *)
(* to chance, how a call to the target ends, is decided here by the state  *)
(* of the target.  The target is the repository's fake target, whose wire  *)
(* contract the fake-http adapter implements.                              *)
(*                                                                         *)
(* A turn is sent, handled and answered in steps of their own: the target  *)
(* lets go of its lock before it replies, and what it does for other turns *)
(* in between may make the reply out of date.  Accepting a turn and losing *)
(* its session are two steps for the same reason.  A request whose caller  *)
(* timed out or crashed is handled as well, and its reply heard by nobody. *)
(***************************************************************************)
EXTENDS ConversationWorker

VARIABLES
  sessions,   \* FakeTargetState.sessions, by <<run, number of the opening>>
  wire        \* turns on their way to the target, at it, and their replies on the way back

targetVars == <<sessions, wire>>
composedVars == <<allVars, targetVars>>

\* The scripted ends of an accepted turn.
Modes == {"success", "recoverable_turn_error", "wrong_credential", "http_error",
          "malformed_response"}

TurnReplies ==
  [success |-> Http(200, "envelope", "none"),
   recoverable_turn_error |-> Http(503, "json", "USABLE"),
   wrong_credential |-> Http(401, "json", "UNUSABLE"),
   http_error |-> Http(503, "json", "UNKNOWN"),
   malformed_response |-> Http(200, "broken", "none")]

\* The reply to a turn that is refused, and to one that loses the session.
TurnRefused == Http(409, "json", "UNUSABLE")

\* What the caller gets when the target's reply does not reach it: nothing
\* before the deadline, no connection, or the error page of a gateway.
Unheard == {NoReply("timeout"), NoReply("refused"), Http(502, "broken", "none")}

TargetInit ==
  /\ ConversationInit
  /\ sessions = <<>>
  /\ wire = {}

-----------------------------------------------------------------------------
(* The target's side.                                                      *)

SessionOf(r) == <<r, sessionId[r]>>

\* accept_conversation_turn without the comparison of the declared order.
AcceptsAnyTurn(m) == m.session \in DOMAIN sessions /\ sessions[m.session].usable

\* The session exists, is usable, and expects the declared turn.
Accepts(m) ==
  /\ m.session \in DOMAIN sessions
  /\ sessions[m.session].usable
  /\ sessions[m.session].next = m.ordinal

Counted(m) == [sessions EXCEPT ![m.session].next = @ + 1]

At(m, stage) == [m EXCEPT !.stage = stage]

Awaited(e) == \E t \in Threads : task[t].pc = "waiting" /\ task[t].exec = e

\* The reply sets out, unless it finds its caller gone.
Reply(m, stage) ==
  wire' = (wire \ {m}) \cup {n \in {At(m, stage)} : Awaited(n.exec)}

\* An accepted turn counts whatever its end: its script has the target reply,
\* or lose the session first.  The comparison and the count are two sections
\* under the lock; no turn is sent twice, so that only the loss of the session
\* can come between them, and it may as well come after.
AcceptTurn(m) ==
  /\ m.stage = "sent" /\ Accepts(m)
  /\ Reply(m, "accepted") \/ wire' = (wire \ {m}) \cup {At(m, "losing")}
  /\ sessions' = Counted(m)

RefuseTurn(m) ==
  /\ m.stage = "sent" /\ ~Accepts(m)
  /\ Reply(m, "refused")
  /\ UNCHANGED sessions

\* Mode "session_loss": the caller is told what a refused one is.
LoseSession(m) ==
  /\ m.stage = "losing"
  /\ Reply(m, "refused")
  /\ sessions' = [sessions EXCEPT ![m.session].usable = FALSE]

RepliesTo(m) == IF m.stage = "accepted" THEN {TurnReplies[mode] : mode \in Modes} ELSE {TurnRefused}

OpenSession(r, sid) ==
  sessions' = [k \in DOMAIN sessions \cup {<<r, sid>>} |->
    IF k \in DOMAIN sessions THEN sessions[k] ELSE [next |-> 1, usable |-> TRUE]]

\* A closed session stays in the target's table; close_failure is scripted.
CloseReplies(r) ==
  IF SessionOf(r) \in DOMAIN sessions
  THEN {Http(204, "broken", "none"), Http(503, "json", "USABLE")}
  ELSE {Http(404, "json", "UNUSABLE")}

-----------------------------------------------------------------------------
(* The calls of the worker, with the target's part in them.                *)

\* The reply with the new session arrives and is recorded.
OpenAnswered(t) ==
  /\ SessionOpens(t)
  /\ OpenSession(RunOf[task[t].exec], turn[t].sid)
  /\ UNCHANGED wire

\* The target opens a session nobody will use: its reply is lost, or another
\* identity was recorded meanwhile.
OpenOrphaned(t) ==
  /\ SessionOpenFails(t, OpenContinuity(NoReply("timeout")))
  /\ OpenSession(RunOf[task[t].exec], turn[t].sid)
  /\ UNCHANGED wire

\* No session is opened: unsupported by the target, or never reached.
OpenRefused(t, reply) ==
  /\ SessionOpenFails(t, OpenContinuity(reply))
  /\ UNCHANGED targetVars

RequestOf(t) ==
  LET e == task[t].exec
  IN  [exec |-> e, session |-> SessionOf(RunOf[e]), ordinal |-> Ordinal[e], stage |-> "sent"]

SendTurn(t) ==
  /\ SubmitTurn(t)
  /\ wire' = wire \cup {RequestOf(t)}
  /\ UNCHANGED sessions

\* The reply comes back in time, whatever became of the session meanwhile.
TurnAnswered(t, m, reply) ==
  LET seen == TurnObservation(reply)
  IN  /\ m.exec = task[t].exec /\ m.stage \in {"accepted", "refused"}
      /\ TurnAnswers(t, seen.result, seen.continuity)
      /\ wire' = wire \ {m}
      /\ UNCHANGED sessions

\* The caller gives up: a reply on its way is lost, while the request may be
\* handled yet.
TurnUnheard(t, reply) ==
  LET seen == TurnObservation(reply)
  IN  /\ TurnAnswers(t, seen.result, seen.continuity)
      /\ wire' = {m \in wire : m.exec = task[t].exec => m.stage \in {"sent", "losing"}}
      /\ UNCHANGED sessions

\* What becomes of a turn between its caller's steps.
TargetAlone(m) ==
  /\ AcceptTurn(m) \/ RefuseTurn(m) \/ LoseSession(m)
  /\ UNCHANGED allVars

CloseAnswered(t, reply) ==
  /\ SessionCloses(t, Closes(reply))
  /\ UNCHANGED targetVars

-----------------------------------------------------------------------------

Exchange(t) ==
  \/ OpenAnswered(t) \/ OpenOrphaned(t)
  \/ \E reply \in Unheard \cup {Http(501, "json", "UNUSABLE")} : OpenRefused(t, reply)
  \/ SendTurn(t)
  \/ \E m \in wire : \E reply \in RepliesTo(m) : TurnAnswered(t, m, reply)
  \/ \E reply \in Unheard : TurnUnheard(t, reply)
  \/ /\ turn[t].step = "closing"
     /\ \E reply \in Unheard \cup CloseReplies(RunOf[turn[t].exec]) : CloseAnswered(t, reply)

TargetNext ==
  \/ ApartFromTarget /\ UNCHANGED targetVars
  \/ \E t \in Threads : Exchange(t)
  \/ \E m \in wire : TargetAlone(m)

TargetSpec == TargetInit /\ [][TargetNext]_composedVars

-----------------------------------------------------------------------------
(* Properties.                                                             *)

\* What the coordinator goes on from is true of the target: whenever an
\* exchange ends with the continuity signal USABLE, the session exists and
\* expects exactly the next turn; and it is still usable, unless an earlier
\* turn had left the conversation in doubt before this one was answered.
ContinuityIsTrue ==
  [][\A t \in Threads :
       LET e == task[t].exec
           k == SessionOf(RunOf[e])
       IN  ( /\ task[t].pc = "waiting" /\ task'[t].pc = "answered"
             /\ turn'[t].continuity = "USABLE" ) =>
           /\ k \in DOMAIN sessions'
           /\ sessions'[k].next = Ordinal[e] + 1
           /\ sessions'[k].usable \/ broken[RunOf[e]]]_composedVars

\* A turn recorded as answered was answered in its context: the attempt's
\* session has accepted every turn up to it, in order, also when an earlier
\* turn's request was lost and the next was sent before anybody noticed.
ContextComplete ==
  \A e \in Executions : outcome[e] = "SUCCESS" =>
    /\ SessionOf(RunOf[e]) \in DOMAIN sessions
    /\ sessions[SessionOf(RunOf[e])].next > Ordinal[e]

=============================================================================
