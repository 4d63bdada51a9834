------------------------------ MODULE RunLaunch ------------------------------
(***************************************************************************)
(* Launching, rerunning, retrying and replaying: the requests that create  *)
(* Runs.  A request is a web transaction.  A launch holds the target       *)
(* locked while it reads question after question, which it does not lock;  *)
(* a retry looks its key up before it inserts a Run that carries it, that  *)
(* of a conversation with the target locked since it read its revision.    *)
(* The other launches read only rows that they lock or that never change,  *)
(* and are one step.                                                       *)
(***************************************************************************)
EXTENDS Catalog

CONSTANTS
  Requests,   \* web requests of administrators
  RunIds,     \* EvaluationRun ids
  Pages,      \* pages with a retry form, as shown to an administrator
  NoPage,     \* no page
  NoKey,      \* the null retry_request_key
  NoRun       \* the null Run

ASSUME LaunchAssumption ==
  /\ RunIds \cap Pages = {}
  /\ NoRun \notin RunIds /\ NoPage \notin Pages /\ NoKey \notin RunIds \cup Pages

VARIABLES
  run,      \* per id: the frozen manifest, or NotLaunched
  request   \* per request: what it holds and has read

launchVars == <<run, request>>

Manifests == [Items -> Nat]   \* the frozen version of each item, 0 if not in the Run
Nothing == [x \in Items |-> 0]
Members(m) == {x \in Items : m[x] > 0}

Catalogued == {"LAUNCH", "RERUN", "SCENARIO", "REPLAY"}   \* refuse an inactive target
Exact == {"RETRY", "CONVERSATION_RETRY", "REPLAY"}        \* repeat what the source asked
Kinds == Catalogued \cup Exact

NotLaunched == [kind |-> "NONE", target |-> "NONE", revision |-> 0, versions |-> Nothing,
                source |-> NoRun, key |-> NoKey, terminal |-> {}]
Idle == [phase |-> "IDLE", target |-> "NONE", revision |-> 0, wanted |-> {}, versions |-> Nothing,
         source |-> NoRun, page |-> NoPage, answer |-> NoRun]

Launched(n) == n \in RunIds /\ run[n].kind # "NONE"
Done(n) == Launched(n) /\ run[n].terminal = Members(run[n].versions)
Conversation(n) == Members(run[n].versions) \cap Scenarios # {}
Carries(n, k) == Launched(n) /\ run[n].key = k

\* A finished Run over all questions, or of one scenario, in first versions.
PastRun(t, members) ==
  [kind |-> IF members \subseteq Questions THEN "LAUNCH" ELSE "SCENARIO", target |-> t, revision |-> 1,
   versions |-> [x \in Items |-> IF x \in members THEN 1 ELSE 0],
   source |-> NoRun, key |-> NoKey, terminal |-> members]

\* No Run yet, or a past one where the catalog is in use.
LaunchInit ==
  /\ request = [r \in Requests |-> Idle]
  /\ \/ run = [n \in RunIds |-> NotLaunched]
     \/ \E n \in RunIds, t \in Targets, members \in {Questions} \cup {{s} : s \in Scenarios} :
          /\ target[t].active /\ \A x \in members : Exists(x)
          /\ run = [[m \in RunIds |-> NotLaunched] EXCEPT ![n] = PastRun(t, members)]

\* Variant: nobody waits for a launch.
NeverLocked(t) == FALSE

\* A launch, and the retry of a conversation, lock the target from their read
\* of it to their commit: whoever locks it, changes it or commits a reference
\* to it waits.
Locked(t) == \E r \in Requests : request[r].phase \in {"LAUNCH", "RETRY"} /\ request[r].target = t

Create(n, kind, t, revision, versions, source, key) ==
  run' = [run EXCEPT ![n] = [kind |-> kind, target |-> t, revision |-> revision, versions |-> versions,
                             source |-> source, key |-> key, terminal |-> {}]]

\* The response of a launch, and of a retry with the Run it was answered with.
Finish(r) == request' = [request EXCEPT ![r] = [Idle EXCEPT !.phase = "DONE"]]
Answer(r, n) == request' = [request EXCEPT ![r].phase = "DONE", ![r].answer = n]

-----------------------------------------------------------------------------
(* launch_run and rerun_source_run.                                        *)

\* The chosen source questions, as many as are still eligible, are handed to
\* launch_run.
BeginRerun(r, n, wanted) ==
  /\ request[r].phase = "IDLE"
  /\ Done(n) /\ ~Conversation(n)
  /\ wanted # {} /\ wanted \subseteq Eligible \cap Members(run[n].versions)
  /\ request' = [request EXCEPT ![r].phase = "RERUN", ![r].target = run[n].target,
                                ![r].wanted = wanted, ![r].source = n]
  /\ UNCHANGED <<catalogVars, run>>

BeginLaunch(r, t, wanted) ==
  /\ \/ request[r].phase = "IDLE"
     \/ request[r].phase = "RERUN" /\ t = request[r].target /\ wanted = request[r].wanted
  /\ ~Locked(t)
  /\ target[t].active /\ target[t].capability # "NONE"
  /\ wanted # {} /\ wanted \subseteq Eligible
  /\ request' = [request EXCEPT ![r].phase = "LAUNCH", ![r].target = t,
                                ![r].revision = target[t].revision, ![r].wanted = wanted]
  /\ UNCHANGED <<catalogVars, run>>

\* question.current_version, read when its turn comes.
FreezeQuestion(r, q) ==
  /\ request[r].phase = "LAUNCH"
  /\ q \in request[r].wanted \ Members(request[r].versions)
  /\ request' = [request EXCEPT ![r].versions[q] = question[q].version]
  /\ UNCHANGED <<catalogVars, run>>

CommitLaunch(r, n) ==
  LET q == request[r]
  IN  /\ q.phase = "LAUNCH"
      /\ q.wanted = Members(q.versions)
      /\ ~Launched(n)
      /\ Create(n, IF q.source = NoRun THEN "LAUNCH" ELSE "RERUN", q.target, q.revision, q.versions,
                q.source, NoKey)
      /\ Finish(r)
      /\ UNCHANGED catalogVars

\* A check fails or the connection is lost: nothing was written, and the
\* administrator may try again.
Abort(r) ==
  /\ request[r].phase \in {"RERUN", "LAUNCH", "RETRY"}
  /\ request' = [request EXCEPT ![r] = Idle]
  /\ UNCHANGED <<catalogVars, run>>

-----------------------------------------------------------------------------
(* retry_execution and retry_conversation_attempt.                         *)

Existing(k) == {n \in RunIds : Carries(n, k)}

\* Variant: the insertion trusts the earlier lookup.
LookedUp(k) == TRUE

\* No Run carries the key: the lookup finds none, and the unique constraint
\* lets an insertion pass.
KeyFree(k) == Existing(k) = {}

\* The form of an Execution carries a new key, that of a conversation the id
\* of its Run.
KeyOf(p, n) == IF Conversation(n) THEN n ELSE p

\* A page belongs to one observation; its form may be submitted repeatedly.
PageOf(p, n, wanted) ==
  \A r \in Requests : request[r].page = p => request[r].source = n /\ request[r].wanted = wanted

\* A single Execution, or the whole of a conversation.
LookUpKey(r, n, wanted, p) ==
  /\ request[r].phase = "IDLE"
  /\ Launched(n)
  /\ IF Conversation(n) THEN wanted = Members(run[n].versions)
     ELSE \E q \in Members(run[n].versions) : wanted = {q}
  /\ PageOf(p, n, wanted)
  /\ LET asked == [request[r] EXCEPT !.wanted = wanted, !.source = n, !.page = p]
     IN  \/ /\ KeyFree(KeyOf(p, n))
            /\ request' = [request EXCEPT ![r] = [asked EXCEPT !.phase = "RETRY"]]
         \/ \E m \in Existing(KeyOf(p, n)) :
              request' = [request EXCEPT ![r] = [asked EXCEPT !.phase = "DONE", !.answer = m]]
  /\ UNCHANGED <<catalogVars, run>>

Key(r) == KeyOf(request[r].page, request[r].source)

\* The attempt is locked, and with it the rows that the query joins: its Run,
\* the target and the revision it had.  The conversation goes to the current
\* revision, and nobody asks whether the target is active.
LockConversation(r) ==
  LET n == request[r].source
      t == run[n].target
  IN  /\ request[r].phase = "RETRY" /\ request[r].target = "NONE"
      /\ Conversation(n) /\ Done(n)
      /\ ~Locked(t)
      /\ target[t].capability = "SESSIONS"
      /\ request' = [request EXCEPT ![r].target = t, ![r].revision = target[t].revision]
      /\ UNCHANGED <<catalogVars, run>>

\* The source of an insertion is locked and was checked: a conversation with
\* its target, an Execution alone.
Retryable(q) ==
  /\ q.phase = "RETRY"
  /\ IF Conversation(q.source)
     THEN q.target # "NONE"
     ELSE ~Locked(run[q.source].target) /\ q.wanted \subseteq run[q.source].terminal

\* IntegrityError: somebody else inserted the key since the lookup.
KeyTaken(r, m) ==
  /\ Retryable(request[r])
  /\ m \in Existing(Key(r))
  /\ Answer(r, m)
  /\ UNCHANGED <<catalogVars, run>>

\* Variant: the current versions of what the source asked.
CurrentVersions(q) == [x \in Items |-> IF x \in q.wanted THEN question[x].version ELSE 0]

\* The versions that a retry q repeats.
SourceVersions(q) == [x \in Items |-> IF x \in q.wanted THEN run[q.source].versions[x] ELSE 0]

\* Target, revision and version are the source's, whatever became of them.
InsertRetry(r, n) ==
  LET q == request[r]
      source == run[q.source]
  IN  /\ Retryable(q) /\ ~Conversation(q.source)
      /\ KeyFree(Key(r))
      /\ ~Launched(n)
      /\ Create(n, "RETRY", source.target, source.revision,
                SourceVersions(q), q.source, Key(r))
      /\ Answer(r, n)
      /\ UNCHANGED catalogVars

InsertConversationRetry(r, n) ==
  LET q == request[r]
  IN  /\ Retryable(q) /\ Conversation(q.source)
      /\ KeyFree(Key(r))
      /\ ~Launched(n)
      /\ Create(n, "CONVERSATION_RETRY", q.target, q.revision, SourceVersions(q), q.source, Key(r))
      /\ Answer(r, n)
      /\ UNCHANGED catalogVars

-----------------------------------------------------------------------------
(* Launches in one step, and the worker.                                   *)

LaunchConversationScenario(r, n, s, t) ==
  /\ request[r].phase = "IDLE"
  /\ scenario[s].lifecycle = "ACTIVE"
  /\ ~Locked(t)
  /\ target[t].active /\ target[t].capability = "SESSIONS"
  /\ ~Launched(n)
  /\ Create(n, "SCENARIO", t, target[t].revision, [Nothing EXCEPT ![s] = scenario[s].version],
            NoRun, NoKey)
  /\ Finish(r)
  /\ UNCHANGED catalogVars

\* A controlled comparison with a Baseline of the terminal Run m.
LaunchReplay(r, n, m, t) ==
  /\ request[r].phase = "IDLE"
  /\ Done(m)
  /\ ~Locked(t)
  /\ target[t].active
  /\ target[t].capability \in IF Conversation(m) THEN {"SESSIONS"} ELSE {"QUESTIONS", "SESSIONS"}
  /\ ~Launched(n)
  /\ Create(n, "REPLAY", t, target[t].revision, run[m].versions, m, NoKey)
  /\ Finish(r)
  /\ UNCHANGED catalogVars

\* Variant: any item of the catalog.
Unobserved(n) == Items \ run[n].terminal

Open(n) == Members(run[n].versions) \ run[n].terminal

\* The worker ends an Execution, or all turns of a conversation.
Observe(n, x) ==
  /\ Launched(n)
  /\ x \in Open(n)
  /\ run' = [run EXCEPT ![n].terminal = @ \cup {x}]
  /\ UNCHANGED <<catalogVars, request>>

LaunchStep ==
  \/ \E r \in Requests :
       \/ \E n \in RunIds, wanted \in SUBSET Questions : BeginRerun(r, n, wanted)
       \/ \E t \in Targets, wanted \in SUBSET Questions : BeginLaunch(r, t, wanted)
       \/ \E q \in Questions : FreezeQuestion(r, q)
       \/ Abort(r) \/ LockConversation(r)
       \/ \E n \in RunIds, wanted \in SUBSET Items, p \in Pages : LookUpKey(r, n, wanted, p)
       \/ \E n \in RunIds :
            \/ CommitLaunch(r, n) \/ KeyTaken(r, n) \/ InsertRetry(r, n) \/ InsertConversationRetry(r, n)
            \/ \E s \in Scenarios, t \in Targets : LaunchConversationScenario(r, n, s, t)
            \/ \E m \in RunIds, t \in Targets : LaunchReplay(r, n, m, t)
  \/ \E n \in RunIds, x \in Items : Observe(n, x)

-----------------------------------------------------------------------------

RunRecords ==
  [kind : Kinds \cup {"NONE"}, target : Targets \cup {"NONE"}, revision : Nat, versions : Manifests,
   source : RunIds \cup {NoRun}, key : Pages \cup RunIds \cup {NoKey}, terminal : SUBSET Items]

RequestRecords ==
  [phase : {"IDLE", "RERUN", "LAUNCH", "RETRY", "DONE"}, target : Targets \cup {"NONE"}, revision : Nat,
   wanted : SUBSET Items, versions : Manifests, source : RunIds \cup {NoRun}, page : Pages \cup {NoPage},
   answer : RunIds \cup {NoRun}]

LaunchTypes ==
  /\ run \in [RunIds -> RunRecords]
  /\ \A n \in RunIds : run[n].terminal \subseteq Members(run[n].versions)
  /\ request \in [Requests -> RequestRecords]

\* A retry form submitted twice makes one Run, and both requests are answered
\* with it: a Run that repeats the observation they asked for.
RetryOnce ==
  /\ \A m, n \in RunIds :
       Launched(m) /\ Launched(n) /\ run[m].key = run[n].key /\ run[m].key # NoKey => m = n
  /\ \A r \in Requests :
       request[r].phase = "DONE" /\ request[r].page # NoPage =>
         LET n == request[r].answer
         IN  /\ Carries(n, Key(r))
             /\ run[n].source = request[r].source
             /\ Members(run[n].versions) = request[r].wanted

\* Retries asked for on different pages are deliberate, and each gets a Run of
\* its own.
DeliberateRetryIsNew ==
  \A q, r \in Requests :
    /\ request[q].phase = "DONE" /\ request[q].page # NoPage
    /\ request[r].phase = "DONE" /\ request[r].page # NoPage
    => (request[q].page = request[r].page <=> request[q].answer = request[r].answer)

\* Down every chain of retries, replays and reruns: retries and replays ask
\* exactly what their source asked while the catalog moves on, a rerun asks
\* some of its source's questions and never an older version.
LineageKept ==
  \A n \in RunIds : Launched(n) /\ run[n].source # NoRun =>
    LET source == run[run[n].source]
    IN  \A x \in Members(run[n].versions) :
          /\ source.versions[x] > 0
          /\ run[n].kind \in Exact => run[n].versions[x] = source.versions[x]
          /\ run[n].kind = "RERUN" => run[n].versions[x] >= source.versions[x]

\* A Run launched through the catalog goes to a target that is active, in the
\* revision that is current, at the moment it comes to be, however long its
\* launch took; and the retry of a conversation to the current revision.
LaunchHoldsTarget ==
  [][\A n \in RunIds :
       ~Launched(n) /\ run'[n].kind \in Catalogued \cup {"CONVERSATION_RETRY"} =>
         LET t == run'[n].target
         IN  /\ target'[t].revision = run'[n].revision
             /\ run'[n].kind \in Catalogued => target'[t].active]_<<catalogVars, launchVars>>

=============================================================================
