---------------------------- MODULE CatalogProofs ----------------------------
(***************************************************************************)
(* Theorems of CatalogRuns.  A launch and a retry use what they read       *)
(* earlier, so the invariants say what stays true of a request in progress *)
(* while the catalog and the other requests move on.                       *)
(***************************************************************************)
EXTENDS CatalogRuns, TLAPS

USE CatalogAssumption, ImportAssumption, LaunchAssumption

\* The parts of the catalog.
LEMMA ItemParts == Questions \subseteq Items /\ Scenarios \subseteq Items /\ Corpus \subseteq Items
BY DEF Items

\* A version record is well typed, whatever its lifecycle and text.
LEMMA FirstVersionTyped ==
  /\ NoQuestion \in QuestionRecords
  /\ \A l \in Lifecycles, text \in Texts : FirstVersion(l, text) \in QuestionRecords
BY DEF NoQuestion, QuestionRecords, FirstVersion, Lifecycles, Texts

\* An unchanged group of variables keeps its types.
LEMMA TypesKept ==
  /\ CatalogTypes /\ UNCHANGED catalogVars => CatalogTypes'
  /\ ImportTypes /\ UNCHANGED importVars => ImportTypes'
  /\ LaunchTypes /\ UNCHANGED launchVars => LaunchTypes'
BY DEF CatalogTypes, catalogVars, ImportTypes, importVars, LaunchTypes, launchVars, Members

\* A request at rest is well typed.
LEMMA IdleTyped == Idle \in RequestRecords
BY DEF Idle, RequestRecords, Manifests, Nothing

\* A launch, a retry and the worker only read the catalog.
LEMMA LaunchLeavesCatalog == LaunchStep => UNCHANGED catalogVars
<1>1. \A r \in Requests, n \in RunIds, wanted \in SUBSET Questions : BeginRerun(r, n, wanted) => UNCHANGED catalogVars
  BY DEF BeginRerun
<1>2. \A r \in Requests, n \in RunIds, wanted \in SUBSET Items, p \in Pages :
       LookUpKey(r, n, wanted, p) => UNCHANGED catalogVars
  BY DEF LookUpKey
<1>3. \A r, t, wanted, q : BeginLaunch(r, t, wanted) \/ FreezeQuestion(r, q) \/ Abort(r) \/ LockConversation(r) =>
                             UNCHANGED catalogVars
  <2>1. \A r, t, wanted : BeginLaunch(r, t, wanted) => UNCHANGED catalogVars
    BY DEF BeginLaunch
  <2>2. \A r, q : FreezeQuestion(r, q) \/ Abort(r) \/ LockConversation(r) => UNCHANGED catalogVars
    BY DEF FreezeQuestion, Abort, LockConversation
  <2>3. QED BY <2>1, <2>2
<1>4. \A r, n : CommitLaunch(r, n) \/ KeyTaken(r, n) \/ InsertRetry(r, n) \/ InsertConversationRetry(r, n) =>
                UNCHANGED catalogVars
  BY ZenonT(30) DEF CommitLaunch, KeyTaken, InsertRetry, InsertConversationRetry
<1>5. \A r, n, s, t : LaunchConversationScenario(r, n, s, t) => UNCHANGED catalogVars
  BY DEF LaunchConversationScenario
<1>6. \A r, n, m, t : LaunchReplay(r, n, m, t) => UNCHANGED catalogVars
  BY DEF LaunchReplay
<1>7. \A n, x : Observe(n, x) => UNCHANGED catalogVars
  BY DEF Observe
<1>8. QED BY <1>1, <1>2, <1>3, <1>4, <1>5, <1>6, <1>7, Zenon DEF LaunchStep

\* A new Run with a typed manifest keeps the types of all Runs.
LEMMA RunTyped ==
  ASSUME LaunchTypes, NEW n \in RunIds, NEW kind \in Kinds, NEW t \in Targets \cup {"NONE"}, NEW revision \in Nat,
         NEW versions \in Manifests, NEW source \in RunIds \cup {NoRun},
         NEW key \in Pages \cup RunIds \cup {NoKey}, Create(n, kind, t, revision, versions, source, key)
  PROVE  /\ run' \in [RunIds -> RunRecords]
         /\ \A m \in RunIds : run'[m].terminal \subseteq Members(run'[m].versions)
<1>. DEFINE new == [kind |-> kind, target |-> t, revision |-> revision, versions |-> versions,
                    source |-> source, key |-> key, terminal |-> {}]
<1>1. new \in RunRecords
  BY DEF RunRecords
<1>2. run' = [run EXCEPT ![n] = new]
  BY DEF Create
<1>3. run \in [RunIds -> RunRecords] /\ \A m \in RunIds : run[m].terminal \subseteq Members(run[m].versions)
  BY DEF LaunchTypes
<1>4. new.terminal = {}
  OBVIOUS
<1>. HIDE DEF new
<1>5. run'[n] = new /\ \A m \in RunIds : m # n => run'[m] = run[m]
  BY <1>2, <1>3
<1>6. QED BY <1>1, <1>2, <1>3, <1>4, <1>5

-----------------------------------------------------------------------------
(* Type correctness.                                                       *)

\* A change to the catalog keeps its types.
LEMMA CatalogTyped ==
  ASSUME CatalogTypes, QuestionChanges \/ ScenarioChanges \/ TargetChanges
  PROVE  CatalogTypes'
<1>0. changes \in Nat => (Change => changes' \in Nat)
  BY DEF Change
<1>1. CASE QuestionChanges
  <2>1. ASSUME NEW q \in Items, NEW l \in Lifecycles, NEW text \in Texts, CreateQuestion(q, l, text)
        PROVE  CatalogTypes'
    BY <2>1, <1>0, FirstVersionTyped DEF CatalogTypes, CreateQuestion
  <2>2. ASSUME NEW q \in Items, NEW text \in Texts, CreateQuestionVersion(q, text)
        PROVE  CatalogTypes'
    <3>1. question[q].version + 1 \in Nat
      BY DEF CatalogTypes, QuestionRecords
    <3>2. question' \in [Items -> QuestionRecords]
      BY <2>2, <3>1 DEF CatalogTypes, CreateQuestionVersion, QuestionRecords
    <3>3. QED BY <2>2, <1>0, <3>2 DEF CatalogTypes, CreateQuestionVersion
  <2>3. ASSUME NEW q \in Items, NEW l \in Lifecycles, SetQuestionLifecycle(q, l)
        PROVE  CatalogTypes'
    BY <2>3, <1>0 DEF CatalogTypes, SetQuestionLifecycle, QuestionRecords
  <2>4. \A q \in Items : TextsOf(q) \subseteq Texts
    BY DEF TextsOf, Texts
  <2>5. QED BY <1>1, <2>1, <2>2, <2>3, <2>4 DEF QuestionChanges
<1>2. CASE ScenarioChanges
  <2>1. ASSUME NEW s \in Scenarios, NEW l \in Lifecycles, CreateScenario(s, l)
        PROVE  CatalogTypes'
    <3>1. FirstVersion(l, "OTHER") \in QuestionRecords
      BY FirstVersionTyped DEF Texts
    <3>2. QED BY <2>1, <1>0, <3>1, ItemParts DEF CatalogTypes, CreateScenario, ScenarioRecords
  <2>2. ASSUME NEW s \in Scenarios, CreateScenarioVersion(s)
        PROVE  CatalogTypes'
    <3>1. question[s].version + 1 \in Nat /\ scenario[s].version + 1 \in Nat
      BY ItemParts DEF CatalogTypes, QuestionRecords, ScenarioRecords
    <3>2. question' \in [Items -> QuestionRecords]
      BY <2>2, <3>1, ItemParts DEF CatalogTypes, CreateScenarioVersion, QuestionRecords
    <3>3. scenario' \in [Scenarios -> ScenarioRecords]
      BY <2>2, <3>1 DEF CatalogTypes, CreateScenarioVersion, ScenarioRecords
    <3>4. QED BY <2>2, <1>0, <3>2, <3>3 DEF CatalogTypes, CreateScenarioVersion
  <2>3. ASSUME NEW s \in Scenarios, NEW l \in Lifecycles, UpdateScenarioMetadata(s, l)
        PROVE  CatalogTypes'
    BY <2>3, <1>0, ItemParts DEF CatalogTypes, UpdateScenarioMetadata, QuestionRecords, ScenarioRecords
  <2>4. QED BY <1>2, <2>1, <2>2, <2>3 DEF ScenarioChanges
<1>3. CASE TargetChanges
  <2>1. ASSUME NEW t \in Targets, NEW c \in Capabilities, NEW active \in BOOLEAN, CreateTarget(t, active, c)
        PROVE  CatalogTypes'
    BY <2>1, <1>0 DEF CatalogTypes, CreateTarget, TargetRecords
  <2>2. ASSUME NEW t \in Targets, NEW active \in BOOLEAN, UpdateTarget(t, active)
        PROVE  CatalogTypes'
    BY <2>2, <1>0 DEF CatalogTypes, UpdateTarget, TargetRecords
  <2>3. ASSUME NEW t \in Targets, NEW c \in Capabilities, CreateTargetRevision(t, c)
        PROVE  CatalogTypes'
    <3>1. target[t].revision + 1 \in Nat
      BY DEF CatalogTypes, TargetRecords
    <3>2. target' \in [Targets -> TargetRecords]
      BY <2>3, <3>1 DEF CatalogTypes, CreateTargetRevision, TargetRecords
    <3>3. QED BY <2>3, <1>0, <3>2 DEF CatalogTypes, CreateTargetRevision
  <2>4. QED BY <1>3, <2>1, <2>2, <2>3 DEF TargetChanges
<1>4. QED BY <1>1, <1>2, <1>3

\* An import step keeps the types of the import and of the catalog.
LEMMA ImportTyped ==
  ASSUME CatalogTypes, ImportTypes, ImportStep
  PROVE  CatalogTypes' /\ ImportTypes'
<1>. DEFINE ImportRecords == [phase : {"IDLE", "RUNNING"}, created : SUBSET Corpus, reused : SUBSET Corpus]
<1>0. NoImport \in ImportRecords
  BY DEF NoImport
<1>1. ASSUME NEW i \in Importers, BeginImport(i)
      PROVE  CatalogTypes' /\ ImportTypes'
  <2>1. ImportTypes'
    BY <1>1 DEF ImportTypes, BeginImport
  <2>2. QED BY <1>1, <2>1, TypesKept DEF BeginImport
<1>2. ASSUME NEW i \in Importers, CommitImport(i)
      PROVE  CatalogTypes' /\ ImportTypes'
  <2>1. FirstVersion("DRAFT", "WORKBOOK") \in QuestionRecords
    BY FirstVersionTyped DEF Lifecycles, Texts
  <2>2. question' \in [Items -> QuestionRecords]
    BY <1>2, <2>1 DEF CommitImport, CatalogTypes
  <2>3. ImportTypes'
    BY <1>2, <1>0 DEF ImportTypes, CommitImport
  <2>4. QED BY <1>2, <2>2, <2>3 DEF CommitImport, CatalogTypes
<1>3. ASSUME NEW i \in Importers, RollBackImport(i)
      PROVE  CatalogTypes' /\ ImportTypes'
  <2>1. ImportTypes'
    BY <1>3, <1>0 DEF ImportTypes, RollBackImport
  <2>2. QED BY <1>3, <2>1, TypesKept DEF RollBackImport
<1>4. ASSUME NEW i \in Importers, NEW q \in Corpus, ImportQuestion(i, q)
      PROVE  CatalogTypes' /\ ImportTypes'
  <2>1. ImportTypes'
    BY <1>4 DEF ImportTypes, ImportQuestion
  <2>2. QED BY <1>4, <2>1, TypesKept DEF ImportQuestion
<1>5. QED BY <1>1, <1>2, <1>3, <1>4 DEF ImportStep

\* What the versions of a Run or a request are taken from.
LEMMA SourceVersionsTyped ==
  ASSUME CatalogTypes, LaunchTypes, NEW q \in RequestRecords, q.source \in RunIds
  PROVE  SourceVersions(q) \in Manifests
BY DEF LaunchTypes, RunRecords, RequestRecords, Manifests, SourceVersions

\* Runs and requests under way name what they need.
Underway ==
  /\ \A n \in RunIds : Launched(n) => run[n].target \in Targets
  /\ \A r \in Requests :
       /\ request[r].phase \in {"RERUN", "LAUNCH"} => request[r].target \in Targets
       /\ request[r].phase = "RETRY" => Launched(request[r].source) /\ request[r].page \in Pages

\* A retry key is a page or a Run.
LEMMA KeyTyped ==
  \A p \in Pages, n \in RunIds : KeyOf(p, n) \in Pages \cup RunIds
BY DEF KeyOf

\* A launch step keeps the types of Runs and requests.
LEMMA LaunchTyped ==
  ASSUME CatalogTypes, LaunchTypes, Underway, LaunchStep
  PROVE  CatalogTypes' /\ LaunchTypes'
<1>a. run \in [RunIds -> RunRecords] /\ request \in [Requests -> RequestRecords]
  BY DEF LaunchTypes
<1>b. UNCHANGED run /\ request' \in [Requests -> RequestRecords] => LaunchTypes'
  BY DEF LaunchTypes, Members
<1>c. \A r \in Requests, n \in RunIds : Answer(r, n) => request' \in [Requests -> RequestRecords]
  <2> SUFFICES ASSUME NEW r \in Requests, NEW n \in RunIds, Answer(r, n)
               PROVE  request' \in [Requests -> RequestRecords]
    OBVIOUS
  <2>1. [request[r] EXCEPT !.phase = "DONE", !.answer = n] \in RequestRecords
    BY <1>a DEF RequestRecords
  <2>2. request' = [request EXCEPT ![r] = [request[r] EXCEPT !.phase = "DONE", !.answer = n]]
    BY <1>a DEF Answer
  <2>3. QED BY <1>a, <2>1, <2>2
<1>d. \A r \in Requests : Finish(r) => request' \in [Requests -> RequestRecords]
  BY <1>a, IdleTyped DEF Finish, RequestRecords
<1>e. ASSUME run' \in [RunIds -> RunRecords],
             \A m \in RunIds : run'[m].terminal \subseteq Members(run'[m].versions),
             request' \in [Requests -> RequestRecords]
      PROVE  LaunchTypes'
  BY <1>e DEF LaunchTypes, Members
<1>f. NoKey \in Pages \cup RunIds \cup {NoKey} /\ NoRun \in RunIds \cup {NoRun}
  OBVIOUS
<1>1. ASSUME NEW r \in Requests, NEW n \in RunIds, NEW wanted \in SUBSET Questions, BeginRerun(r, n, wanted)
      PROVE  CatalogTypes' /\ LaunchTypes'
  <2>1. run[n].target \in Targets \cup {"NONE"} /\ wanted \in SUBSET Items
    BY <1>a, ItemParts DEF RunRecords
  <2>2. request' \in [Requests -> RequestRecords]
    <3>1. [request[r] EXCEPT !.phase = "RERUN", !.target = run[n].target, !.wanted = wanted, !.source = n]
            \in RequestRecords
      BY <1>a, <2>1 DEF RequestRecords
    <3>2. request' = [request EXCEPT ![r] = [request[r] EXCEPT !.phase = "RERUN", !.target = run[n].target,
                                                               !.wanted = wanted, !.source = n]]
      BY <1>1, <1>a DEF BeginRerun
    <3>3. QED BY <1>a, <3>1, <3>2
  <2>3. QED BY <1>1, <1>b, <2>2, TypesKept DEF BeginRerun
<1>2. ASSUME NEW r \in Requests, NEW t \in Targets, NEW wanted \in SUBSET Questions, BeginLaunch(r, t, wanted)
      PROVE  CatalogTypes' /\ LaunchTypes'
  <2>1. target[t].revision \in Nat /\ wanted \in SUBSET Items
    BY ItemParts DEF CatalogTypes, TargetRecords
  <2>2. request' \in [Requests -> RequestRecords]
    <3>1. [request[r] EXCEPT !.phase = "LAUNCH", !.target = t, !.revision = target[t].revision,
                             !.wanted = wanted] \in RequestRecords
      BY <1>a, <2>1 DEF RequestRecords
    <3>2. request' = [request EXCEPT ![r] = [request[r] EXCEPT !.phase = "LAUNCH", !.target = t,
                                               !.revision = target[t].revision, !.wanted = wanted]]
      BY <1>2, <1>a DEF BeginLaunch
    <3>3. QED BY <1>a, <3>1, <3>2
  <2>3. QED BY <1>2, <1>b, <2>2, TypesKept DEF BeginLaunch
<1>3. ASSUME NEW r \in Requests, NEW q \in Questions, FreezeQuestion(r, q)
      PROVE  CatalogTypes' /\ LaunchTypes'
  <2>1. question[q].version \in Nat /\ q \in Items
    BY ItemParts DEF CatalogTypes, QuestionRecords
  <2>2. request[r].versions \in Manifests
    BY <1>a DEF RequestRecords
  <2>3. [request[r].versions EXCEPT ![q] = question[q].version] \in Manifests
    BY <2>1, <2>2 DEF Manifests
  <2>4. request' = [request EXCEPT ![r].versions = [request[r].versions EXCEPT ![q] = question[q].version]]
    BY <1>3 DEF FreezeQuestion
  <2>5. request' \in [Requests -> RequestRecords]
    BY <1>a, <2>3, <2>4 DEF RequestRecords
  <2>6. QED BY <1>3, <1>b, <2>5, TypesKept DEF FreezeQuestion
<1>4. ASSUME NEW r \in Requests, Abort(r)
      PROVE  CatalogTypes' /\ LaunchTypes'
  <2>1. request' \in [Requests -> RequestRecords]
    BY <1>4, <1>a, IdleTyped DEF Abort
  <2>2. QED BY <1>4, <1>b, <2>1, TypesKept DEF Abort
<1>5. ASSUME NEW r \in Requests, NEW n \in RunIds, NEW wanted \in SUBSET Items, NEW p \in Pages,
             LookUpKey(r, n, wanted, p)
      PROVE  CatalogTypes' /\ LaunchTypes'
  <2>. DEFINE asked == [request[r] EXCEPT !.wanted = wanted, !.source = n, !.page = p]
  <2>1. asked \in RequestRecords
    BY <1>a DEF RequestRecords
  <2>2. [asked EXCEPT !.phase = "RETRY"] \in RequestRecords
    BY <2>1 DEF RequestRecords
  <2>3. \A m \in RunIds : [asked EXCEPT !.phase = "DONE", !.answer = m] \in RequestRecords
    BY <2>1 DEF RequestRecords
  <2>4. \/ request' = [request EXCEPT ![r] = [asked EXCEPT !.phase = "RETRY"]]
        \/ \E m \in RunIds : request' = [request EXCEPT ![r] = [asked EXCEPT !.phase = "DONE", !.answer = m]]
    BY <1>5 DEF LookUpKey, Existing
  <2>. HIDE DEF asked
  <2>5. request' \in [Requests -> RequestRecords]
    BY <1>a, <2>2, <2>3, <2>4
  <2>6. QED BY <1>5, <1>b, <2>5, TypesKept DEF LookUpKey
<1>6. ASSUME NEW r \in Requests, NEW n \in RunIds, KeyTaken(r, n)
      PROVE  CatalogTypes' /\ LaunchTypes'
  BY <1>6, <1>b, <1>c, TypesKept DEF KeyTaken
<1>7. ASSUME NEW r \in Requests, NEW n \in RunIds, CommitLaunch(r, n)
      PROVE  CatalogTypes' /\ LaunchTypes'
  <2>. DEFINE q == request[r]
              kind == IF q.source = NoRun THEN "LAUNCH" ELSE "RERUN"
  <2>1. /\ q.target \in Targets \cup {"NONE"} /\ q.revision \in Nat /\ q.versions \in Manifests
        /\ q.source \in RunIds \cup {NoRun}
    BY <1>a DEF RequestRecords
  <2>2. Create(n, kind, q.target, q.revision, q.versions, q.source, NoKey)
    BY <1>7 DEF CommitLaunch
  <2>3. kind \in Kinds
    BY DEF Kinds, Catalogued, Exact
  <2>4. QED BY <1>7, <1>d, <1>e, <1>f, <2>1, <2>2, <2>3, RunTyped, TypesKept DEF CommitLaunch
<1>8. ASSUME NEW r \in Requests, NEW n \in RunIds, InsertRetry(r, n) \/ InsertConversationRetry(r, n)
      PROVE  CatalogTypes' /\ LaunchTypes'
  <2>. DEFINE q == request[r]
  <2>1. q \in RequestRecords
    BY <1>a
  <2>2. q.source \in RunIds /\ q.page \in Pages
    BY <1>8 DEF InsertRetry, InsertConversationRetry, Retryable, Underway, Launched
  <2>. DEFINE source == run[q.source]
  <2>3. source.target \in Targets \cup {"NONE"} /\ source.revision \in Nat
    BY <1>a, <2>2 DEF RunRecords
  <2>4. SourceVersions(q) \in Manifests
    BY <2>1, <2>2, SourceVersionsTyped
  <2>5. Key(r) \in Pages \cup RunIds \cup {NoKey} /\ q.source \in RunIds \cup {NoRun}
    BY <2>2, KeyTyped DEF Key
  <2>6. \E kind \in Kinds, t \in Targets \cup {"NONE"}, revision \in Nat :
          Create(n, kind, t, revision, SourceVersions(q), q.source, Key(r))
    <3>1. CASE InsertRetry(r, n)
      <4>1. Create(n, "RETRY", source.target, source.revision, SourceVersions(q), q.source, Key(r))
        BY <3>1 DEF InsertRetry
      <4>2. QED BY <4>1, <2>3 DEF Kinds, Exact
    <3>2. CASE InsertConversationRetry(r, n)
      <4>1. Create(n, "CONVERSATION_RETRY", q.target, q.revision, SourceVersions(q), q.source, Key(r))
        BY <3>2 DEF InsertConversationRetry
      <4>2. q.target \in Targets \cup {"NONE"} /\ q.revision \in Nat
        BY <2>1 DEF RequestRecords
      <4>3. QED BY <4>1, <4>2 DEF Kinds, Exact
    <3>3. QED BY <1>8, <3>1, <3>2
  <2>7. request' \in [Requests -> RequestRecords] /\ UNCHANGED catalogVars
    BY <1>8, <1>c DEF InsertRetry, InsertConversationRetry
  <2>. HIDE DEF q, source
  <2>8. QED BY <2>3, <2>4, <2>5, <2>6, <2>7, <1>e, RunTyped, TypesKept
<1>9. ASSUME NEW r \in Requests, NEW n \in RunIds, NEW s \in Scenarios, NEW t \in Targets,
             LaunchConversationScenario(r, n, s, t)
      PROVE  CatalogTypes' /\ LaunchTypes'
  <2>1. target[t].revision \in Nat /\ scenario[s].version \in Nat
    BY DEF CatalogTypes, TargetRecords, ScenarioRecords
  <2>. DEFINE versions == [Nothing EXCEPT ![s] = scenario[s].version]
  <2>2. versions \in Manifests
    BY <2>1, ItemParts DEF Manifests, Nothing
  <2>3. Create(n, "SCENARIO", t, target[t].revision, versions, NoRun, NoKey)
    BY <1>9 DEF LaunchConversationScenario
  <2>4. "SCENARIO" \in Kinds
    BY DEF Kinds, Catalogued
  <2>. HIDE DEF versions
  <2>5. QED BY <1>9, <1>d, <1>e, <1>f, <2>1, <2>2, <2>3, <2>4, RunTyped, TypesKept DEF LaunchConversationScenario
<1>10. ASSUME NEW r \in Requests, NEW n \in RunIds, NEW m \in RunIds, NEW t \in Targets, LaunchReplay(r, n, m, t)
       PROVE  CatalogTypes' /\ LaunchTypes'
  <2>1. target[t].revision \in Nat /\ run[m].versions \in Manifests
    BY <1>a DEF CatalogTypes, TargetRecords, RunRecords
  <2>2. Create(n, "REPLAY", t, target[t].revision, run[m].versions, m, NoKey)
    BY <1>10 DEF LaunchReplay
  <2>3. "REPLAY" \in Kinds
    BY DEF Kinds, Catalogued
  <2>4. QED BY <1>10, <1>d, <1>e, <1>f, <2>1, <2>2, <2>3, RunTyped, TypesKept DEF LaunchReplay
<1>11. ASSUME NEW n \in RunIds, NEW x \in Items, Observe(n, x)
       PROVE  CatalogTypes' /\ LaunchTypes'
  <2>. DEFINE seen == [run[n] EXCEPT !.terminal = @ \cup {x}]
  <2>1. seen \in RunRecords /\ seen.versions = run[n].versions /\ seen.terminal = run[n].terminal \cup {x}
    BY <1>a DEF RunRecords
  <2>2. run' = [run EXCEPT ![n] = seen] /\ x \in Members(run[n].versions)
    BY <1>11, <1>a DEF Observe, Open
  <2>. HIDE DEF seen
  <2>3. run' \in [RunIds -> RunRecords]
    BY <1>a, <2>1, <2>2
  <2>4. \A m \in RunIds : run'[m].terminal \subseteq Members(run'[m].versions)
    BY <1>a, <2>1, <2>2 DEF LaunchTypes
  <2>5. QED BY <1>11, <1>a, <1>e, <2>3, <2>4, TypesKept DEF Observe
<1>12. ASSUME NEW r \in Requests, LockConversation(r)
       PROVE  CatalogTypes' /\ LaunchTypes'
  <2>. DEFINE t == run[request[r].source].target
              holding == [request[r] EXCEPT !.target = t, !.revision = target[t].revision]
  <2>1. t \in Targets
    BY <1>12 DEF LockConversation, Done, Launched, Underway
  <2>2. target[t].revision \in Nat
    BY <2>1 DEF CatalogTypes, TargetRecords
  <2>3. holding \in RequestRecords
    BY <1>a, <2>1, <2>2 DEF RequestRecords
  <2>4. request' = [request EXCEPT ![r] = holding]
    BY <1>12, <1>a DEF LockConversation
  <2>5. request' \in [Requests -> RequestRecords]
    BY <1>a, <2>3, <2>4
  <2>6. QED BY <1>12, <1>b, <2>5, TypesKept DEF LockConversation
<1>13. QED
  BY <1>1, <1>2, <1>3, <1>4, <1>5, <1>6, <1>7, <1>8, <1>9, <1>10, <1>11, <1>12 DEF LaunchStep

-----------------------------------------------------------------------------
(* What no step undoes.                                                    *)

\* All fields of a Run but its observations.
SameRun(a, b) ==
  /\ a.kind = b.kind /\ a.target = b.target /\ a.revision = b.revision
  /\ a.versions = b.versions /\ a.source = b.source /\ a.key = b.key

RunsStay == \A n \in RunIds : Launched(n) => SameRun(run[n], run'[n])
AnswersStay == \A r \in Requests : request[r].phase = "DONE" => request'[r] = request[r]

\* A new Run takes a free id.
LEMMA CreateStays ==
  ASSUME run \in [RunIds -> RunRecords], NEW n \in RunIds, ~Launched(n), NEW kind, NEW t, NEW revision, NEW versions,
         NEW source, NEW key, Create(n, kind, t, revision, versions, source, key)
  PROVE  /\ \A m \in RunIds : m # n => run'[m] = run[m]
         /\ run'[n] = [kind |-> kind, target |-> t, revision |-> revision, versions |-> versions,
                       source |-> source, key |-> key, terminal |-> {}]
         /\ RunsStay
BY DEF Create, RunsStay, SameRun, Launched

\* What does not change stays.
LEMMA UnchangedStays ==
  /\ UNCHANGED run => RunsStay
  /\ UNCHANGED request => AnswersStay
BY DEF RunsStay, SameRun, AnswersStay

\* The Run of a launched id keeps its manifest, target, source and key, and an
\* answered request its answer.
LEMMA LaunchStays ==
  ASSUME LaunchTypes, LaunchStep
  PROVE  RunsStay /\ AnswersStay
<1>a. run \in [RunIds -> RunRecords] /\ request \in [Requests -> RequestRecords]
  BY DEF LaunchTypes
<1>1. ASSUME NEW r \in Requests, NEW n \in RunIds, NEW wanted \in SUBSET Questions, BeginRerun(r, n, wanted)
      PROVE  RunsStay /\ AnswersStay
  BY <1>1, <1>a, UnchangedStays DEF BeginRerun, AnswersStay
<1>2. ASSUME NEW r \in Requests, NEW t \in Targets, NEW wanted \in SUBSET Questions, BeginLaunch(r, t, wanted)
      PROVE  RunsStay /\ AnswersStay
  BY <1>2, <1>a, UnchangedStays DEF BeginLaunch, AnswersStay
<1>3. ASSUME NEW r \in Requests, NEW q \in Questions, FreezeQuestion(r, q)
      PROVE  RunsStay /\ AnswersStay
  BY <1>3, <1>a, UnchangedStays DEF FreezeQuestion, AnswersStay
<1>4. ASSUME NEW r \in Requests, Abort(r)
      PROVE  RunsStay /\ AnswersStay
  BY <1>4, <1>a, UnchangedStays DEF Abort, AnswersStay
<1>5. ASSUME NEW r \in Requests, NEW n \in RunIds, NEW wanted \in SUBSET Items, NEW p \in Pages,
             LookUpKey(r, n, wanted, p)
      PROVE  RunsStay /\ AnswersStay
  BY <1>5, <1>a, UnchangedStays DEF LookUpKey, AnswersStay
<1>6. ASSUME NEW r \in Requests, NEW n \in RunIds, KeyTaken(r, n)
      PROVE  RunsStay /\ AnswersStay
  BY <1>6, <1>a, UnchangedStays DEF KeyTaken, Retryable, Answer, AnswersStay
<1>7. ASSUME NEW r \in Requests, NEW n \in RunIds,
             \/ CommitLaunch(r, n) \/ InsertRetry(r, n) \/ InsertConversationRetry(r, n)
             \/ \E s \in Scenarios, t \in Targets : LaunchConversationScenario(r, n, s, t)
             \/ \E m \in RunIds, t \in Targets : LaunchReplay(r, n, m, t)
      PROVE  RunsStay /\ AnswersStay
  <2>1. ~Launched(n) /\ request[r].phase # "DONE" /\ ((\E m \in RunIds : Answer(r, m)) \/ Finish(r))
    BY <1>7 DEF CommitLaunch, InsertRetry, InsertConversationRetry, Retryable, LaunchConversationScenario, LaunchReplay
  <2>2. \E kind, t, revision, versions, source, key : Create(n, kind, t, revision, versions, source, key)
    BY <1>7 DEF CommitLaunch, InsertRetry, InsertConversationRetry, LaunchConversationScenario, LaunchReplay
  <2>3. RunsStay
    BY <1>a, <2>1, <2>2, CreateStays
  <2>4. AnswersStay
    BY <1>a, <2>1 DEF Answer, Finish, AnswersStay
  <2>5. QED BY <2>3, <2>4
<1>8. ASSUME NEW n \in RunIds, NEW x \in Items, Observe(n, x)
      PROVE  RunsStay /\ AnswersStay
  BY <1>8, <1>a, UnchangedStays DEF Observe, RunsStay, SameRun, RunRecords
<1>9. ASSUME NEW r \in Requests, LockConversation(r)
      PROVE  RunsStay /\ AnswersStay
  BY <1>9, <1>a, UnchangedStays DEF LockConversation, AnswersStay
<1>10. QED
  BY <1>1, <1>2, <1>3, <1>4, <1>5, <1>6, <1>7, <1>8, <1>9 DEF LaunchStep

\* What a lookup leaves in its request, whichever way it ends.
LEMMA LookUpForm ==
  ASSUME request \in [Requests -> RequestRecords], NEW r \in Requests, NEW n \in RunIds,
         NEW wanted \in SUBSET Items, NEW p \in Pages, LookUpKey(r, n, wanted, p)
  PROVE  /\ Launched(n) /\ UNCHANGED run /\ request[r].phase = "IDLE"
         /\ \A s \in Requests : s # r => request'[s] = request[s]
         /\ request'[r].wanted = wanted /\ request'[r].source = n /\ request'[r].page = p
         /\ request'[r].target = request[r].target
         /\ \/ request'[r].phase = "RETRY"
            \/ request'[r].phase = "DONE" /\ request'[r].answer \in Existing(KeyOf(p, n))
<1>. DEFINE asked == [request[r] EXCEPT !.wanted = wanted, !.source = n, !.page = p]
<1>1. /\ asked \in RequestRecords /\ asked.wanted = wanted /\ asked.source = n /\ asked.page = p
      /\ asked.target = request[r].target
  BY DEF RequestRecords
<1>2. \/ request' = [request EXCEPT ![r] = [asked EXCEPT !.phase = "RETRY"]]
      \/ \E m \in Existing(KeyOf(p, n)) :
            request' = [request EXCEPT ![r] = [asked EXCEPT !.phase = "DONE", !.answer = m]]
  BY DEF LookUpKey
<1>3. Launched(n) /\ UNCHANGED run /\ request[r].phase = "IDLE"
  BY DEF LookUpKey
<1>. HIDE DEF asked
<1>4. CASE request' = [request EXCEPT ![r] = [asked EXCEPT !.phase = "RETRY"]]
  BY <1>1, <1>3, <1>4 DEF RequestRecords
<1>5. ASSUME NEW m \in Existing(KeyOf(p, n)),
             request' = [request EXCEPT ![r] = [asked EXCEPT !.phase = "DONE", !.answer = m]]
      PROVE  /\ \A s \in Requests : s # r => request'[s] = request[s]
             /\ request'[r].wanted = wanted /\ request'[r].source = n /\ request'[r].page = p
             /\ request'[r].target = request[r].target
             /\ request'[r].phase = "DONE" /\ request'[r].answer = m
  BY <1>1, <1>5 DEF RequestRecords
<1>6. QED BY <1>2, <1>3, <1>4, <1>5

\* A launch step keeps what requests under way need.
LEMMA UnderwayKept ==
  ASSUME LaunchTypes, Underway, LaunchStep
  PROVE  Underway'
<1>a. run \in [RunIds -> RunRecords] /\ request \in [Requests -> RequestRecords]
  BY DEF LaunchTypes
<1>b. RunsStay /\ AnswersStay
  BY LaunchStays
<1>c. \A n : Launched(n) => Launched(n)'
  BY <1>b DEF RunsStay, SameRun, Launched
<1>d. UNCHANGED run => \A n \in RunIds : Launched(n)' => run'[n].target \in Targets
  BY DEF Underway, Launched
<1>e. ASSUME NEW r \in Requests, \A s \in Requests : s # r => request'[s] = request[s],
             request'[r].phase \in {"RERUN", "LAUNCH"} => request'[r].target \in Targets,
             request'[r].phase = "RETRY" => Launched(request'[r].source) /\ request'[r].page \in Pages,
             \A n \in RunIds : Launched(n)' => run'[n].target \in Targets
      PROVE  Underway'
  <2>1. ASSUME NEW s \in Requests
        PROVE  /\ request'[s].phase \in {"RERUN", "LAUNCH"} => request'[s].target \in Targets
               /\ request'[s].phase = "RETRY" => Launched(request'[s].source) /\ request'[s].page \in Pages
    <3>1. CASE s = r
      BY <1>e, <3>1
    <3>2. CASE s # r
      BY <1>e, <3>2 DEF Underway
    <3>3. QED BY <3>1, <3>2
  <2>2. \A n \in RunIds : run[n].kind # "NONE" => run'[n].kind # "NONE"
    BY <1>c DEF Launched
  <2>3. \A s \in Requests :
          request'[s].phase = "RETRY" =>
            /\ request'[s].source \in RunIds /\ run'[request'[s].source].kind # "NONE"
            /\ request'[s].page \in Pages
    BY <2>1, <2>2 DEF Launched
  <2>4. QED BY <1>e, <2>1, <2>3 DEF Underway, Launched
<1>1. ASSUME NEW r \in Requests, NEW n \in RunIds, NEW wanted \in SUBSET Questions, BeginRerun(r, n, wanted)
      PROVE  Underway'
  BY <1>1, <1>a, <1>d, <1>e DEF BeginRerun, Done, Underway
<1>2. ASSUME NEW r \in Requests, NEW t \in Targets, NEW wanted \in SUBSET Questions, BeginLaunch(r, t, wanted)
      PROVE  Underway'
  BY <1>2, <1>a, <1>d, <1>e DEF BeginLaunch
<1>3. ASSUME NEW r \in Requests, NEW q \in Questions, FreezeQuestion(r, q)
      PROVE  Underway'
  BY <1>3, <1>a, <1>d, <1>e DEF FreezeQuestion, Underway
<1>4. ASSUME NEW r \in Requests, Abort(r)
      PROVE  Underway'
  BY <1>4, <1>a, <1>d, <1>e DEF Abort, Idle
<1>5. ASSUME NEW r \in Requests, NEW n \in RunIds, NEW wanted \in SUBSET Items, NEW p \in Pages,
             LookUpKey(r, n, wanted, p)
      PROVE  Underway'
  <2>1. /\ \A s \in Requests : s # r => request'[s] = request[s]
        /\ request'[r].phase \in {"RETRY", "DONE"}
        /\ request'[r].source = n /\ request'[r].page = p
        /\ Launched(n) /\ UNCHANGED run
    BY <1>5, <1>a, LookUpForm
  <2>2. QED BY <2>1, <1>d, <1>e
<1>6. ASSUME NEW r \in Requests, NEW n \in RunIds, KeyTaken(r, n)
      PROVE  Underway'
  BY <1>6, <1>a, <1>d, <1>e DEF KeyTaken, Answer
<1>f. ASSUME NEW r \in Requests, NEW n \in RunIds, NEW kind, NEW t \in Targets, NEW revision, NEW versions,
             NEW source, NEW key, ~Launched(n), Create(n, kind, t, revision, versions, source, key),
             (\E m \in RunIds : Answer(r, m)) \/ Finish(r)
      PROVE  Underway'
  <2>1. \A m \in RunIds : m # n => run'[m] = run[m]
    BY <1>f, <1>a DEF Create
  <2>2. run'[n].target = t
    BY <1>f, <1>a DEF Create
  <2>3. \A m \in RunIds : Launched(m)' => run'[m].target \in Targets
    BY <2>1, <2>2 DEF Underway, Launched
  <2>4. request'[r].phase = "DONE" /\ \A s \in Requests : s # r => request'[s] = request[s]
    <3>1. CASE Finish(r)
      BY <3>1, <1>a DEF Finish, Idle
    <3>2. ASSUME NEW m \in RunIds, Answer(r, m)
          PROVE  request'[r].phase = "DONE" /\ \A s \in Requests : s # r => request'[s] = request[s]
      BY <3>2, <1>a DEF Answer, RequestRecords
    <3>3. QED BY <1>f, <3>1, <3>2
  <2>5. QED BY <2>3, <2>4, <1>e
<1>7. ASSUME NEW r \in Requests, NEW n \in RunIds, CommitLaunch(r, n)
      PROVE  Underway'
  <2>1. request[r].target \in Targets
    BY <1>7 DEF CommitLaunch, Underway
  <2>2. QED BY <1>7, <1>f, <2>1 DEF CommitLaunch
<1>8. ASSUME NEW r \in Requests, NEW n \in RunIds, InsertRetry(r, n) \/ InsertConversationRetry(r, n)
      PROVE  Underway'
  <2>1. request[r].phase = "RETRY"
    BY <1>8 DEF InsertRetry, InsertConversationRetry, Retryable
  <2>2. run[request[r].source].target \in Targets
    BY <2>1 DEF Underway, Launched
  <2>3. CASE InsertRetry(r, n)
    BY <2>3, <1>f, <2>2 DEF InsertRetry
  <2>4. CASE InsertConversationRetry(r, n)
    <3>1. request[r].target \in Targets
      BY <2>4, <1>a DEF InsertConversationRetry, Retryable, RequestRecords
    <3>2. QED BY <2>4, <1>f, <3>1 DEF InsertConversationRetry
  <2>5. QED BY <1>8, <2>3, <2>4
<1>9. ASSUME NEW r \in Requests, NEW n \in RunIds, NEW s \in Scenarios, NEW t \in Targets,
             LaunchConversationScenario(r, n, s, t)
      PROVE  Underway'
  BY <1>9, <1>f DEF LaunchConversationScenario
<1>10. ASSUME NEW r \in Requests, NEW n \in RunIds, NEW m \in RunIds, NEW t \in Targets, LaunchReplay(r, n, m, t)
       PROVE  Underway'
  BY <1>10, <1>f DEF LaunchReplay
<1>11. ASSUME NEW n \in RunIds, NEW x \in Items, Observe(n, x)
       PROVE  Underway'
  <2>1. \A m \in RunIds : run'[m].target = run[m].target /\ run'[m].kind = run[m].kind
    BY <1>11, <1>a DEF Observe, RunRecords
  <2>2. request' = request
    BY <1>11 DEF Observe
  <2>3. QED BY <2>1, <2>2, <1>c DEF Underway, Launched
<1>12. ASSUME NEW r \in Requests, LockConversation(r)
       PROVE  Underway'
  <2>1. /\ request'[r].phase = "RETRY" /\ request'[r].source = request[r].source
        /\ request'[r].page = request[r].page /\ request[r].phase = "RETRY"
        /\ UNCHANGED run /\ \A o \in Requests : o # r => request'[o] = request[o]
    BY <1>12, <1>a DEF LockConversation, RequestRecords
  <2>2. QED BY <2>1, <1>d, <1>e DEF Underway
<1>13. QED
  BY <1>1, <1>2, <1>3, <1>4, <1>5, <1>6, <1>7, <1>8, <1>9, <1>10, <1>11, <1>12 DEF LaunchStep

\* The initial states are well typed.
LEMMA InitTyped == Init => CatalogRunsTypeOK /\ Underway
<1> SUFFICES ASSUME Init PROVE CatalogRunsTypeOK /\ Underway
  OBVIOUS
<1>1. CatalogTypes
  <2>1. question \in [Items -> QuestionRecords]
    <3>1. FirstVersion("ACTIVE", "OTHER") \in QuestionRecords
      BY FirstVersionTyped DEF Lifecycles, Texts
    <3>2. QED BY <3>1, FirstVersionTyped DEF Init, CatalogInit
  <2>2. scenario \in [Scenarios -> ScenarioRecords]
    BY DEF Init, CatalogInit, ScenarioRecords, NoScenario, Lifecycles
  <2>3. target \in [Targets -> TargetRecords]
    <3>1. NoRevision \in TargetRecords
      BY DEF TargetRecords, NoRevision, Capabilities
    <3>2. [active |-> TRUE, revision |-> 1, capability |-> "SESSIONS"] \in TargetRecords
      BY DEF TargetRecords, Capabilities
    <3>3. QED BY <3>1, <3>2 DEF Init, CatalogInit
  <2>4. QED BY <2>1, <2>2, <2>3 DEF Init, CatalogInit, CatalogTypes
<1>2. ImportTypes
  BY DEF Init, ImportInit, ImportTypes, NoImport
<1>3. NotLaunched \in RunRecords /\ NotLaunched.terminal = {} /\ NotLaunched.kind = "NONE"
  BY DEF NotLaunched, RunRecords, Manifests, Nothing
<1>4. \A r \in Requests : request[r] = Idle
  BY DEF Init, LaunchInit
<1>5. request \in [Requests -> RequestRecords]
  BY IdleTyped DEF Init, LaunchInit
<1>6. CASE run = [n \in RunIds |-> NotLaunched]
  <2>1. LaunchTypes
    BY <1>3, <1>5, <1>6 DEF LaunchTypes
  <2>2. Underway
    BY <1>3, <1>4, <1>6 DEF Underway, Launched, Idle
  <2>3. QED BY <1>1, <1>2, <2>1, <2>2 DEF CatalogRunsTypeOK
<1>7. ASSUME NEW n \in RunIds, NEW t \in Targets, NEW members \in {Questions} \cup {{s} : s \in Scenarios},
             run = [[m \in RunIds |-> NotLaunched] EXCEPT ![n] = PastRun(t, members)]
      PROVE  CatalogRunsTypeOK /\ Underway
  <2>1. members \subseteq Items
    BY ItemParts
  <2>2. [x \in Items |-> IF x \in members THEN 1 ELSE 0] \in Manifests
    BY DEF Manifests
  <2>3. PastRun(t, members) \in RunRecords
    BY <2>1, <2>2 DEF PastRun, RunRecords, Kinds, Catalogued
  <2>4. PastRun(t, members).terminal \subseteq Members(PastRun(t, members).versions)
    BY <2>1 DEF PastRun, Members
  <2>5. PastRun(t, members).target = t
    BY DEF PastRun
  <2>6. /\ run[n] = PastRun(t, members) /\ \A m \in RunIds : m # n => run[m] = NotLaunched
        /\ run \in [RunIds -> RunRecords]
    BY <1>3, <1>7, <2>3
  <2>7. LaunchTypes
    BY <1>3, <1>5, <2>4, <2>6 DEF LaunchTypes
  <2>8. Underway
    BY <1>3, <1>4, <2>5, <2>6 DEF Underway, Launched, Idle
  <2>9. QED BY <1>1, <1>2, <2>7, <2>8 DEF CatalogRunsTypeOK
<1>8. QED BY <1>6, <1>7 DEF Init, LaunchInit

\* Every step keeps the types.
LEMMA NextTyped ==
  ASSUME CatalogRunsTypeOK, Underway, [Next]_vars
  PROVE  CatalogRunsTypeOK' /\ Underway'
<1>0. CatalogTypes /\ ImportTypes /\ LaunchTypes
  BY DEF CatalogRunsTypeOK
<1>a. UNCHANGED launchVars => Underway'
  BY DEF launchVars, Underway, Launched
<1>1. CASE (QuestionChanges \/ ScenarioChanges \/ TargetChanges) /\ UNCHANGED <<importVars, launchVars>>
  <2>1. CatalogTypes'
    BY <1>0, <1>1, CatalogTyped
  <2>2. QED BY <1>0, <1>1, <1>a, <2>1, TypesKept DEF CatalogRunsTypeOK
<1>2. CASE ImportStep /\ UNCHANGED launchVars
  <2>1. CatalogTypes' /\ ImportTypes'
    BY <1>0, <1>2, ImportTyped
  <2>2. QED BY <1>0, <1>2, <1>a, <2>1, TypesKept DEF CatalogRunsTypeOK
<1>3. CASE LaunchStep /\ UNCHANGED importVars
  <2>1. CatalogTypes' /\ LaunchTypes' /\ Underway'
    BY <1>0, <1>3, LaunchTyped, UnderwayKept
  <2>2. QED BY <1>0, <1>3, <2>1, TypesKept DEF CatalogRunsTypeOK
<1>4. CASE UNCHANGED vars
  BY <1>0, <1>4, <1>a, TypesKept DEF vars, CatalogRunsTypeOK
<1>5. QED BY <1>1, <1>2, <1>3, <1>4 DEF Next

\* The types, with what they rest on, hold in every state.
LEMMA Typed == Spec => [](CatalogRunsTypeOK /\ Underway)
<1>1. (CatalogRunsTypeOK /\ Underway) /\ [Next]_vars => (CatalogRunsTypeOK /\ Underway)'
  BY NextTyped
<1>2. QED BY <1>1, InitTyped, PTL DEF Spec

\* Every variable keeps its type, for any catalog, workbook, requests and Runs.
THEOREM TypeCorrect == Spec => []CatalogRunsTypeOK
BY Typed, PTL

-----------------------------------------------------------------------------
(* Companions.  Only the scenario's own services touch a companion: the    *)
(* question's services refuse it, and a workbook holds only questions.     *)

\* Companions are in step initially.
LEMMA InitCompanion == Init => CompanionInStep
BY DEF Init, CatalogInit, CompanionInStep, NoQuestion, NoScenario, FirstVersion, Items

\* Every step keeps companions in step.
LEMMA NextCompanion ==
  ASSUME CatalogRunsTypeOK, CompanionInStep, [Next]_vars
  PROVE  CompanionInStep'
<1>. USE DEF CompanionInStep
<1>0. /\ question \in [Items -> QuestionRecords] /\ scenario \in [Scenarios -> ScenarioRecords]
      /\ importing \in [Importers -> [phase : {"IDLE", "RUNNING"},
                                      created : SUBSET Corpus, reused : SUBSET Corpus]]
  BY DEF CatalogRunsTypeOK, CatalogTypes, ImportTypes
<1>1. UNCHANGED <<question, scenario>> => CompanionInStep'
  OBVIOUS
<1>2. ASSUME UNCHANGED scenario, \A s \in Scenarios : question'[s] = question[s]
      PROVE  CompanionInStep'
  BY <1>2
<1>3. CASE QuestionChanges
  <2>1. PICK q \in Items :
          \/ \E l \in Lifecycles, text \in Texts : CreateQuestion(q, l, text)
          \/ \E text \in Texts : CreateQuestionVersion(q, text)
          \/ \E l \in Lifecycles : SetQuestionLifecycle(q, l)
    BY <1>3 DEF QuestionChanges, TextsOf, Texts
  <2>2. q \notin Scenarios
    BY <2>1, CatalogAssumption DEF CreateQuestion, CreateQuestionVersion, SetQuestionLifecycle, Independent
  <2>3. UNCHANGED scenario /\ \A s \in Scenarios : question'[s] = question[s]
    BY <2>1, <2>2, <1>0, ItemParts DEF CreateQuestion, CreateQuestionVersion, SetQuestionLifecycle
  <2>4. QED BY <2>3, <1>2
<1>4. CASE ScenarioChanges
  <2>1. PICK s \in Scenarios :
          \/ \E l \in Lifecycles : CreateScenario(s, l) \/ UpdateScenarioMetadata(s, l)
          \/ CreateScenarioVersion(s)
    BY <1>4 DEF ScenarioChanges
  <2>2. \A o \in Scenarios : o # s => question'[o] = question[o] /\ scenario'[o] = scenario[o]
    BY <2>1, <1>0, ItemParts DEF CreateScenario, UpdateScenarioMetadata, CreateScenarioVersion
  <2>3. scenario'[s].lifecycle = question'[s].lifecycle /\ scenario'[s].companion = question'[s].version
    <3>a. question[s] \in QuestionRecords /\ scenario[s] \in ScenarioRecords /\ s \in Items
      BY <1>0, ItemParts
    <3>1. ASSUME NEW l \in Lifecycles, CreateScenario(s, l)
          PROVE  scenario'[s].lifecycle = question'[s].lifecycle /\ scenario'[s].companion = question'[s].version
      BY <3>1, <3>a, <1>0 DEF CreateScenario, FirstVersion
    <3>2. ASSUME NEW l \in Lifecycles, UpdateScenarioMetadata(s, l)
          PROVE  scenario'[s].lifecycle = question'[s].lifecycle /\ scenario'[s].companion = question'[s].version
      BY <3>2, <3>a, <1>0 DEF UpdateScenarioMetadata, QuestionRecords, ScenarioRecords
    <3>3. ASSUME CreateScenarioVersion(s)
          PROVE  scenario'[s].lifecycle = question'[s].lifecycle /\ scenario'[s].companion = question'[s].version
      BY <3>3, <3>a, <1>0 DEF CreateScenarioVersion, QuestionRecords, ScenarioRecords
    <3>4. QED BY <2>1, <3>1, <3>2, <3>3
  <2>4. QED BY <2>2, <2>3
<1>5. CASE TargetChanges
  BY <1>5, <1>1 DEF TargetChanges, CreateTarget, UpdateTarget, CreateTargetRevision
<1>6. CASE ImportStep
  <2>1. PICK i \in Importers :
          \/ BeginImport(i) \/ CommitImport(i) \/ RollBackImport(i)
          \/ \E q \in Corpus : ImportQuestion(i, q)
    BY <1>6 DEF ImportStep
  <2>2. CASE CommitImport(i)
    <3>1. \A s \in Scenarios : s \notin importing[i].created
      BY <1>0, ImportAssumption, CatalogAssumption
    <3>2. UNCHANGED scenario /\ \A s \in Scenarios : question'[s] = question[s]
      BY <2>2, <3>1, ItemParts DEF CommitImport
    <3>3. QED BY <3>2, <1>2
  <2>3. CASE BeginImport(i) \/ RollBackImport(i) \/ \E q \in Corpus : ImportQuestion(i, q)
    BY <2>3, <1>1 DEF BeginImport, RollBackImport, ImportQuestion, catalogVars
  <2>4. QED BY <2>1, <2>2, <2>3
<1>7. CASE LaunchStep
  <2>1. UNCHANGED catalogVars
    BY <1>7, LaunchLeavesCatalog
  <2>2. QED BY <2>1, <1>1 DEF catalogVars
<1>8. CASE UNCHANGED vars
  BY <1>8, <1>1 DEF vars, catalogVars
<1>9. QED BY <1>3, <1>4, <1>5, <1>6, <1>7, <1>8 DEF Next

\* A scenario and its companion Question never part: same lifecycle, and the
\* current version of the one names the current version of the other, however
\* question changes, scenario changes and imports interleave.
THEOREM CompanionsInStep == Spec => []CompanionInStep
<1>1. (CatalogRunsTypeOK /\ CompanionInStep) /\ [Next]_vars => CompanionInStep'
  BY NextCompanion
<1>2. QED BY <1>1, InitCompanion, TypeCorrect, PTL DEF Spec

-----------------------------------------------------------------------------
(* Imports.  What a running import has created is absent from the catalog  *)
(* until it commits, as everybody else who would create it waits, and no   *)
(* two imports created the same question.                                  *)

CreatedAbsent ==
  \A i \in Importers : \A q \in importing[i].created :
    /\ ~Exists(q)
    /\ \A j \in Importers : q \in importing[j].created => i = j

\* No import runs initially.
LEMMA InitCreated == Init => CreatedAbsent
BY DEF Init, ImportInit, NoImport, CreatedAbsent

\* Every step keeps what imports created absent, and apart.
LEMMA NextCreated ==
  ASSUME CatalogRunsTypeOK, CreatedAbsent, [Next]_vars
  PROVE  CreatedAbsent'
<1>. USE DEF CreatedAbsent
<1>0. /\ question \in [Items -> QuestionRecords]
      /\ importing \in [Importers -> [phase : {"IDLE", "RUNNING"},
                                      created : SUBSET Corpus, reused : SUBSET Corpus]]
  BY DEF CatalogRunsTypeOK, CatalogTypes, ImportTypes
<1>1. \A i \in Importers : importing[i].created \subseteq Corpus
  BY <1>0
<1>2. Corpus \subseteq Items /\ Corpus \cap Scenarios = {}
  BY ImportAssumption, CatalogAssumption DEF Items
<1>3. ASSUME UNCHANGED importing, \A q \in Corpus : Uncommitted(q) => question'[q].lifecycle = question[q].lifecycle
      PROVE  CreatedAbsent'
  BY <1>1, <1>3 DEF Exists, Uncommitted
<1>4. CASE QuestionChanges /\ UNCHANGED importVars
  <2>1. PICK q \in Items :
          \/ \E l \in Lifecycles, text \in Texts : ~Uncommitted(q) /\ CreateQuestion(q, l, text)
          \/ \E text \in Texts : CreateQuestionVersion(q, text)
          \/ \E l \in Lifecycles : SetQuestionLifecycle(q, l)
    BY <1>4 DEF QuestionChanges, TextsOf, Texts
  <2>2. ~Uncommitted(q)
    BY <2>1 DEF CreateQuestionVersion, SetQuestionLifecycle, Independent, Uncommitted
  <2>3. \A o \in Items : o # q => question'[o] = question[o]
    BY <2>1, <1>0 DEF CreateQuestion, CreateQuestionVersion, SetQuestionLifecycle
  <2>4. QED BY <2>2, <2>3, <1>2, <1>3, <1>4 DEF importVars
<1>5. CASE ScenarioChanges /\ UNCHANGED importVars
  <2>1. PICK s \in Scenarios :
          \/ \E l \in Lifecycles : CreateScenario(s, l) \/ UpdateScenarioMetadata(s, l)
          \/ CreateScenarioVersion(s)
    BY <1>5 DEF ScenarioChanges
  <2>2. \A o \in Items : o # s => question'[o] = question[o]
    BY <2>1, <1>0 DEF CreateScenario, UpdateScenarioMetadata, CreateScenarioVersion
  <2>3. QED BY <2>2, <1>2, <1>3, <1>5 DEF importVars
<1>6. CASE TargetChanges /\ UNCHANGED importVars
  <2>1. UNCHANGED question
    BY <1>6 DEF TargetChanges, CreateTarget, UpdateTarget, CreateTargetRevision
  <2>2. QED BY <2>1, <1>3, <1>6 DEF importVars
<1>7. ASSUME NEW i \in Importers, BeginImport(i) \/ RollBackImport(i)
      PROVE  CreatedAbsent'
  <2>1. UNCHANGED question
    BY <1>7 DEF BeginImport, RollBackImport, catalogVars
  <2>2. \A j \in Importers : importing'[j].created \subseteq importing[j].created
    BY <1>7, <1>0 DEF BeginImport, RollBackImport, NoImport
  <2>3. QED BY <2>1, <2>2 DEF Exists
<1>8. ASSUME NEW i \in Importers, NEW q \in Corpus, ImportQuestion(i, q)
      PROVE  CreatedAbsent'
  <2>1. UNCHANGED question /\ ~Uncommitted(q)
    BY <1>8 DEF ImportQuestion, catalogVars
  <2>2. CASE Exists(q)
    <3>1. \A j \in Importers : importing'[j].created = importing[j].created
      BY <1>8, <2>2, <1>0 DEF ImportQuestion
    <3>2. QED BY <2>1, <3>1 DEF Exists
  <2>3. CASE ~Exists(q)
    <3>1. /\ importing'[i].created = importing[i].created \cup {q}
          /\ \A j \in Importers : j # i => importing'[j].created = importing[j].created
      BY <1>8, <2>3, <1>0 DEF ImportQuestion
    <3>2. QED BY <2>1, <2>3, <3>1 DEF Exists, Uncommitted
  <2>4. QED BY <2>2, <2>3
<1>9. ASSUME NEW i \in Importers, CommitImport(i)
      PROVE  CreatedAbsent'
  <2>1. importing'[i].created = {} /\ \A j \in Importers : j # i => importing'[j] = importing[j]
    BY <1>9, <1>0 DEF CommitImport, NoImport
  <2>2. \A q \in Items : q \notin importing[i].created => question'[q] = question[q]
    BY <1>9 DEF CommitImport
  <2>3. QED BY <1>1, <1>2, <2>1, <2>2 DEF Exists
<1>10. CASE LaunchStep /\ UNCHANGED importVars
  BY <1>10, <1>3, LaunchLeavesCatalog DEF catalogVars, importVars
<1>11. CASE UNCHANGED vars
  BY <1>11, <1>3 DEF vars, catalogVars, importVars
<1>12. QED BY <1>4, <1>5, <1>6, <1>7, <1>8, <1>9, <1>10, <1>11 DEF Next, ImportStep

\* An import overwrites no question, however long it takes from its check to
\* its commit and whatever is created, changed or imported meanwhile.
THEOREM ImportsKeepQuestions == Spec => ImportKeepsQuestions
<1>. DEFINE Kept == batches' # batches => \A q \in Items : Exists(q) => question'[q] = question[q]
<1>1. CreatedAbsent /\ [Next]_vars => Kept \/ UNCHANGED <<catalogVars, importVars>>
  <2> SUFFICES ASSUME CreatedAbsent, [Next]_vars, batches' # batches
               PROVE  \A q \in Items : Exists(q) => question'[q] = question[q]
    OBVIOUS
  <2>1. PICK i \in Importers : CommitImport(i)
    <3>1. ImportStep
      BY DEF Next, vars, importVars
    <3>2. QED BY <3>1 DEF ImportStep, BeginImport, RollBackImport, ImportQuestion
  <2>2. QED BY <2>1 DEF CommitImport, CreatedAbsent
<1>. HIDE DEF Kept
<1>2. (CatalogRunsTypeOK /\ CreatedAbsent) /\ [Next]_vars => CreatedAbsent'
  BY NextCreated
<1>3. CreatedAbsent /\ [Next]_vars => [Kept]_<<catalogVars, importVars>>
  BY <1>1
<1>4. Spec => [][Kept]_<<catalogVars, importVars>>
  BY <1>2, <1>3, InitCreated, TypeCorrect, PTL DEF Spec
<1>5. QED BY <1>4 DEF ImportKeepsQuestions, Kept

-----------------------------------------------------------------------------
(* Launches.  A target that is held keeps the revision that its holder has *)
(* read, and one that a launch holds stays active: a change to it waits.   *)

Current(q) == target[q.target].capability # "NONE" /\ target[q.target].revision = q.revision

Holds(q) ==
  /\ q.phase = "IDLE" => q.target = "NONE"
  /\ q.phase = "LAUNCH" => Current(q) /\ target[q.target].active
  /\ q.phase = "RETRY" /\ q.target # "NONE" => Current(q)

TargetHeld == \A r \in Requests : Holds(request[r])

\* Nothing is held initially.
LEMMA InitHeld == Init => TargetHeld
BY DEF Init, LaunchInit, Idle, TargetHeld, Holds

\* What a launch step leaves held was held before, or has just been read.
LEMMA LaunchesHold ==
  ASSUME LaunchTypes, TargetHeld, LaunchStep
  PROVE  \A r \in Requests : Holds(request'[r])
<1>. DEFINE Kept == \A r \in Requests : Holds(request'[r])
<1>0. request \in [Requests -> RequestRecords]
  BY DEF LaunchTypes
<1>a. ASSUME NEW r \in Requests, \A o \in Requests : o # r => request'[o] = request[o], Holds(request'[r])
      PROVE  Kept
  BY <1>a DEF TargetHeld
<1>b. ASSUME UNCHANGED request
      PROVE  Kept
  BY <1>b DEF TargetHeld
<1>c. \A q : q.phase \in {"RERUN", "DONE"} => Holds(q)
  BY DEF Holds
<1>. HIDE DEF Kept
<1>1. ASSUME NEW r \in Requests, NEW n \in RunIds, NEW wanted \in SUBSET Questions, BeginRerun(r, n, wanted)
      PROVE  Kept
  <2>1. request'[r].phase = "RERUN" /\ \A o \in Requests : o # r => request'[o] = request[o]
    BY <1>1, <1>0 DEF BeginRerun, RequestRecords
  <2>2. QED BY <2>1, <1>a, <1>c
<1>2. ASSUME NEW r \in Requests, NEW t \in Targets, NEW wanted \in SUBSET Questions, BeginLaunch(r, t, wanted)
      PROVE  Kept
  <2>1. /\ request'[r].phase = "LAUNCH" /\ request'[r].target = t /\ request'[r].revision = target[t].revision
        /\ \A o \in Requests : o # r => request'[o] = request[o]
    BY <1>2, <1>0 DEF BeginLaunch, RequestRecords
  <2>2. target[t].active /\ target[t].capability # "NONE"
    BY <1>2 DEF BeginLaunch
  <2>3. Holds(request'[r])
    BY <2>1, <2>2 DEF Holds, Current
  <2>4. QED BY <2>1, <2>3, <1>a
<1>3. ASSUME NEW r \in Requests, NEW q \in Questions, FreezeQuestion(r, q)
      PROVE  Kept
  <2>1. /\ request[r].phase = "LAUNCH" /\ request'[r].phase = "LAUNCH"
        /\ request'[r].target = request[r].target /\ request'[r].revision = request[r].revision
        /\ \A o \in Requests : o # r => request'[o] = request[o]
    BY <1>3, <1>0 DEF FreezeQuestion, RequestRecords
  <2>2. Holds(request'[r])
    BY <2>1 DEF TargetHeld, Holds, Current
  <2>3. QED BY <2>1, <2>2, <1>a
<1>4. ASSUME NEW r \in Requests, Abort(r)
      PROVE  Kept
  <2>1. request'[r] = Idle /\ \A o \in Requests : o # r => request'[o] = request[o]
    BY <1>4, <1>0 DEF Abort
  <2>2. QED BY <2>1, <1>a DEF Holds, Idle
<1>5. ASSUME NEW r \in Requests, NEW n \in RunIds, NEW wanted \in SUBSET Items, NEW p \in Pages,
             LookUpKey(r, n, wanted, p)
      PROVE  Kept
  <2>1. /\ request[r].phase = "IDLE" /\ request'[r].phase \in {"RETRY", "DONE"}
        /\ request'[r].target = request[r].target
        /\ \A o \in Requests : o # r => request'[o] = request[o]
    BY <1>5, <1>0, LookUpForm
  <2>2. Holds(request'[r])
    BY <2>1 DEF TargetHeld, Holds
  <2>3. QED BY <2>1, <2>2, <1>a
\* The lock of a conversation's target, from the read of its revision on.
<1>6. ASSUME NEW r \in Requests, LockConversation(r)
      PROVE  Kept
  <2>1. PICK t : /\ request'[r].phase = "RETRY" /\ request'[r].target = t
                 /\ request'[r].revision = target[t].revision
                 /\ target[t].capability # "NONE"
                 /\ \A o \in Requests : o # r => request'[o] = request[o]
    BY <1>6, <1>0 DEF LockConversation, RequestRecords
  <2>2. Holds(request'[r])
    BY <2>1 DEF Holds, Current
  <2>3. QED BY <2>1, <2>2, <1>a
<1>7. ASSUME NEW r \in Requests, Finish(r)
      PROVE  Kept
  <2>1. request'[r].phase = "DONE" /\ \A o \in Requests : o # r => request'[o] = request[o]
    BY <1>7, <1>0 DEF Finish, Idle
  <2>2. QED BY <2>1, <1>a, <1>c
<1>8. ASSUME NEW r \in Requests, NEW n \in RunIds, Answer(r, n)
      PROVE  Kept
  <2>1. request'[r].phase = "DONE" /\ \A o \in Requests : o # r => request'[o] = request[o]
    BY <1>8, <1>0 DEF Answer, RequestRecords
  <2>2. QED BY <2>1, <1>a, <1>c
<1>9. ASSUME NEW r \in Requests, NEW n \in RunIds, CommitLaunch(r, n)
      PROVE  Kept
  BY <1>9, <1>7 DEF CommitLaunch
<1>10. ASSUME NEW r \in Requests, NEW n \in RunIds, NEW s \in Scenarios, NEW t \in Targets,
              LaunchConversationScenario(r, n, s, t)
       PROVE  Kept
  BY <1>10, <1>7 DEF LaunchConversationScenario
<1>11. ASSUME NEW r \in Requests, NEW n \in RunIds, NEW m \in RunIds, NEW t \in Targets, LaunchReplay(r, n, m, t)
       PROVE  Kept
  BY <1>11, <1>7 DEF LaunchReplay
<1>12. ASSUME NEW r \in Requests, NEW n \in RunIds,
              KeyTaken(r, n) \/ InsertRetry(r, n) \/ InsertConversationRetry(r, n)
       PROVE  Kept
  BY <1>12, <1>8 DEF KeyTaken, InsertRetry, InsertConversationRetry
<1>13. ASSUME NEW n \in RunIds, NEW x \in Items, Observe(n, x)
       PROVE  Kept
  BY <1>13, <1>b DEF Observe
<1>14. Kept
  BY <1>1, <1>2, <1>3, <1>4, <1>5, <1>6, <1>9, <1>10, <1>11, <1>12, <1>13 DEF LaunchStep
<1>15. QED BY <1>14 DEF Kept

\* Every step leaves a held target as it was read.
LEMMA NextHeld ==
  ASSUME CatalogRunsTypeOK, Underway, TargetHeld, [Next]_vars
  PROVE  TargetHeld'
<1>0. target \in [Targets -> TargetRecords]
  BY DEF CatalogRunsTypeOK, CatalogTypes
<1>1. CASE LaunchStep
  BY <1>1, LaunchesHold, LaunchLeavesCatalog DEF CatalogRunsTypeOK, TargetHeld, Holds, Current, catalogVars
<1>2. CASE TargetChanges /\ UNCHANGED launchVars
  <2>1. PICK t \in Targets :
          \/ \E c \in Capabilities, active \in BOOLEAN : CreateTarget(t, active, c)
          \/ \E active \in BOOLEAN : ~Locked(t) /\ UpdateTarget(t, active)
          \/ \E c \in Capabilities : ~Locked(t) /\ CreateTargetRevision(t, c)
    BY <1>2 DEF TargetChanges
  <2>2. target[t].capability = "NONE" \/ ~Locked(t)
    BY <2>1 DEF CreateTarget, NoRevision
  <2>3. ASSUME NEW r \in Requests,
               request[r].phase = "LAUNCH" \/ (request[r].phase = "RETRY" /\ request[r].target # "NONE")
        PROVE  request[r].target \in Targets \ {t}
    <3>1. request[r].target \in Targets
      BY <2>3 DEF Underway, CatalogRunsTypeOK, LaunchTypes, RequestRecords
    <3>2. Current(request[r])
      BY <2>3 DEF TargetHeld, Holds
    <3>3. QED BY <2>2, <2>3, <3>1, <3>2, Zenon DEF Locked, Current
  <2>4. \A o \in Targets : o # t => target'[o] = target[o]
    BY <2>1, <1>0 DEF CreateTarget, UpdateTarget, CreateTargetRevision
  <2>5. ASSUME NEW r \in Requests
        PROVE  Holds(request[r])'
    <3>1. PICK q : q = request[r] /\ q = request'[r] /\ Holds(q)
      BY <1>2 DEF TargetHeld, launchVars
    <3>2. q.phase = "LAUNCH" \/ (q.phase = "RETRY" /\ q.target # "NONE") => target'[q.target] = target[q.target]
      BY <2>3, <2>4, <3>1
    <3>3. Holds(q)'
      BY <3>1, <3>2 DEF Holds, Current
    <3>4. QED BY <3>1, <3>3 DEF Holds, Current
  <2>6. QED BY <2>5 DEF TargetHeld
<1>3. CASE UNCHANGED <<target, launchVars>>
  BY <1>3 DEF TargetHeld, Holds, Current, launchVars
<1>4. QuestionChanges \/ ScenarioChanges => UNCHANGED target
  BY DEF QuestionChanges, ScenarioChanges, CreateQuestion, CreateQuestionVersion, SetQuestionLifecycle,
         CreateScenario, UpdateScenarioMetadata, CreateScenarioVersion
<1>5. ImportStep => UNCHANGED target
  BY DEF ImportStep, BeginImport, ImportQuestion, CommitImport, RollBackImport, catalogVars
<1>6. QED BY <1>1, <1>2, <1>3, <1>4, <1>5 DEF Next, vars, catalogVars

\* A Run launched through the catalog goes to a target that is active and at
\* the revision that is current, though the launch may have read them long ago
\* and administrators deactivate and revise targets all the time; the retry of a
\* conversation goes to the revision that is current, though it read it before
\* it inserted its Run.
THEOREM LaunchesHoldTarget == Spec => LaunchHoldsTarget
<1>. DEFINE Held ==
       \A n \in RunIds :
         ~Launched(n) /\ run'[n].kind \in Catalogued \cup {"CONVERSATION_RETRY"} =>
           LET t == run'[n].target
           IN  /\ target'[t].revision = run'[n].revision
               /\ run'[n].kind \in Catalogued => target'[t].active
<1>1. CatalogRunsTypeOK /\ TargetHeld /\ [Next]_vars => Held \/ UNCHANGED <<catalogVars, launchVars>>
  <2> SUFFICES ASSUME CatalogRunsTypeOK, TargetHeld, [Next]_vars, NEW m \in RunIds,
                      ~Launched(m), run'[m].kind \in Catalogued \cup {"CONVERSATION_RETRY"}
               PROVE  /\ target'[run'[m].target].revision = run'[m].revision
                      /\ run'[m].kind \in Catalogued => target'[run'[m].target].active
    OBVIOUS
  <2>0. run \in [RunIds -> RunRecords] /\ request \in [Requests -> RequestRecords]
    BY DEF CatalogRunsTypeOK, LaunchTypes
  <2>1. "NONE" \notin Catalogued /\ "RETRY" \notin Catalogued /\ "CONVERSATION_RETRY" \notin Catalogued
    BY DEF Catalogued
  <2>2. run'[m] # run[m]
    BY <2>1 DEF Launched
  <2>3. LaunchStep
    BY <2>2 DEF Next, vars, launchVars
  <2>4. UNCHANGED target
    BY <2>3, LaunchLeavesCatalog DEF catalogVars
  <2>5. ASSUME NEW n \in RunIds, NEW kind \in Kinds, NEW t, NEW revision, NEW versions, NEW source, NEW key,
               Create(n, kind, t, revision, versions, source, key)
        PROVE  run'[m].kind = kind /\ run'[m].target = t /\ run'[m].revision = revision
    BY <2>2, <2>5, <2>0 DEF Create
  <2>6. ASSUME NEW r \in Requests, NEW n \in RunIds, CommitLaunch(r, n)
        PROVE  run'[m].target = request[r].target /\ run'[m].revision = request[r].revision
               /\ request[r].phase = "LAUNCH"
    BY <2>5, <2>6 DEF CommitLaunch, Kinds, Catalogued
  <2>7. ASSUME NEW r \in Requests, NEW n \in RunIds, NEW s \in Scenarios, NEW t \in Targets,
               LaunchConversationScenario(r, n, s, t)
        PROVE  run'[m].target = t /\ run'[m].revision = target[t].revision /\ target[t].active
    BY <2>5, <2>7 DEF LaunchConversationScenario, Kinds, Catalogued
  <2>8. ASSUME NEW r \in Requests, NEW n \in RunIds, NEW o \in RunIds, NEW t \in Targets, LaunchReplay(r, n, o, t)
        PROVE  run'[m].target = t /\ run'[m].revision = target[t].revision /\ target[t].active
    BY <2>5, <2>8 DEF LaunchReplay, Kinds, Catalogued
  <2>9. ASSUME NEW r \in Requests, NEW n \in RunIds, InsertRetry(r, n)
        PROVE  FALSE
    <3>1. run'[m].kind = "RETRY"
      BY <2>5, <2>9 DEF InsertRetry, Kinds, Exact
    <3>2. QED BY <3>1, <2>1
  <2>10. ASSUME NEW n \in RunIds, NEW x \in Items, Observe(n, x)
         PROVE  FALSE
    <3>1. run'[m].kind = run[m].kind
      BY <2>10, <2>0 DEF Observe, RunRecords
    <3>2. QED BY <3>1, <2>1 DEF Launched
  <2>11. run' # run
    BY <2>2
  <2>12. ASSUME NEW r \in Requests, NEW n \in RunIds, NEW wanted \in SUBSET Items, NEW p \in Pages,
                LookUpKey(r, n, wanted, p)
         PROVE  FALSE
    BY <2>12, <2>0, <2>2, LookUpForm
  <2>13. CASE \E r \in Requests, n \in RunIds : CommitLaunch(r, n)
    BY <2>13, <2>6, <2>4 DEF TargetHeld, Holds, Current
  <2>14. CASE \E r \in Requests, n \in RunIds, t \in Targets :
                \/ \E x \in Scenarios : LaunchConversationScenario(r, n, x, t)
                \/ \E o \in RunIds : LaunchReplay(r, n, o, t)
    BY <2>14, <2>7, <2>8, <2>4
  <2>15. \A r \in Requests, n \in RunIds, wanted \in SUBSET Questions : ~BeginRerun(r, n, wanted)
    BY <2>11 DEF BeginRerun
  <2>16. \A r \in Requests, t \in Targets, wanted \in SUBSET Questions : ~BeginLaunch(r, t, wanted)
    BY <2>11 DEF BeginLaunch
  <2>17. \A r \in Requests, n \in RunIds : ~KeyTaken(r, n)
    BY <2>11 DEF KeyTaken
  <2>18. \A r \in Requests, q \in Questions : ~FreezeQuestion(r, q)
    BY <2>11 DEF FreezeQuestion
  <2>19. \A r \in Requests : ~Abort(r) /\ ~LockConversation(r)
    BY <2>11 DEF Abort, LockConversation
  <2>20. \E r \in Requests, n \in RunIds :
           \/ CommitLaunch(r, n) \/ InsertConversationRetry(r, n)
           \/ \E t \in Targets : \/ \E x \in Scenarios : LaunchConversationScenario(r, n, x, t)
                                 \/ \E o \in RunIds : LaunchReplay(r, n, o, t)
    BY <2>3, <2>9, <2>10, <2>12, <2>15, <2>16, <2>17, <2>18, <2>19 DEF LaunchStep
  <2>21. ASSUME NEW r \in Requests, NEW n \in RunIds, InsertConversationRetry(r, n)
         PROVE  /\ run'[m].target = request[r].target /\ run'[m].revision = request[r].revision
                /\ run'[m].kind = "CONVERSATION_RETRY" /\ request[r].phase = "RETRY" /\ request[r].target # "NONE"
    BY <2>5, <2>21 DEF InsertConversationRetry, Retryable, Kinds, Exact
  <2>22. CASE \E r \in Requests, n \in RunIds : InsertConversationRetry(r, n)
    BY <2>22, <2>21, <2>1, <2>4 DEF TargetHeld, Holds, Current
  <2>23. QED BY <2>13, <2>14, <2>20, <2>22
<1>. HIDE DEF Held
<1>2. TargetHeld /\ CatalogRunsTypeOK /\ [Next]_vars => [Held]_<<catalogVars, launchVars>>
  BY <1>1
<1>3. (CatalogRunsTypeOK /\ Underway) /\ TargetHeld /\ [Next]_vars => TargetHeld'
  BY NextHeld
<1>4. Spec => [][Held]_<<catalogVars, launchVars>>
  BY <1>2, <1>3, InitHeld, Typed, PTL DEF Spec
<1>5. QED BY <1>4 DEF LaunchHoldsTarget, Held

-----------------------------------------------------------------------------
(* Retries.  A key says which observation was asked for again: the key of  *)
(* a Run that repeats a conversation is its source, and that of any other  *)
(* retry is a page that some request has submitted for it.                 *)

Paged(r) == request[r].page \in Pages

\* What a page is about: part of a Run, all of it for a conversation.
Asks(r, n) ==
  /\ request[r].source = n /\ Launched(n)
  /\ request[r].wanted \subseteq Members(run[n].versions)
  /\ Conversation(n) => request[r].wanted = Members(run[n].versions)

PagesFit ==
  /\ \A r \in Requests : Paged(r) => request[r].phase \in {"RETRY", "DONE"} /\ \E n \in RunIds : Asks(r, n)
  /\ \A q, r \in Requests : Paged(r) /\ request[q].page = request[r].page =>
       request[q].source = request[r].source /\ request[q].wanted = request[r].wanted

\* Run n repeats what request r asked of Run m.
Repeats(n, r, m) ==
  /\ request[r].source = m /\ run[n].source = m /\ Members(run[n].versions) = request[r].wanted

KeysFit ==
  \A n \in RunIds : Launched(n) =>
    /\ \A m \in RunIds : run[n].key = m =>
         /\ run[n].source = m /\ Launched(m) /\ Conversation(m)
         /\ Members(run[n].versions) = Members(run[m].versions)
    /\ \A p \in Pages : run[n].key = p =>
         \E r \in Requests, m \in RunIds :
           request[r].phase = "DONE" /\ request[r].page = p /\ Launched(m) /\ ~Conversation(m) /\ Repeats(n, r, m)

KeysUnique ==
  \A m, n \in RunIds : Launched(m) /\ Launched(n) /\ run[m].key = run[n].key /\ run[m].key # NoKey => m = n

AnswersFit ==
  \A r \in Requests : \A p \in Pages : request[r].phase = "DONE" /\ request[r].page = p =>
    \E m, n \in RunIds : request[r].answer = n /\ Launched(m) /\ Carries(n, KeyOf(p, m)) /\ Repeats(n, r, m)

RetryInv == PagesFit /\ KeysFit /\ KeysUnique /\ AnswersFit

\* The invariant says what it is for.
LEMMA InvImpliesOnce == LaunchTypes /\ RetryInv => RetryOnce
<1> SUFFICES ASSUME LaunchTypes, RetryInv PROVE RetryOnce
  OBVIOUS
<1>1. ASSUME NEW r \in Requests, request[r].phase = "DONE", request[r].page # NoPage
      PROVE  /\ Carries(request[r].answer, Key(r))
             /\ run[request[r].answer].source = request[r].source
             /\ Members(run[request[r].answer].versions) = request[r].wanted
  <2>1. request[r].page \in Pages
    BY <1>1 DEF LaunchTypes, RequestRecords
  <2>2. QED BY <1>1, <2>1 DEF RetryInv, AnswersFit, Repeats, Key
<1>2. QED BY <1>1 DEF RetryInv, KeysUnique, RetryOnce

\* Initially there is no page and no key.
LEMMA InitRetry == Init => RetryInv
<1> SUFFICES ASSUME Init PROVE RetryInv
  OBVIOUS
<1>1. \A r \in Requests : request[r].page = NoPage
  BY DEF Init, LaunchInit, Idle
<1>2. \A n \in RunIds : run[n].key = NoKey
  BY DEF Init, LaunchInit, NotLaunched, PastRun
<1>3. QED BY <1>1, <1>2 DEF RetryInv, PagesFit, KeysFit, KeysUnique, AnswersFit, Paged

\* Whoever finds a Run under the key of his page finds one that repeats what
\* the page is about.
LEMMA KeyRepeats ==
  ASSUME RetryInv, NEW p \in Pages, NEW n \in RunIds, NEW wanted, PageOf(p, n, wanted),
         Conversation(n) => wanted = Members(run[n].versions), NEW m \in Existing(KeyOf(p, n))
  PROVE  run[m].source = n /\ Members(run[m].versions) = wanted
<1>1. m \in RunIds /\ Launched(m) /\ run[m].key = KeyOf(p, n)
  BY DEF Existing, Carries
<1>2. CASE Conversation(n)
  BY <1>1, <1>2 DEF KeyOf, RetryInv, KeysFit
<1>3. CASE ~Conversation(n)
  BY <1>1, <1>3 DEF KeyOf, RetryInv, KeysFit, PageOf, Repeats
<1>4. QED BY <1>2, <1>3

\* What a launched Run keeps.
LEMMA StayingRuns ==
  ASSUME RunsStay, NEW n \in RunIds, Launched(n)
  PROVE  /\ Launched(n)' /\ run'[n].versions = run[n].versions /\ run'[n].source = run[n].source
         /\ run'[n].key = run[n].key /\ Conversation(n)' = Conversation(n)
BY DEF RunsStay, SameRun, Launched, Conversation

\* An unchanged request still asks for what it asked, and a Run repeats what
\* it repeated.
LEMMA StayingRequests ==
  ASSUME RunsStay, NEW r \in Requests, request'[r] = request[r], NEW m \in RunIds, Launched(m)
  PROVE  /\ Asks(r, m) => Asks(r, m)'
         /\ \A n \in RunIds : Launched(n) /\ Repeats(n, r, m) => Repeats(n, r, m)'
         /\ \A n \in RunIds, p \in Pages : Carries(n, KeyOf(p, m)) => Carries(n, KeyOf(p, m))'
<1>1. Launched(m)' /\ run'[m].versions = run[m].versions /\ Conversation(m)' = Conversation(m)
  BY StayingRuns
<1>2. \A n \in RunIds : Launched(n) =>
        Launched(n)' /\ run'[n].versions = run[n].versions /\ run'[n].source = run[n].source
        /\ run'[n].key = run[n].key
  BY StayingRuns
<1>3. \A p \in Pages : KeyOf(p, m)' = KeyOf(p, m)
  BY <1>1 DEF KeyOf
<1>4. QED BY <1>1, <1>2, <1>3 DEF Asks, Repeats, Carries

\* The key of a launched Run, and the answer of a request, keep their meaning.
LEMMA StayingKey ==
  ASSUME RetryInv, RunsStay, AnswersStay, NEW n \in RunIds, Launched(n)
  PROVE  /\ \A m \in RunIds : run'[n].key = m =>
              /\ run'[n].source = m /\ Launched(m)' /\ Conversation(m)'
              /\ Members(run'[n].versions) = Members(run'[m].versions)
         /\ \A p \in Pages : run'[n].key = p =>
              \E r \in Requests, m \in RunIds :
                /\ request'[r].phase = "DONE" /\ request'[r].page = p
                /\ Launched(m)' /\ ~Conversation(m)' /\ Repeats(n, r, m)'
<1>1. run'[n].versions = run[n].versions /\ run'[n].source = run[n].source /\ run'[n].key = run[n].key
  BY StayingRuns
<1>2. ASSUME NEW m \in RunIds, run'[n].key = m
      PROVE  /\ run'[n].source = m /\ Launched(m)' /\ Conversation(m)'
             /\ Members(run'[n].versions) = Members(run'[m].versions)
  <2>1. /\ run[n].source = m /\ Launched(m) /\ Conversation(m)
        /\ Members(run[n].versions) = Members(run[m].versions)
    BY <1>1, <1>2 DEF RetryInv, KeysFit
  <2>2. QED BY <1>1, <2>1, StayingRuns
<1>3. ASSUME NEW p \in Pages, run'[n].key = p
      PROVE  \E r \in Requests, m \in RunIds :
               /\ request'[r].phase = "DONE" /\ request'[r].page = p
               /\ Launched(m)' /\ ~Conversation(m)' /\ Repeats(n, r, m)'
  <2>1. PICK r \in Requests, m \in RunIds :
          request[r].phase = "DONE" /\ request[r].page = p /\ Launched(m) /\ ~Conversation(m) /\ Repeats(n, r, m)
    BY <1>1, <1>3 DEF RetryInv, KeysFit
  <2>2. request'[r] = request[r]
    BY <2>1 DEF AnswersStay
  <2>3. Launched(m)' /\ ~Conversation(m)' /\ Repeats(n, r, m)'
    BY <2>1, <2>2, StayingRuns, StayingRequests
  <2>4. QED BY <2>1, <2>2, <2>3
<1>4. QED BY <1>2, <1>3

\* An answered request stays answered with a Run that repeats what it asked.
LEMMA StayingAnswer ==
  ASSUME RetryInv, RunsStay, NEW r \in Requests, NEW p \in Pages, request[r].phase = "DONE", request[r].page = p,
         request'[r] = request[r]
  PROVE  \E m, n \in RunIds :
           request'[r].answer = n /\ Launched(m)' /\ Carries(n, KeyOf(p, m))' /\ Repeats(n, r, m)'
<1>1. PICK m \in RunIds, n \in RunIds :
        request[r].answer = n /\ Launched(m) /\ Carries(n, KeyOf(p, m)) /\ Repeats(n, r, m)
  BY DEF RetryInv, AnswersFit
<1>2. Launched(n)
  BY <1>1 DEF Carries
<1>3. Launched(m)' /\ Carries(n, KeyOf(p, m))' /\ Repeats(n, r, m)'
  BY <1>1, <1>2, StayingRuns, StayingRequests
<1>4. QED BY <1>1, <1>3

\* A step of requests without a page, which creates no Run with a key.
LEMMA QuietRetry ==
  ASSUME RetryInv, LaunchTypes, RunsStay,
         \A n \in RunIds : Launched(n)' => Launched(n) \/ run'[n].key = NoKey,
         \A r \in Requests : \/ request'[r] = request[r]
                             \/ request[r].phase # "DONE" /\ request'[r].page = NoPage
  PROVE  RetryInv'
<1>0. \A r \in Requests : Paged(r)' => request'[r] = request[r] /\ Paged(r)
  BY LaunchAssumption DEF Paged
<1>a. AnswersStay
  BY DEF AnswersStay
<1>1. PagesFit'
  <2>1. ASSUME NEW r \in Requests, Paged(r)'
        PROVE  request'[r].phase \in {"RETRY", "DONE"} /\ \E n \in RunIds : Asks(r, n)'
    <3>1. request'[r] = request[r] /\ Paged(r)
      BY <1>0, <2>1
    <3>2. PICK n \in RunIds : Asks(r, n)
      BY <3>1 DEF RetryInv, PagesFit
    <3>3. Asks(r, n)'
      BY <3>1, <3>2, StayingRequests DEF Asks
    <3>4. QED BY <3>1, <3>3 DEF RetryInv, PagesFit
  <2>2. QED BY <1>0, <2>1 DEF RetryInv, PagesFit, Paged
<1>2. KeysFit'
  <2> SUFFICES ASSUME NEW n \in RunIds, Launched(n)', run'[n].key # NoKey
               PROVE  /\ \A m \in RunIds : run'[n].key = m =>
                           /\ run'[n].source = m /\ Launched(m)' /\ Conversation(m)'
                           /\ Members(run'[n].versions) = Members(run'[m].versions)
                      /\ \A p \in Pages : run'[n].key = p =>
                           \E r \in Requests, m \in RunIds :
                             /\ request'[r].phase = "DONE" /\ request'[r].page = p
                             /\ Launched(m)' /\ ~Conversation(m)' /\ Repeats(n, r, m)'
    BY LaunchAssumption DEF KeysFit
  <2>1. Launched(n)
    OBVIOUS
  <2>2. QED BY <2>1, <1>a, StayingKey
<1>3. KeysUnique'
  BY StayingRuns DEF RetryInv, KeysUnique
<1>4. AnswersFit'
  <2> SUFFICES ASSUME NEW r \in Requests, NEW p \in Pages, request'[r].phase = "DONE", request'[r].page = p
               PROVE  \E m, n \in RunIds :
                        request'[r].answer = n /\ Launched(m)' /\ Carries(n, KeyOf(p, m))' /\ Repeats(n, r, m)'
    BY DEF AnswersFit
  <2>1. request'[r] = request[r]
    BY <1>0 DEF Paged
  <2>2. QED BY <2>1, StayingAnswer
<1>5. QED BY <1>1, <1>2, <1>3, <1>4 DEF RetryInv

\* A lookup that finds a Run finds the right one, and one that finds none promises nothing.
LEMMA LookUpRetry ==
  ASSUME RetryInv, LaunchTypes, NEW r \in Requests, NEW n \in RunIds, NEW wanted \in SUBSET Items, NEW p \in Pages,
         LookUpKey(r, n, wanted, p)
  PROVE  RetryInv'
<1>0. request \in [Requests -> RequestRecords] /\ run \in [RunIds -> RunRecords]
  BY DEF LaunchTypes
<1>1. /\ Launched(n) /\ UNCHANGED run /\ request[r].phase = "IDLE"
      /\ \A s \in Requests : s # r => request'[s] = request[s]
      /\ request'[r].wanted = wanted /\ request'[r].source = n /\ request'[r].page = p
      /\ \/ request'[r].phase = "RETRY"
         \/ request'[r].phase = "DONE" /\ request'[r].answer \in Existing(KeyOf(p, n))
  BY <1>0, LookUpForm
<1>2. /\ PageOf(p, n, wanted)
      /\ wanted \subseteq Members(run[n].versions)
      /\ Conversation(n) => wanted = Members(run[n].versions)
  BY DEF LookUpKey
<1>3. RunsStay /\ AnswersStay
  BY <1>1, UnchangedStays DEF AnswersStay
<1>4. Launched(n)' /\ Conversation(n)' = Conversation(n) /\ run'[n].versions = run[n].versions
  BY <1>1, <1>3, StayingRuns
<1>5. \A k \in RunIds : Launched(k)' => Launched(k)
  BY <1>1 DEF Launched
<1>6. PagesFit'
  <2>1. ASSUME NEW o \in Requests, Paged(o)'
        PROVE  request'[o].phase \in {"RETRY", "DONE"} /\ \E k \in RunIds : Asks(o, k)'
    <3>1. CASE o = r
      <4>1. Asks(r, n)'
        BY <1>1, <1>2, <1>4 DEF Asks
      <4>2. QED BY <1>1, <3>1, <4>1
    <3>2. CASE o # r
      <4>1. request'[o] = request[o] /\ Paged(o)
        BY <1>1, <2>1, <3>2 DEF Paged
      <4>2. PICK k \in RunIds : Asks(o, k)
        BY <4>1 DEF RetryInv, PagesFit
      <4>3. Asks(o, k)'
        BY <1>3, <4>1, <4>2, StayingRequests DEF Asks
      <4>4. QED BY <4>1, <4>3 DEF RetryInv, PagesFit
    <3>3. QED BY <3>1, <3>2
  <2>2. ASSUME NEW o \in Requests, NEW q \in Requests, Paged(o)', request'[q].page = request'[o].page
        PROVE  request'[q].source = request'[o].source /\ request'[q].wanted = request'[o].wanted
    BY <1>1, <1>2, <2>2 DEF PageOf, RetryInv, PagesFit, Paged
  <2>3. QED BY <2>1, <2>2 DEF PagesFit
<1>7. KeysFit'
  BY <1>3, <1>5, StayingKey DEF KeysFit
<1>8. KeysUnique'
  BY <1>1 DEF RetryInv, KeysUnique, Launched
<1>9. AnswersFit'
  <2> SUFFICES ASSUME NEW o \in Requests, NEW page \in Pages, request'[o].phase = "DONE", request'[o].page = page
               PROVE  \E m, k \in RunIds :
                        request'[o].answer = k /\ Launched(m)' /\ Carries(k, KeyOf(page, m))' /\ Repeats(k, o, m)'
    BY DEF AnswersFit
  <2>1. CASE o = r
    <3>1. PICK k \in Existing(KeyOf(p, n)) : request'[r].answer = k
      BY <1>1, <2>1
    <3>2. run[k].source = n /\ Members(run[k].versions) = wanted
      BY <1>2, <3>1, KeyRepeats
    <3>3. k \in RunIds /\ Launched(k) /\ Carries(k, KeyOf(p, n))
      BY <3>1 DEF Existing, Carries
    <3>4. Repeats(k, r, n)'
      BY <1>1, <3>2 DEF Repeats
    <3>5. Carries(k, KeyOf(p, n))'
      BY <1>1, <1>4, <3>3 DEF Carries, Launched, KeyOf
    <3>6. page = p
      BY <1>1, <2>1
    <3>7. QED BY <1>4, <2>1, <3>1, <3>3, <3>4, <3>5, <3>6
  <2>2. CASE o # r
    BY <1>1, <1>3, <2>2, StayingAnswer
  <2>3. QED BY <2>1, <2>2
<1>10. QED BY <1>6, <1>7, <1>8, <1>9 DEF RetryInv

\* A request that looked its key up is answered with the one Run that carries
\* the key, somebody else's or the one it inserts.
LEMMA AnswerRetry ==
  ASSUME RetryInv, LaunchTypes, RunsStay, NEW r \in Requests, NEW n \in RunIds, NEW m \in RunIds, NEW p \in Pages,
         request[r].phase = "RETRY", request[r].page = p, request[r].source = n, Answer(r, m),
         \A k \in RunIds : Launched(k)' => Launched(k) \/ k = m,
         Launched(m)', run'[m].key = KeyOf(p, n), run'[m].source = n, Members(run'[m].versions) = request[r].wanted,
         \A k \in RunIds : Launched(k) /\ run[k].key = KeyOf(p, n) => k = m
  PROVE  RetryInv'
<1>0. request \in [Requests -> RequestRecords]
  BY DEF LaunchTypes
<1>1. /\ \A s \in Requests : s # r => request'[s] = request[s]
      /\ request'[r].phase = "DONE" /\ request'[r].answer = m /\ request'[r].page = p
      /\ request'[r].source = n /\ request'[r].wanted = request[r].wanted
  BY <1>0 DEF Answer, RequestRecords
<1>2. AnswersStay
  BY <1>1 DEF AnswersStay
<1>3. Asks(r, n)
  BY DEF RetryInv, PagesFit, Paged, Asks
<1>4. Launched(n)' /\ Conversation(n)' = Conversation(n) /\ run'[n].versions = run[n].versions
  BY <1>3, StayingRuns DEF Asks
<1>5. Repeats(m, r, n)'
  BY <1>1 DEF Repeats
<1>6. PagesFit'
  <2>1. ASSUME NEW o \in Requests, Paged(o)'
        PROVE  request'[o].phase \in {"RETRY", "DONE"} /\ \E k \in RunIds : Asks(o, k)'
    <3>1. CASE o = r
      <4>1. Asks(r, n)'
        BY <1>1, <1>3, <1>4 DEF Asks
      <4>2. QED BY <1>1, <3>1, <4>1
    <3>2. CASE o # r
      <4>1. request'[o] = request[o] /\ Paged(o)
        BY <1>1, <2>1, <3>2 DEF Paged
      <4>2. PICK k \in RunIds : Asks(o, k)
        BY <4>1 DEF RetryInv, PagesFit
      <4>3. Asks(o, k)'
        BY <4>1, <4>2, StayingRequests DEF Asks
      <4>4. QED BY <4>1, <4>3 DEF RetryInv, PagesFit
    <3>3. QED BY <3>1, <3>2
  <2>2. ASSUME NEW o \in Requests, NEW q \in Requests, Paged(o)', request'[q].page = request'[o].page
        PROVE  request'[q].source = request'[o].source /\ request'[q].wanted = request'[o].wanted
    <3>1. \A s \in Requests : request'[s].page = request[s].page /\ request'[s].source = request[s].source
                              /\ request'[s].wanted = request[s].wanted
      BY <1>1
    <3>2. QED BY <2>2, <3>1 DEF RetryInv, PagesFit, Paged
  <2>3. QED BY <2>1, <2>2 DEF PagesFit
<1>7. KeysFit'
  <2>1. ASSUME NEW k \in RunIds, Launched(k)', k # m
        PROVE  /\ \A j \in RunIds : run'[k].key = j =>
                    /\ run'[k].source = j /\ Launched(j)' /\ Conversation(j)'
                    /\ Members(run'[k].versions) = Members(run'[j].versions)
               /\ \A page \in Pages : run'[k].key = page =>
                    \E o \in Requests, j \in RunIds :
                      /\ request'[o].phase = "DONE" /\ request'[o].page = page
                      /\ Launched(j)' /\ ~Conversation(j)' /\ Repeats(k, o, j)'
    BY <1>2, <2>1, StayingKey
  <2>2. ASSUME NEW j \in RunIds, run'[m].key = j
        PROVE  /\ run'[m].source = j /\ Launched(j)' /\ Conversation(j)'
               /\ Members(run'[m].versions) = Members(run'[j].versions)
    <3>1. Conversation(n) /\ j = n
      BY <2>2, LaunchAssumption DEF KeyOf
    <3>2. QED BY <1>3, <1>4, <3>1 DEF Asks
  <2>3. ASSUME NEW page \in Pages, run'[m].key = page
        PROVE  \E o \in Requests, j \in RunIds :
                 /\ request'[o].phase = "DONE" /\ request'[o].page = page
                 /\ Launched(j)' /\ ~Conversation(j)' /\ Repeats(m, o, j)'
    <3>1. ~Conversation(n) /\ page = p
      BY <2>3, LaunchAssumption DEF KeyOf
    <3>2. QED BY <1>1, <1>4, <1>5, <3>1
  <2>4. QED BY <2>1, <2>2, <2>3 DEF KeysFit
<1>8. KeysUnique'
  <2>1. \A k \in RunIds : Launched(k) => run'[k].key = run[k].key
    BY StayingRuns
  <2>2. QED BY <2>1 DEF RetryInv, KeysUnique
<1>9. AnswersFit'
  <2> SUFFICES ASSUME NEW o \in Requests, NEW page \in Pages, request'[o].phase = "DONE", request'[o].page = page
               PROVE  \E j, k \in RunIds :
                        request'[o].answer = k /\ Launched(j)' /\ Carries(k, KeyOf(page, j))' /\ Repeats(k, o, j)'
    BY DEF AnswersFit
  <2>1. CASE o = r
    <3>1. Carries(m, KeyOf(p, n))'
      BY <1>4 DEF Carries, KeyOf
    <3>2. page = p
      BY <1>1, <2>1
    <3>3. QED BY <1>1, <1>4, <1>5, <2>1, <3>1, <3>2
  <2>2. CASE o # r
    BY <1>1, <2>2, StayingAnswer
  <2>3. QED BY <2>1, <2>2
<1>10. QED BY <1>6, <1>7, <1>8, <1>9 DEF RetryInv

\* A step that changes no Run and nothing of what requests ask and were
\* answered keeps the invariant.
LEMMA SameAsks ==
  ASSUME RetryInv, UNCHANGED run,
         \A r \in Requests :
           /\ request'[r].phase = request[r].phase /\ request'[r].page = request[r].page
           /\ request'[r].source = request[r].source /\ request'[r].wanted = request[r].wanted
           /\ request'[r].answer = request[r].answer
  PROVE  RetryInv'
<1>1. \A n \in RunIds : Launched(n)' = Launched(n) /\ Conversation(n)' = Conversation(n)
  BY DEF Launched, Conversation
<1>2. \A r \in Requests, n \in RunIds : Asks(r, n)' = Asks(r, n)
  BY <1>1 DEF Asks
<1>3. \A r \in Requests, m, n \in RunIds : Repeats(n, r, m)' = Repeats(n, r, m)
  BY DEF Repeats
<1>4. PagesFit'
  BY <1>2 DEF RetryInv, PagesFit, Paged
<1>5. KeysFit'
  BY <1>1, <1>3 DEF RetryInv, KeysFit
<1>6. KeysUnique'
  BY <1>1 DEF RetryInv, KeysUnique
<1>7. AnswersFit'
  <2>1. \A n, m \in RunIds, p \in Pages : Carries(n, KeyOf(p, m))' = Carries(n, KeyOf(p, m))
    BY <1>1 DEF Carries, KeyOf
  <2>2. QED BY <1>1, <1>3, <2>1 DEF RetryInv, AnswersFit
<1>8. QED BY <1>4, <1>5, <1>6, <1>7 DEF RetryInv

\* Every launch step keeps the invariant of retries.
LEMMA RetryKept ==
  ASSUME LaunchTypes, Underway, RetryInv, LaunchStep
  PROVE  RetryInv'
<1>0. request \in [Requests -> RequestRecords] /\ run \in [RunIds -> RunRecords]
  BY DEF LaunchTypes
<1>s. RunsStay
  BY LaunchStays
<1>p. \A r \in Requests : request[r].phase \in {"IDLE", "RERUN", "LAUNCH"} => request[r].page = NoPage
  BY <1>0 DEF RetryInv, PagesFit, Paged, RequestRecords
<1>u. UNCHANGED run => \A k \in RunIds : Launched(k)' => Launched(k)
  BY DEF Launched
<1>1. ASSUME NEW r \in Requests, NEW n \in RunIds, NEW wanted \in SUBSET Questions, BeginRerun(r, n, wanted)
      PROVE  RetryInv'
  <2>1. UNCHANGED run /\ request[r].phase = "IDLE" /\ request'[r].page = request[r].page
        /\ \A o \in Requests : o # r => request'[o] = request[o]
    BY <1>1, <1>0 DEF BeginRerun, RequestRecords
  <2>2. QED BY <2>1, <1>s, <1>p, <1>u, QuietRetry
<1>2. ASSUME NEW r \in Requests, NEW t \in Targets, NEW wanted \in SUBSET Questions, BeginLaunch(r, t, wanted)
      PROVE  RetryInv'
  <2>1. UNCHANGED run /\ request[r].phase \in {"IDLE", "RERUN"} /\ request'[r].page = request[r].page
        /\ \A o \in Requests : o # r => request'[o] = request[o]
    BY <1>2, <1>0 DEF BeginLaunch, RequestRecords
  <2>2. QED BY <2>1, <1>s, <1>p, <1>u, QuietRetry
<1>3. ASSUME NEW r \in Requests, NEW q \in Questions, FreezeQuestion(r, q)
      PROVE  RetryInv'
  <2>1. UNCHANGED run /\ request[r].phase = "LAUNCH" /\ request'[r].page = request[r].page
        /\ \A o \in Requests : o # r => request'[o] = request[o]
    BY <1>3, <1>0 DEF FreezeQuestion, RequestRecords
  <2>2. QED BY <2>1, <1>s, <1>p, <1>u, QuietRetry
<1>4. ASSUME NEW r \in Requests, Abort(r)
      PROVE  RetryInv'
  <2>1. UNCHANGED run /\ request[r].phase # "DONE" /\ request'[r].page = NoPage
        /\ \A o \in Requests : o # r => request'[o] = request[o]
    BY <1>4, <1>0 DEF Abort, Idle
  <2>2. QED BY <2>1, <1>s, <1>u, QuietRetry
<1>5. ASSUME NEW r \in Requests, NEW n \in RunIds, NEW wanted \in SUBSET Items, NEW p \in Pages,
             LookUpKey(r, n, wanted, p)
      PROVE  RetryInv'
  BY <1>5, LookUpRetry
<1>6. ASSUME NEW n \in RunIds, NEW x \in Items, Observe(n, x)
      PROVE  RetryInv'
  <2>1. \A k \in RunIds : Launched(k)' => Launched(k)
    BY <1>6, <1>0 DEF Observe, Launched, RunRecords
  <2>2. UNCHANGED request
    BY <1>6 DEF Observe
  <2>3. QED BY <2>1, <2>2, <1>s, QuietRetry
<1>7. ASSUME NEW r \in Requests, NEW n \in RunIds, ~Launched(n), request[r].phase # "DONE", Finish(r),
             NEW kind, NEW t, NEW revision, NEW versions, NEW source,
             Create(n, kind, t, revision, versions, source, NoKey)
      PROVE  RetryInv'
  <2>1. \A k \in RunIds : Launched(k)' => Launched(k) \/ run'[k].key = NoKey
    <3>1. run'[n].key = NoKey /\ \A k \in RunIds : k # n => run'[k] = run[k]
      BY <1>7, <1>0 DEF Create
    <3>2. QED BY <3>1 DEF Launched
  <2>2. request'[r].page = NoPage /\ \A o \in Requests : o # r => request'[o] = request[o]
    BY <1>7, <1>0 DEF Finish, Idle
  <2>3. QED BY <2>1, <2>2, <1>7, <1>s, QuietRetry
<1>8. ASSUME NEW r \in Requests, NEW n \in RunIds, CommitLaunch(r, n)
      PROVE  RetryInv'
  BY <1>7, <1>8 DEF CommitLaunch
<1>9. ASSUME NEW r \in Requests, NEW n \in RunIds, NEW s \in Scenarios, NEW t \in Targets,
             LaunchConversationScenario(r, n, s, t)
      PROVE  RetryInv'
  BY <1>7, <1>9 DEF LaunchConversationScenario
<1>10. ASSUME NEW r \in Requests, NEW n \in RunIds, NEW m \in RunIds, NEW t \in Targets, LaunchReplay(r, n, m, t)
       PROVE  RetryInv'
  BY <1>7, <1>10 DEF LaunchReplay
<1>11. ASSUME NEW r \in Requests, NEW m \in RunIds, KeyTaken(r, m)
       PROVE  RetryInv'
  <2>1. request[r].phase = "RETRY" /\ m \in Existing(Key(r)) /\ Answer(r, m) /\ UNCHANGED run
    BY <1>11 DEF KeyTaken, Retryable
  <2>2. PICK p \in Pages : request[r].page = p
    BY <2>1 DEF Underway
  <2>3. PICK n \in RunIds : Asks(r, n)
    BY <2>2 DEF RetryInv, PagesFit, Paged
  <2>4. request[r].source = n /\ Key(r) = KeyOf(p, n)
    BY <2>2, <2>3 DEF Asks, Key
  <2>5. PageOf(p, n, request[r].wanted) /\ (Conversation(n) => request[r].wanted = Members(run[n].versions))
    BY <2>2, <2>3, <2>4 DEF PageOf, RetryInv, PagesFit, Paged, Asks
  <2>6. run[m].source = n /\ Members(run[m].versions) = request[r].wanted
    BY <2>1, <2>4, <2>5, KeyRepeats
  <2>7. Launched(m) /\ run[m].key = KeyOf(p, n) /\ KeyOf(p, n) # NoKey
    BY <2>1, <2>4, KeyTyped, LaunchAssumption DEF Existing, Carries
  <2>8. \A k \in RunIds : Launched(k) /\ run[k].key = KeyOf(p, n) => k = m
    BY <2>7 DEF RetryInv, KeysUnique
  <2>9. Launched(m)' /\ run'[m] = run[m]
    BY <2>1, <2>7 DEF Launched
  <2>10. QED BY <2>1, <2>2, <2>4, <2>6, <2>7, <2>8, <2>9, <1>s, <1>u, AnswerRetry
<1>12. ASSUME NEW r \in Requests, NEW m \in RunIds, NEW kind \in {"RETRY", "CONVERSATION_RETRY"}, NEW t, NEW revision,
              Retryable(request[r]), KeyFree(Key(r)), ~Launched(m), Answer(r, m),
              Create(m, kind, t, revision, SourceVersions(request[r]), request[r].source, Key(r))
       PROVE  RetryInv'
  <2>1. request[r].phase = "RETRY"
    BY <1>12 DEF Retryable
  <2>2. PICK p \in Pages : request[r].page = p
    BY <2>1 DEF Underway
  <2>3. PICK n \in RunIds : Asks(r, n)
    BY <2>2 DEF RetryInv, PagesFit, Paged
  <2>4. request[r].source = n /\ Key(r) = KeyOf(p, n)
    BY <2>2, <2>3 DEF Asks, Key
  <2>5. /\ \A k \in RunIds : k # m => run'[k] = run[k]
        /\ run'[m] = [kind |-> kind, target |-> t, revision |-> revision, versions |-> SourceVersions(request[r]),
                      source |-> request[r].source, key |-> Key(r), terminal |-> {}]
    BY <1>0, <1>12, CreateStays
  <2>6. run'[m].key = KeyOf(p, n) /\ run'[m].source = n /\ run'[m].versions = SourceVersions(request[r])
        /\ Launched(m)'
    BY <2>4, <2>5 DEF Launched
  <2>7. Members(SourceVersions(request[r])) = request[r].wanted
    <3>1. request[r].wanted \subseteq Members(run[n].versions) /\ request[r].wanted \subseteq Items
      BY <2>3, <1>0 DEF Asks, RequestRecords
    <3>2. QED BY <3>1, <2>4 DEF Members, SourceVersions
  <2>8. \A k \in RunIds : Launched(k)' => Launched(k) \/ k = m
    BY <2>5 DEF Launched
  <2>9. \A k \in RunIds : Launched(k) /\ run[k].key = KeyOf(p, n) => k = m
    BY <1>12, <2>4 DEF KeyFree, Existing, Carries
  <2>10. QED BY <1>12, <2>1, <2>2, <2>4, <2>6, <2>7, <2>8, <2>9, <1>s, AnswerRetry
<1>13. ASSUME NEW r \in Requests, NEW m \in RunIds, InsertRetry(r, m) \/ InsertConversationRetry(r, m)
       PROVE  RetryInv'
  BY <1>12, <1>13 DEF InsertRetry, InsertConversationRetry
<1>14. ASSUME NEW r \in Requests, LockConversation(r)
       PROVE  RetryInv'
  <2>1. /\ UNCHANGED run /\ \A o \in Requests : o # r => request'[o] = request[o]
        /\ request'[r].phase = request[r].phase /\ request'[r].page = request[r].page
        /\ request'[r].source = request[r].source /\ request'[r].wanted = request[r].wanted
        /\ request'[r].answer = request[r].answer
    BY <1>14, <1>0 DEF LockConversation, RequestRecords
  <2>2. QED BY <2>1, SameAsks
<1>15. QED
  BY <1>1, <1>2, <1>3, <1>4, <1>5, <1>6, <1>8, <1>9, <1>10, <1>11, <1>13, <1>14 DEF LaunchStep

\* Every step keeps the invariant of retries.
LEMMA NextRetry ==
  ASSUME CatalogRunsTypeOK, Underway, RetryInv, [Next]_vars
  PROVE  RetryInv'
<1>1. CASE LaunchStep
  BY <1>1, RetryKept DEF CatalogRunsTypeOK
<1>2. CASE UNCHANGED launchVars
  <2>1. \A k \in RunIds : Launched(k)' => Launched(k)
    BY <1>2 DEF launchVars, Launched
  <2>2. UNCHANGED request /\ RunsStay
    BY <1>2, UnchangedStays DEF launchVars
  <2>3. QED BY <2>1, <2>2, QuietRetry DEF CatalogRunsTypeOK
<1>3. QED BY <1>1, <1>2 DEF Next, vars

\* However often a retry form is submitted, and however its requests
\* interleave with each other and with everything else, the key names one Run,
\* every answered request was answered with it, and it repeats what the
\* administrator saw on the page.
THEOREM RetriedOnce == Spec => []RetryOnce
<1>1. CatalogRunsTypeOK /\ RetryInv => RetryOnce
  BY InvImpliesOnce DEF CatalogRunsTypeOK
<1>2. (CatalogRunsTypeOK /\ Underway) /\ RetryInv /\ [Next]_vars => RetryInv'
  BY NextRetry
<1>3. QED BY <1>1, <1>2, InitRetry, Typed, PTL DEF Spec

-----------------------------------------------------------------------------
(* Lineage.  Versions only grow, so a rerun that reads a question's        *)
(* version later never reads an older one than its source froze.           *)

AbsentIsZero == \A q \in Items : ~Exists(q) => question[q].version = 0

VersionsGrow == \A q \in Items : question[q].version <= question'[q].version

\* No step lowers a version, or gives one to an absent question.
LEMMA GrowingVersions ==
  ASSUME CatalogRunsTypeOK, CreatedAbsent, AbsentIsZero, [Next]_vars
  PROVE  AbsentIsZero' /\ VersionsGrow
<1>0. /\ question \in [Items -> QuestionRecords]
      /\ importing \in [Importers -> [phase : {"IDLE", "RUNNING"},
                                      created : SUBSET Corpus, reused : SUBSET Corpus]]
  BY DEF CatalogRunsTypeOK, CatalogTypes, ImportTypes
<1>a. \A q \in Items : question[q].version \in Nat
  BY <1>0 DEF QuestionRecords
<1>b. "ABSENT" \notin Lifecycles
  BY DEF Lifecycles
<1>1. ASSUME UNCHANGED question
      PROVE  AbsentIsZero' /\ VersionsGrow
  BY <1>1, <1>a DEF AbsentIsZero, VersionsGrow, Exists
<1>2. ASSUME NEW q \in Items, \A o \in Items : o # q => question'[o] = question[o],
             Exists(q)', question'[q].version >= question[q].version
      PROVE  AbsentIsZero' /\ VersionsGrow
  BY <1>2, <1>a DEF AbsentIsZero, VersionsGrow, Exists
<1>3. ASSUME NEW q \in Items, ~Exists(q), NEW l \in Lifecycles, NEW text \in Texts,
             question' = [question EXCEPT ![q] = FirstVersion(l, text)]
      PROVE  AbsentIsZero' /\ VersionsGrow
  <2>1. /\ question'[q].lifecycle = l /\ question'[q].version = 1
        /\ \A o \in Items : o # q => question'[o] = question[o]
    BY <1>3, <1>0 DEF FirstVersion
  <2>2. question[q].version = 0
    BY <1>3 DEF AbsentIsZero
  <2>3. QED BY <2>1, <2>2, <1>b, <1>2 DEF Exists
<1>4. CASE QuestionChanges
  <2>1. PICK q \in Items :
          \/ \E l \in Lifecycles, text \in Texts : CreateQuestion(q, l, text)
          \/ \E text \in Texts : CreateQuestionVersion(q, text)
          \/ \E l \in Lifecycles : SetQuestionLifecycle(q, l)
    BY <1>4 DEF QuestionChanges, TextsOf, Texts
  <2>2. ASSUME NEW l \in Lifecycles, NEW text \in Texts, CreateQuestion(q, l, text)
        PROVE  AbsentIsZero' /\ VersionsGrow
    BY <2>2, <1>3 DEF CreateQuestion
  <2>3. ASSUME NEW text \in Texts, CreateQuestionVersion(q, text)
        PROVE  AbsentIsZero' /\ VersionsGrow
    <3>1. /\ question'[q].lifecycle = question[q].lifecycle /\ question'[q].version = question[q].version + 1
          /\ \A o \in Items : o # q => question'[o] = question[o]
      BY <2>3, <1>0 DEF CreateQuestionVersion, QuestionRecords
    <3>2. question'[q].version >= question[q].version
      BY <3>1, <1>a
    <3>3. Exists(q)'
      BY <2>3, <3>1 DEF CreateQuestionVersion, Independent, Exists
    <3>4. QED BY <3>1, <3>2, <3>3, <1>2
  <2>4. ASSUME NEW l \in Lifecycles, SetQuestionLifecycle(q, l)
        PROVE  AbsentIsZero' /\ VersionsGrow
    <3>1. /\ question'[q].lifecycle = l /\ question'[q].version = question[q].version
          /\ \A o \in Items : o # q => question'[o] = question[o]
      BY <2>4, <1>0 DEF SetQuestionLifecycle, QuestionRecords
    <3>2. QED BY <3>1, <1>a, <1>b, <1>2 DEF Exists
  <2>5. QED BY <2>1, <2>2, <2>3, <2>4
<1>5. CASE ScenarioChanges
  <2>1. PICK s \in Scenarios :
          \/ \E l \in Lifecycles : CreateScenario(s, l) \/ UpdateScenarioMetadata(s, l)
          \/ CreateScenarioVersion(s)
    BY <1>5 DEF ScenarioChanges
  <2>a. s \in Items /\ "OTHER" \in Texts
    BY ItemParts DEF Texts
  <2>2. ASSUME NEW l \in Lifecycles, CreateScenario(s, l)
        PROVE  AbsentIsZero' /\ VersionsGrow
    BY <2>2, <2>a, <1>3 DEF CreateScenario
  <2>3. ASSUME CreateScenarioVersion(s)
        PROVE  AbsentIsZero' /\ VersionsGrow
    <3>1. /\ question'[s].lifecycle = question[s].lifecycle /\ question'[s].version = question[s].version + 1
          /\ \A o \in Items : o # s => question'[o] = question[o]
      BY <2>3, <2>a, <1>0 DEF CreateScenarioVersion, QuestionRecords
    <3>2. QED BY <2>3, <2>a, <3>1, <1>a, <1>2 DEF CreateScenarioVersion, Exists
  <2>4. ASSUME NEW l \in Lifecycles, UpdateScenarioMetadata(s, l)
        PROVE  AbsentIsZero' /\ VersionsGrow
    <3>1. /\ question'[s].lifecycle = l /\ question'[s].version = question[s].version
          /\ \A o \in Items : o # s => question'[o] = question[o]
      BY <2>4, <2>a, <1>0 DEF UpdateScenarioMetadata, QuestionRecords
    <3>2. QED BY <2>a, <3>1, <1>a, <1>b, <1>2 DEF Exists
  <2>5. QED BY <2>1, <2>2, <2>3, <2>4
<1>6. CASE TargetChanges
  BY <1>6, <1>1 DEF TargetChanges, CreateTarget, UpdateTarget, CreateTargetRevision
<1>7. ASSUME NEW i \in Importers, CommitImport(i)
      PROVE  AbsentIsZero' /\ VersionsGrow
  <2>1. \A q \in Items : q \in importing[i].created =>
          question'[q].lifecycle = "DRAFT" /\ question'[q].version = 1 /\ question[q].version = 0
    BY <1>7 DEF CommitImport, FirstVersion, CreatedAbsent, AbsentIsZero
  <2>2. \A q \in Items : q \notin importing[i].created => question'[q] = question[q]
    BY <1>7 DEF CommitImport
  <2>3. QED BY <2>1, <2>2, <1>a DEF AbsentIsZero, VersionsGrow, Exists
<1>8. ASSUME NEW i \in Importers, BeginImport(i) \/ RollBackImport(i) \/ \E q \in Corpus : ImportQuestion(i, q)
      PROVE  AbsentIsZero' /\ VersionsGrow
  BY <1>8, <1>1 DEF BeginImport, RollBackImport, ImportQuestion, catalogVars
<1>9. CASE LaunchStep
  BY <1>9, <1>1, LaunchLeavesCatalog DEF catalogVars
<1>10. CASE UNCHANGED vars
  BY <1>10, <1>1 DEF vars, catalogVars
<1>11. QED BY <1>4, <1>5, <1>6, <1>7, <1>8, <1>9, <1>10 DEF Next, ImportStep

\* The versions frozen in a manifest are versions that the questions have.
Frozen(versions) == \A x \in Questions : versions[x] <= question[x].version

\* What a rerun has read of the questions is in the source, and not older.
Newer(versions, source) ==
  \A x \in Items : versions[x] > 0 => source[x] > 0 /\ versions[x] >= source[x]

Rerunning(r, m) ==
  /\ request[r].source = m /\ Launched(m)
  /\ request[r].wanted \subseteq Members(run[m].versions)
  /\ Newer(request[r].versions, run[m].versions)

RequestFits(r) ==
  /\ Frozen(request[r].versions)
  /\ request[r].phase = "IDLE" => request[r] = Idle
  /\ request[r].phase \in {"RERUN", "LAUNCH"} =>
       /\ request[r].wanted \subseteq Questions
       /\ request[r].source = NoRun \/ \E m \in RunIds : Rerunning(r, m)

Descends(n, m) ==
  /\ run[n].source = m /\ Launched(m)
  /\ Newer(run[n].versions, run[m].versions)
  /\ run[n].kind \in Exact => \A x \in Members(run[n].versions) : run[n].versions[x] = run[m].versions[x]

RunFits(n) ==
  /\ Frozen(run[n].versions)
  /\ run[n].source # NoRun => \E m \in RunIds : Descends(n, m)

RequestsFit == \A r \in Requests : RequestFits(r)
RunsFit == \A n \in RunIds : Launched(n) => RunFits(n)

LineageInv == AbsentIsZero /\ RequestsFit /\ RunsFit

\* The invariant says what it is for.
LEMMA InvImpliesLineage == LaunchTypes /\ LineageInv => LineageKept
<1> SUFFICES ASSUME LaunchTypes, LineageInv, NEW n \in RunIds, Launched(n), run[n].source # NoRun,
                    NEW x \in Members(run[n].versions)
             PROVE  LET source == run[run[n].source]
                    IN  /\ source.versions[x] > 0
                        /\ run[n].kind \in Exact => run[n].versions[x] = source.versions[x]
                        /\ run[n].kind = "RERUN" => run[n].versions[x] >= source.versions[x]
  BY DEF LineageKept
<1>1. PICK m \in RunIds : Descends(n, m)
  BY DEF LineageInv, RunsFit, RunFits
<1>2. x \in Items /\ run[n].versions[x] > 0
  BY DEF Members
<1>3. QED BY <1>1, <1>2 DEF Descends, Newer

\* Initially nothing descends from anything.
LEMMA InitLineage == Init => LineageInv
<1> SUFFICES ASSUME Init PROVE LineageInv
  OBVIOUS
<1>1. AbsentIsZero /\ \A q \in Items : question[q].version \in Nat /\ (Exists(q) => question[q].version = 1)
  BY DEF Init, CatalogInit, AbsentIsZero, NoQuestion, FirstVersion, Exists
<1>2. Frozen(Nothing)
  BY <1>1, ItemParts DEF Frozen, Nothing
<1>3. RequestsFit
  BY <1>2 DEF Init, LaunchInit, RequestsFit, RequestFits, Idle
<1>4. CASE run = [n \in RunIds |-> NotLaunched]
  BY <1>1, <1>3, <1>4 DEF LineageInv, RunsFit, Launched, NotLaunched
<1>5. ASSUME NEW n \in RunIds, NEW t \in Targets, NEW members \in {Questions} \cup {{s} : s \in Scenarios},
             \A x \in members : Exists(x),
             run = [[m \in RunIds |-> NotLaunched] EXCEPT ![n] = PastRun(t, members)]
      PROVE  LineageInv
  <2>1. \A m \in RunIds : Launched(m) => m = n
    BY <1>5 DEF Launched, NotLaunched
  <2>2. run[n].source = NoRun /\ run[n].versions = [x \in Items |-> IF x \in members THEN 1 ELSE 0]
    BY <1>5 DEF PastRun
  <2>3. Frozen(run[n].versions)
    BY <2>2, <1>1, <1>5, ItemParts DEF Frozen
  <2>4. QED BY <2>1, <2>2, <2>3, <1>1, <1>3 DEF LineageInv, RunsFit, RunFits
<1>6. QED BY <1>4, <1>5 DEF Init, LaunchInit

\* What holds of a request or a Run that a step leaves alone holds after it.
LEMMA FitStays ==
  ASSUME LaunchTypes, RunsStay, VersionsGrow, \A q \in Items : question[q].version \in Nat /\ question'[q].version \in Nat
  PROVE  /\ \A r \in Requests : RequestFits(r) /\ request'[r] = request[r] => RequestFits(r)'
         /\ \A n \in RunIds : Launched(n) /\ RunFits(n) => RunFits(n)'
<1>0. request \in [Requests -> RequestRecords] /\ run \in [RunIds -> RunRecords]
  BY DEF LaunchTypes
<1>1. \A v \in Manifests : Frozen(v) => Frozen(v)'
  BY ItemParts DEF Frozen, VersionsGrow, Manifests
<1>2. ASSUME NEW r \in Requests, RequestFits(r), request'[r] = request[r]
      PROVE  RequestFits(r)'
  <2>1. request[r].versions \in Manifests
    BY <1>0 DEF RequestRecords
  <2>2. \A m \in RunIds : Rerunning(r, m) => Rerunning(r, m)'
    BY <1>2, StayingRuns DEF Rerunning
  <2>3. QED BY <1>1, <1>2, <2>1, <2>2 DEF RequestFits
<1>3. ASSUME NEW n \in RunIds, Launched(n), RunFits(n)
      PROVE  RunFits(n)'
  <2>1. run[n].versions \in Manifests
    BY <1>0 DEF RunRecords
  <2>2. run'[n].versions = run[n].versions /\ run'[n].source = run[n].source /\ run'[n].kind = run[n].kind
    BY <1>3 DEF RunsStay, SameRun
  <2>3. \A m \in RunIds : Descends(n, m) => Descends(n, m)'
    BY <2>2, StayingRuns DEF Descends
  <2>4. QED BY <1>1, <1>3, <2>1, <2>2, <2>3 DEF RunFits
<1>4. QED BY <1>2, <1>3

\* A lookup reads no question.
LEMMA LookUpVersions ==
  ASSUME request \in [Requests -> RequestRecords], NEW r \in Requests, NEW n \in RunIds,
         NEW wanted \in SUBSET Items, NEW p \in Pages, LookUpKey(r, n, wanted, p)
  PROVE  request'[r].versions = request[r].versions
<1>. DEFINE asked == [request[r] EXCEPT !.wanted = wanted, !.source = n, !.page = p]
<1>1. asked \in RequestRecords /\ asked.versions = request[r].versions
  BY DEF RequestRecords
<1>2. \/ request' = [request EXCEPT ![r] = [asked EXCEPT !.phase = "RETRY"]]
      \/ \E m \in Existing(KeyOf(p, n)) :
            request' = [request EXCEPT ![r] = [asked EXCEPT !.phase = "DONE", !.answer = m]]
  BY DEF LookUpKey
<1>. HIDE DEF asked
<1>3. CASE request' = [request EXCEPT ![r] = [asked EXCEPT !.phase = "RETRY"]]
  BY <1>1, <1>3 DEF RequestRecords
<1>4. ASSUME NEW m, request' = [request EXCEPT ![r] = [asked EXCEPT !.phase = "DONE", !.answer = m]]
      PROVE  request'[r].versions = request[r].versions
  BY <1>1, <1>4 DEF RequestRecords
<1>5. QED BY <1>2, <1>3, <1>4

\* Every launch step keeps the lineage.
LEMMA LineageKeptBy ==
  ASSUME CatalogRunsTypeOK, RetryInv, Underway, LineageInv, LaunchStep, AbsentIsZero', VersionsGrow
  PROVE  LineageInv'
<1>0. /\ LaunchTypes
      /\ request \in [Requests -> RequestRecords] /\ run \in [RunIds -> RunRecords]
      /\ \A q \in Items : question[q].version \in Nat
  BY DEF CatalogRunsTypeOK, LaunchTypes, CatalogTypes, QuestionRecords
<1>q. UNCHANGED question
  BY LaunchLeavesCatalog DEF catalogVars
<1>s. RunsStay
  BY <1>0, LaunchStays
<1>m. /\ \A r \in Requests : RequestFits(r) /\ request'[r] = request[r] => RequestFits(r)'
      /\ \A n \in RunIds : Launched(n) /\ RunFits(n) => RunFits(n)'
  BY <1>0, <1>q, <1>s, FitStays
<1>a. ASSUME NEW r \in Requests, \A o \in Requests : o # r => request'[o] = request[o], RequestFits(r)',
             \A n \in RunIds : Launched(n)' => Launched(n) \/ RunFits(n)'
      PROVE  LineageInv'
  BY <1>m, <1>a DEF LineageInv, RequestsFit, RunsFit
<1>u. UNCHANGED run => \A n \in RunIds : Launched(n)' => Launched(n)
  BY DEF Launched
<1>i. \A r \in Requests : request[r].phase = "IDLE" => request[r] = Idle
  BY DEF LineageInv, RequestsFit, RequestFits
<1>n. Frozen(Nothing)'
  BY <1>0, <1>q, ItemParts DEF Frozen, Nothing
<1>f. \A v : Frozen(v) => Frozen(v)'
  BY <1>q DEF Frozen
<1>1. ASSUME NEW r \in Requests, NEW n \in RunIds, NEW wanted \in SUBSET Questions, BeginRerun(r, n, wanted)
      PROVE  LineageInv'
  <2>1. /\ UNCHANGED run /\ request[r] = Idle /\ Launched(n) /\ wanted \subseteq Members(run[n].versions)
        /\ \A o \in Requests : o # r => request'[o] = request[o]
    BY <1>1, <1>0, <1>i DEF BeginRerun, Done
  <2>2. /\ request'[r].phase = "RERUN" /\ request'[r].wanted = wanted /\ request'[r].source = n
        /\ request'[r].versions = Nothing
    BY <1>1, <1>0, <2>1 DEF BeginRerun, Idle
  <2>3. Rerunning(r, n)'
    BY <2>1, <2>2 DEF Rerunning, Launched, Newer, Nothing
  <2>4. RequestFits(r)'
    BY <2>2, <2>3, <1>n DEF RequestFits
  <2>5. QED BY <2>1, <2>4, <1>a, <1>u
<1>2. ASSUME NEW r \in Requests, NEW t \in Targets, NEW wanted \in SUBSET Questions, BeginLaunch(r, t, wanted)
      PROVE  LineageInv'
  <2>1. /\ UNCHANGED run /\ \A o \in Requests : o # r => request'[o] = request[o]
        /\ request'[r].phase = "LAUNCH" /\ request'[r].wanted = wanted
        /\ request'[r].source = request[r].source /\ request'[r].versions = request[r].versions
    BY <1>2, <1>0 DEF BeginLaunch, RequestRecords
  <2>2. CASE request[r] = Idle
    <3>1. request'[r].source = NoRun /\ request'[r].versions = Nothing
      BY <2>1, <2>2 DEF Idle
    <3>2. RequestFits(r)'
      BY <2>1, <3>1, <1>n DEF RequestFits
    <3>3. QED BY <2>1, <3>2, <1>a, <1>u
  <2>3. CASE request[r].phase = "RERUN" /\ wanted = request[r].wanted
    <3>1. RequestFits(r)
      BY DEF LineageInv, RequestsFit
    <3>2. \A m \in RunIds : Rerunning(r, m) => Rerunning(r, m)'
      BY <2>1, <2>3, StayingRuns, <1>s DEF Rerunning
    <3>3. RequestFits(r)'
      BY <2>1, <2>3, <3>1, <3>2, <1>f DEF RequestFits
    <3>4. QED BY <2>1, <3>3, <1>a, <1>u
  <2>4. QED BY <1>2, <1>i, <2>2, <2>3 DEF BeginLaunch
<1>3. ASSUME NEW r \in Requests, NEW x \in Questions, FreezeQuestion(r, x)
      PROVE  LineageInv'
  <2>1. /\ UNCHANGED run /\ \A o \in Requests : o # r => request'[o] = request[o]
        /\ request[r].phase = "LAUNCH" /\ request'[r].phase = "LAUNCH" /\ request'[r].wanted = request[r].wanted
        /\ request'[r].source = request[r].source /\ x \in request[r].wanted
        /\ request'[r].versions = [request[r].versions EXCEPT ![x] = question[x].version]
    BY <1>3, <1>0 DEF FreezeQuestion, RequestRecords
  <2>2. RequestFits(r) /\ request[r].versions \in Manifests /\ x \in Items
    BY <1>0, ItemParts DEF LineageInv, RequestsFit, RequestRecords
  <2>3. /\ request'[r].versions[x] = question[x].version
        /\ \A y \in Items : y # x => request'[r].versions[y] = request[r].versions[y]
    BY <2>1, <2>2 DEF Manifests
  <2>4. Frozen(request[r].versions)'
    BY <1>0, <1>q, <2>2, <2>3, ItemParts DEF Frozen, RequestFits
  <2>5. ASSUME NEW m \in RunIds, Rerunning(r, m)
        PROVE  Rerunning(r, m)'
    <3>1. run[m].versions[x] > 0 /\ Launched(m) /\ Newer(request[r].versions, run[m].versions)
      BY <2>1, <2>5 DEF Rerunning, Members
    <3>2. run[m].versions[x] <= question[x].version /\ run[m].versions[x] \in Nat
      BY <3>1, <2>2, <1>0 DEF LineageInv, RunsFit, RunFits, Frozen, RunRecords, Manifests
    <3>3. Newer(request'[r].versions, run[m].versions)
      <4>1. \A y \in Items : y # x /\ request'[r].versions[y] > 0 =>
                run[m].versions[y] > 0 /\ request'[r].versions[y] >= run[m].versions[y]
        BY <2>3, <3>1 DEF Newer
      <4>2. run[m].versions[x] > 0 /\ request'[r].versions[x] >= run[m].versions[x]
        BY <2>3, <3>1, <3>2, <2>2, <1>0
      <4>3. QED BY <4>1, <4>2 DEF Newer
    <3>4. QED BY <2>1, <2>5, <3>3 DEF Rerunning, Launched
  <2>6. RequestFits(r)'
    BY <2>1, <2>2, <2>4, <2>5 DEF RequestFits
  <2>7. QED BY <2>1, <2>6, <1>a, <1>u
<1>4. ASSUME NEW r \in Requests, Abort(r)
      PROVE  LineageInv'
  <2>1. UNCHANGED run /\ request'[r] = Idle /\ \A o \in Requests : o # r => request'[o] = request[o]
    BY <1>4, <1>0 DEF Abort
  <2>2. RequestFits(r)'
    BY <2>1, <1>n DEF RequestFits, Idle
  <2>3. QED BY <2>1, <2>2, <1>a, <1>u
<1>5. ASSUME NEW r \in Requests, NEW n \in RunIds, NEW wanted \in SUBSET Items, NEW p \in Pages,
             LookUpKey(r, n, wanted, p)
      PROVE  LineageInv'
  <2>1. /\ UNCHANGED run /\ request[r] = Idle /\ request'[r].phase \in {"RETRY", "DONE"}
        /\ \A o \in Requests : o # r => request'[o] = request[o]
    BY <1>5, <1>0, <1>i, LookUpForm
  <2>2. request'[r].versions = request[r].versions
    BY <1>5, <1>0, LookUpVersions
  <2>3. RequestFits(r)'
    BY <2>1, <2>2, <1>n DEF RequestFits, Idle
  <2>4. QED BY <2>1, <2>3, <1>a, <1>u
<1>6. ASSUME NEW r \in Requests, NEW m \in RunIds, Answer(r, m), request[r].phase = "RETRY",
             \A n \in RunIds : Launched(n)' => Launched(n) \/ RunFits(n)'
      PROVE  LineageInv'
  <2>1. /\ request'[r].phase = "DONE" /\ request'[r].versions = request[r].versions
        /\ \A o \in Requests : o # r => request'[o] = request[o]
    BY <1>6, <1>0 DEF Answer, RequestRecords
  <2>2. Frozen(request[r].versions)
    BY DEF LineageInv, RequestsFit, RequestFits
  <2>3. RequestFits(r)'
    BY <2>1, <2>2, <1>f DEF RequestFits
  <2>4. QED BY <2>1, <2>3, <1>a, <1>6
<1>7. ASSUME NEW r \in Requests, Finish(r),
             \A n \in RunIds : Launched(n)' => Launched(n) \/ RunFits(n)'
      PROVE  LineageInv'
  <2>1. /\ request'[r].phase = "DONE" /\ request'[r].versions = Nothing
        /\ \A o \in Requests : o # r => request'[o] = request[o]
    BY <1>7, <1>0 DEF Finish, Idle
  <2>2. RequestFits(r)'
    BY <2>1, <1>n DEF RequestFits
  <2>3. QED BY <2>1, <2>2, <1>a, <1>7
\* A new Run: the Runs that were there are launched already.
<1>8. ASSUME NEW n \in RunIds, ~Launched(n), NEW kind, NEW t, NEW revision, NEW versions, NEW source, NEW key,
             Create(n, kind, t, revision, versions, source, key), Frozen(versions),
             source # NoRun =>
               /\ source \in RunIds /\ Launched(source) /\ Newer(versions, run[source].versions)
               /\ kind \in Exact => \A x \in Members(versions) : versions[x] = run[source].versions[x]
      PROVE  \A k \in RunIds : Launched(k)' => Launched(k) \/ RunFits(k)'
  <2>1. /\ run'[n].kind = kind /\ run'[n].versions = versions /\ run'[n].source = source
        /\ \A k \in RunIds : k # n => run'[k] = run[k]
    BY <1>0, <1>8 DEF Create
  <2>2. \A k \in RunIds : Launched(k)' => Launched(k) \/ k = n
    BY <2>1 DEF Launched
  <2>3. ASSUME source # NoRun
        PROVE  Descends(n, source)'
    <3>1. Launched(source)' /\ run'[source].versions = run[source].versions
      BY <1>8, <1>s, <2>3, StayingRuns
    <3>2. QED BY <1>8, <2>1, <2>3, <3>1 DEF Descends
  <2>4. RunFits(n)'
    BY <1>8, <1>f, <2>1, <2>3 DEF RunFits
  <2>5. QED BY <2>2, <2>4
<1>9. ASSUME NEW r \in Requests, NEW n \in RunIds, CommitLaunch(r, n)
      PROVE  LineageInv'
  <2>1. RequestFits(r) /\ request[r].phase = "LAUNCH" /\ ~Launched(n) /\ Finish(r)
    BY <1>9 DEF CommitLaunch, LineageInv, RequestsFit
  <2>2. "RERUN" \notin Exact
    BY DEF Exact
  <2>3. request[r].source # NoRun =>
          /\ request[r].source \in RunIds /\ Launched(request[r].source)
          /\ Newer(request[r].versions, run[request[r].source].versions)
    BY <2>1 DEF RequestFits, Rerunning
  <2>4. \A k \in RunIds : Launched(k)' => Launched(k) \/ RunFits(k)'
    <3>1. CASE request[r].source = NoRun
      BY <1>8, <1>9, <2>1, <3>1 DEF CommitLaunch, RequestFits
    <3>2. CASE request[r].source # NoRun
      BY <1>8, <1>9, <2>1, <2>2, <2>3, <3>2 DEF CommitLaunch, RequestFits
    <3>3. QED BY <3>1, <3>2
  <2>5. QED BY <1>7, <2>1, <2>4
<1>10. ASSUME NEW r \in Requests, NEW n \in RunIds, NEW s \in Scenarios, NEW t \in Targets,
              LaunchConversationScenario(r, n, s, t)
       PROVE  LineageInv'
  <2>. DEFINE versions == [Nothing EXCEPT ![s] = scenario[s].version]
  <2>1. Frozen(versions)
    <3>1. \A x \in Questions : versions[x] = 0
      BY CatalogAssumption, ItemParts DEF Nothing
    <3>2. QED BY <3>1, <1>0, ItemParts DEF Frozen
  <2>2. Create(n, "SCENARIO", t, target[t].revision, versions, NoRun, NoKey) /\ ~Launched(n) /\ Finish(r)
    BY <1>10 DEF LaunchConversationScenario
  <2>. HIDE DEF versions
  <2>3. \A k \in RunIds : Launched(k)' => Launched(k) \/ RunFits(k)'
    BY <2>1, <2>2, <1>8
  <2>4. QED BY <2>2, <2>3, <1>7
<1>11. \A m \in RunIds, v \in Manifests :
         Launched(m) /\ (\A x \in Items : v[x] > 0 => v[x] = run[m].versions[x]) =>
           /\ Frozen(v) /\ Newer(v, run[m].versions)
           /\ \A x \in Members(v) : v[x] = run[m].versions[x]
  <2> SUFFICES ASSUME NEW m \in RunIds, NEW v \in Manifests, Launched(m),
                      \A x \in Items : v[x] > 0 => v[x] = run[m].versions[x]
               PROVE  /\ Frozen(v) /\ Newer(v, run[m].versions)
                      /\ \A x \in Members(v) : v[x] = run[m].versions[x]
    OBVIOUS
  <2>1. \A x \in Items : v[x] \in Nat
    BY DEF Manifests
  <2>2. Frozen(run[m].versions)
    BY DEF LineageInv, RunsFit, RunFits
  <2>3. Frozen(v)
    BY <2>1, <2>2, <1>0, ItemParts DEF Frozen
  <2>4. QED BY <2>1, <2>3 DEF Newer, Members
<1>12. ASSUME NEW r \in Requests, NEW n \in RunIds, NEW m \in RunIds, NEW t \in Targets, LaunchReplay(r, n, m, t)
       PROVE  LineageInv'
  <2>1. Create(n, "REPLAY", t, target[t].revision, run[m].versions, m, NoKey) /\ ~Launched(n) /\ Finish(r)
        /\ Launched(m)
    BY <1>12 DEF LaunchReplay, Done
  <2>2. run[m].versions \in Manifests
    BY <1>0 DEF RunRecords
  <2>3. Frozen(run[m].versions) /\ Newer(run[m].versions, run[m].versions)
    BY <1>11, <2>1, <2>2
  <2>4. \A k \in RunIds : Launched(k)' => Launched(k) \/ RunFits(k)'
    BY <2>1, <2>3, <1>8
  <2>5. QED BY <2>1, <2>4, <1>7
<1>13. ASSUME NEW r \in Requests, NEW m \in RunIds, KeyTaken(r, m)
       PROVE  LineageInv'
  BY <1>13, <1>6, <1>u DEF KeyTaken, Retryable
<1>14. ASSUME NEW r \in Requests, NEW n \in RunIds, NEW kind, NEW t, NEW revision, Retryable(request[r]),
              ~Launched(n), Answer(r, n),
              Create(n, kind, t, revision, SourceVersions(request[r]), request[r].source, Key(r))
       PROVE  LineageInv'
  <2>1. request[r].phase = "RETRY"
    BY <1>14 DEF Retryable
  <2>2. PICK m \in RunIds : request[r].source = m /\ Launched(m) /\ request[r].wanted \subseteq Members(run[m].versions)
    BY <2>1 DEF RetryInv, PagesFit, Paged, Asks, Underway
  <2>. DEFINE versions == SourceVersions(request[r])
  <2>3. versions = [x \in Items |-> IF x \in request[r].wanted THEN run[m].versions[x] ELSE 0]
    BY <2>2 DEF SourceVersions
  <2>4. run[m].versions \in [Items -> Nat]
    BY <1>0 DEF RunRecords, Manifests
  <2>5. versions \in Manifests /\ \A x \in Items : versions[x] > 0 => versions[x] = run[m].versions[x]
    BY <2>3, <2>4 DEF Manifests
  <2>6. Create(n, kind, t, revision, versions, m, Key(r))
    BY <1>14, <2>2
  <2>. HIDE DEF versions
  <2>7. /\ Frozen(versions) /\ Newer(versions, run[m].versions)
        /\ \A x \in Members(versions) : versions[x] = run[m].versions[x]
    BY <1>11, <2>2, <2>5
  <2>8. \A k \in RunIds : Launched(k)' => Launched(k) \/ RunFits(k)'
    BY <1>8, <1>14, <2>2, <2>6, <2>7
  <2>9. QED BY <1>6, <1>14, <2>1, <2>8
<1>15. ASSUME NEW r \in Requests, NEW n \in RunIds, InsertRetry(r, n) \/ InsertConversationRetry(r, n)
       PROVE  LineageInv'
  BY <1>14, <1>15 DEF InsertRetry, InsertConversationRetry
<1>16. ASSUME NEW n \in RunIds, NEW x \in Items, Observe(n, x)
       PROVE  LineageInv'
  <2>1. \A k \in RunIds : Launched(k)' => Launched(k)
    BY <1>16, <1>0 DEF Observe, Launched, RunRecords
  <2>2. UNCHANGED request
    BY <1>16 DEF Observe
  <2>3. QED BY <1>m, <2>1, <2>2 DEF LineageInv, RequestsFit, RunsFit
<1>17. ASSUME NEW r \in Requests, LockConversation(r)
       PROVE  LineageInv'
  <2>1. /\ UNCHANGED run /\ request[r].phase = "RETRY" /\ request'[r].phase = "RETRY"
        /\ request'[r].versions = request[r].versions
        /\ \A o \in Requests : o # r => request'[o] = request[o]
    BY <1>17, <1>0 DEF LockConversation, RequestRecords
  <2>2. Frozen(request[r].versions)
    BY DEF LineageInv, RequestsFit, RequestFits
  <2>3. RequestFits(r)'
    BY <2>1, <2>2, <1>f DEF RequestFits
  <2>4. QED BY <2>1, <2>3, <1>a, <1>u
<1>18. QED
  BY <1>1, <1>2, <1>3, <1>4, <1>5, <1>9, <1>10, <1>12, <1>13, <1>15, <1>16, <1>17 DEF LaunchStep

\* Every step keeps the lineage.
LEMMA NextLineage ==
  ASSUME CatalogRunsTypeOK, RetryInv, Underway, CreatedAbsent, LineageInv, [Next]_vars
  PROVE  LineageInv'
<1>1. AbsentIsZero' /\ VersionsGrow
  BY GrowingVersions DEF LineageInv
<1>2. CASE LaunchStep
  BY <1>1, <1>2, LineageKeptBy
<1>3. CASE UNCHANGED launchVars
  <2>1. \A q \in Items : question[q].version \in Nat /\ question'[q].version \in Nat
    BY NextTyped DEF CatalogRunsTypeOK, CatalogTypes, QuestionRecords
  <2>2. LaunchTypes /\ RunsStay /\ UNCHANGED request
    BY <1>3, UnchangedStays DEF CatalogRunsTypeOK, launchVars
  <2>3. \A n \in RunIds : Launched(n)' => Launched(n)
    BY <1>3 DEF launchVars, Launched
  <2>4. QED BY <1>1, <2>1, <2>2, <2>3, FitStays DEF LineageInv, RequestsFit, RunsFit
<1>4. QED BY <1>2, <1>3 DEF Next, vars

\* Down every chain of retries, replays and reruns, of any length, a retry and
\* a replay repeat exactly what their source asked, and a rerun asks some of
\* its source's questions and none in an older version, whatever happened to
\* the catalog since.
THEOREM LineageIsKept == Spec => []LineageKept
<1>1. CatalogRunsTypeOK /\ LineageInv => LineageKept
  BY InvImpliesLineage DEF CatalogRunsTypeOK
<1>2. CatalogRunsTypeOK /\ CreatedAbsent /\ [Next]_vars => CreatedAbsent'
  BY NextCreated
<1>3. CatalogRunsTypeOK /\ Underway /\ RetryInv /\ [Next]_vars => RetryInv'
  BY NextRetry
<1>4. CatalogRunsTypeOK /\ Underway /\ RetryInv /\ CreatedAbsent /\ LineageInv /\ [Next]_vars => LineageInv'
  BY NextLineage
<1>5. QED
  BY <1>1, <1>2, <1>3, <1>4, InitCreated, InitRetry, InitLineage, Typed, PTL DEF Spec

=============================================================================
