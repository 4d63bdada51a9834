------------------------------- MODULE Catalog -------------------------------
(***************************************************************************)
(* The test catalog: questions, conversation scenarios and targets, each   *)
(* with a history of immutable versions.  A service locks the parent, so a *)
(* change is one transaction.  The parent's current version is the number  *)
(* of its last one, as closing the old version and inserting the new one   *)
(* commit together.                                                        *)
(*                                                                         *)
(* A scenario has a companion Question of kind CONVERSATION under the same *)
(* stable id; the scenario's services keep the two in step, and the        *)
(* question's services refuse to touch it.                                 *)
(***************************************************************************)
EXTENDS Naturals

CONSTANTS
  Questions,   \* stable ids of SINGLE_TURN Questions
  Scenarios,   \* stable ids of scenarios and of their companions
  Targets,     \* EvaluationTargets
  MaxChanges   \* bound: changes to the catalog

Items == Questions \cup Scenarios

ASSUME CatalogAssumption == Questions \cap Scenarios = {} /\ MaxChanges \in Nat

VARIABLES
  question,  \* Questions, companions included: lifecycle, current version, text
  scenario,  \* lifecycle, current version, the companion version it names
  target,    \* is_active, and the current revision with its capability
  changes    \* the bound used so far

catalogVars == <<question, scenario, target, changes>>

Lifecycles == {"DRAFT", "ACTIVE", "RETIRED"}
Texts == {"WORKBOOK", "OTHER"}   \* is the current text the one a workbook has
Capabilities == {"NONE", "QUESTIONS", "SESSIONS"}  \* what the current revision supports: SESSIONS is both

NoQuestion == [lifecycle |-> "ABSENT", version |-> 0, text |-> "OTHER"]
NoScenario == [lifecycle |-> "ABSENT", version |-> 0, companion |-> 0]
NoRevision == [active |-> FALSE, revision |-> 0, capability |-> "NONE"]

FirstVersion(l, text) == [lifecycle |-> l, version |-> 1, text |-> text]
Exists(q) == question[q].lifecycle # "ABSENT"
Eligible == {q \in Questions : question[q].lifecycle = "ACTIVE"}

Change == changes < MaxChanges /\ changes' = changes + 1

\* An empty catalog, or one whose items and targets are all in use.
CatalogInit ==
  /\ \/ /\ question = [q \in Items |-> NoQuestion]
        /\ scenario = [s \in Scenarios |-> NoScenario]
        /\ target = [t \in Targets |-> NoRevision]
     \/ /\ question = [q \in Items |-> FirstVersion("ACTIVE", "OTHER")]
        /\ scenario = [s \in Scenarios |-> [lifecycle |-> "ACTIVE", version |-> 1, companion |-> 1]]
        /\ target = [t \in Targets |-> [active |-> TRUE, revision |-> 1, capability |-> "SESSIONS"]]
  /\ changes = 0

-----------------------------------------------------------------------------
(* Questions.                                                              *)

\* Variant: the companions are questions like any other.
AnyQuestion(q) == Exists(q)

\* The guard of the question services: not a scenario's companion.
Independent(q) == Exists(q) /\ q \notin Scenarios

\* create_question refuses the kind CONVERSATION.
CreateQuestion(q, l, text) ==
  /\ q \in Questions
  /\ ~Exists(q)
  /\ Change
  /\ question' = [question EXCEPT ![q] = FirstVersion(l, text)]
  /\ UNCHANGED <<scenario, target>>

CreateQuestionVersion(q, text) ==
  /\ Independent(q)
  /\ Change
  /\ question' = [question EXCEPT ![q].version = @ + 1, ![q].text = text]
  /\ UNCHANGED <<scenario, target>>

SetQuestionLifecycle(q, l) ==
  /\ Independent(q)
  /\ Change
  /\ question' = [question EXCEPT ![q].lifecycle = l]
  /\ UNCHANGED <<scenario, target>>

-----------------------------------------------------------------------------
(* Scenarios, each with its companion.                                     *)

CreateScenario(s, l) ==
  /\ ~Exists(s)
  /\ Change
  /\ question' = [question EXCEPT ![s] = FirstVersion(l, "OTHER")]
  /\ scenario' = [scenario EXCEPT ![s] = [lifecycle |-> l, version |-> 1, companion |-> 1]]
  /\ UNCHANGED target

CreateScenarioVersion(s) ==
  /\ Exists(s)
  /\ Change
  /\ question' = [question EXCEPT ![s].version = @ + 1]
  /\ scenario' = [scenario EXCEPT ![s].version = @ + 1, ![s].companion = question[s].version + 1]
  /\ UNCHANGED target

UpdateScenarioMetadata(s, l) ==
  /\ Exists(s)
  /\ Change
  /\ question' = [question EXCEPT ![s].lifecycle = l]
  /\ scenario' = [scenario EXCEPT ![s].lifecycle = l]
  /\ UNCHANGED target

-----------------------------------------------------------------------------
(* Targets.                                                                *)

CreateTarget(t, active, c) ==
  /\ target[t] = NoRevision
  /\ Change
  /\ target' = [target EXCEPT ![t] = [active |-> active, revision |-> 1, capability |-> c]]
  /\ UNCHANGED <<question, scenario>>

UpdateTarget(t, active) ==
  /\ target[t].revision > 0
  /\ Change
  /\ target' = [target EXCEPT ![t].active = active]
  /\ UNCHANGED <<question, scenario>>

CreateTargetRevision(t, c) ==
  /\ target[t].revision > 0
  /\ Change
  /\ target' = [target EXCEPT ![t].revision = @ + 1, ![t].capability = c]
  /\ UNCHANGED <<question, scenario>>

-----------------------------------------------------------------------------

QuestionRecords ==
  [lifecycle : Lifecycles \cup {"ABSENT"}, version : Nat, text : Texts]
ScenarioRecords ==
  [lifecycle : Lifecycles \cup {"ABSENT"}, version : Nat, companion : Nat]
TargetRecords == [active : BOOLEAN, revision : Nat, capability : Capabilities]

CatalogTypes ==
  /\ question \in [Items -> QuestionRecords]
  /\ scenario \in [Scenarios -> ScenarioRecords]
  /\ target \in [Targets -> TargetRecords]
  /\ changes \in Nat

\* A scenario and its companion Question have the same lifecycle, and the
\* current version of the scenario names the companion's current version.
CompanionInStep ==
  \A s \in Scenarios :
    /\ scenario[s].lifecycle = question[s].lifecycle
    /\ scenario[s].companion = question[s].version

=============================================================================
