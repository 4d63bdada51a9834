----------------------------- MODULE CatalogRuns -----------------------------
(***************************************************************************)
(* Administrators change the catalog and import a workbook while others    *)
(* launch, retry and rerun.  The parts meet in the rows of the catalog and *)
(* in three locks: a change to a target waits for a launch that holds it,  *)
(* a new question for an uncommitted one of the same id, an import for     *)
(* another of the same workbook.                                           *)
(***************************************************************************)
EXTENDS CorpusImport, RunLaunch

vars == <<catalogVars, importVars, launchVars>>

Init == CatalogInit /\ ImportInit /\ LaunchInit

TextsOf(q) == IF q \in Corpus THEN Texts ELSE {"OTHER"}

QuestionChanges ==
  \E q \in Items :
    \/ \E l \in Lifecycles, text \in TextsOf(q) : ~Uncommitted(q) /\ CreateQuestion(q, l, text)
    \/ \E text \in TextsOf(q) : CreateQuestionVersion(q, text)
    \/ \E l \in Lifecycles : SetQuestionLifecycle(q, l)

ScenarioChanges ==
  \E s \in Scenarios :
    \/ \E l \in Lifecycles : CreateScenario(s, l) \/ UpdateScenarioMetadata(s, l)
    \/ CreateScenarioVersion(s)

TargetChanges ==
  \E t \in Targets :
    \/ \E c \in Capabilities, active \in BOOLEAN : CreateTarget(t, active, c)
    \/ \E active \in BOOLEAN : ~Locked(t) /\ UpdateTarget(t, active)
    \/ \E c \in Capabilities : ~Locked(t) /\ CreateTargetRevision(t, c)

Next ==
  \/ (QuestionChanges \/ ScenarioChanges \/ TargetChanges) /\ UNCHANGED <<importVars, launchVars>>
  \/ ImportStep /\ UNCHANGED launchVars
  \/ LaunchStep /\ UNCHANGED importVars

Spec == Init /\ [][Next]_vars

\* Every variable keeps its type.
CatalogRunsTypeOK == CatalogTypes /\ ImportTypes /\ LaunchTypes

=============================================================================
